-------------------------- MODULE ToolCallsProofs --------------------------
(***************************************************************************)
(* Proofs about ToolCalls, for any calls and requests, any sites and       *)
(* interfaces that the world comes to have, and any tables.                *)
(*                                                                         *)
(* The argument is about what a call may have been told.  Each answer it   *)
(* works with was lost, or is the page some origin had in a world there    *)
(* was while the call ran (Came); worlds are only ever added to what a     *)
(* running call has seen, and the answers are not read twice.  So what the *)
(* two gates conclude from the answers, once it is said of one of those    *)
(* worlds, stays true (Passed, Encoded), and so does what a message says   *)
(* of the call that sent it (Explained).  The lemmas about the operators   *)
(* of AppDocuments and Compliance carry a conclusion over to the worlds.   *)
(***************************************************************************)
EXTENDS ToolCalls, TLAPS

-----------------------------------------------------------------------------
(* The invariant.                                                           *)

Step     == {"asked", "reading", "interface", "identity", "send",
             "replying", "diagnose", "probing", "done"}
World    == [site : [Origin -> Site], iface : [Canister -> Interface]]
Document == [arch |-> Manifest, old_arch |-> OldDoc, layer5 |-> Origin,
             old_origin |-> OldDoc, alts |-> SUBSET Origin, root |-> {}]
Answers  == UNION {Answer(Document[r]) : r \in Read}

Typed ==
    /\ world \in World
    /\ step \in [Call -> Step]
    /\ ask \in [Call -> Asks]
    /\ got \in [Call -> [Read -> Answers \cup {None}]]
    /\ \A c \in Call, r \in Read : got[c][r] \in Answer(Document[r]) \cup {None}
    /\ did \in [Call -> Interface \cup {None}]
    /\ verdict \in [Call -> Verdict \cup {None}]
    /\ sent \subseteq Message
    /\ seen \in [Call -> SUBSET World]
    /\ changes \in 0..MaxChanges

(* What the origin asked answers in a world, and what it may have answered   *)
(* in one of several.                                                        *)
ReplyIn(w, o, r) ==
    LET by   == w.site[o].moved
        page == IF r = "root" THEN [status |-> "ok", fits |-> TRUE, doc |-> None]
                ELSE w.site[by][Field[r]]
    IN [by |-> by, ic |-> w.site[by].ic, status |-> page.status,
        fits |-> page.fits, doc |-> page.doc]

Given(ws, o, r, a) == a = Lost(o) \/ \E w \in ws : a = ReplyIn(w, o, r)

(* A call has seen the worlds there were while it ran.                      *)
Watches(c) == seen[c] # {} /\ (step[c] # "done" => world \in seen[c])

(* A call that runs was given an app, and origins that are origins.         *)
Vetted(c) ==
    step[c] \notin {"asked", "done"} =>
        /\ AppOf(ask[c]) \in Origin
        /\ ask[c].as # None => ask[c].as.host \in Origin

(* Each answer it works with was lost, or is what the origin it asked       *)
(* answered in one of those worlds.                                         *)
Came(c, r) ==
    got[c][r] # None =>
        /\ AskedOf(c, r) \in Origin
        /\ r = "alts" => got[c]["layer5"] # None /\ got[c]["old_origin"] # None
        /\ Given(seen[c], AskedOf(c, r), r, got[c][r])

(* It passed the gates with all it had to read.                             *)
Authorized(c) ==
    Readable(c) = {} /\ BindIdentity(c) = "bound" /\ AuthorizeCall(c) = "declared"

Past == {"interface", "identity", "send", "replying", "diagnose"}

Passed(c) ==
    /\ step[c] = "reading" => ask[c].kind # "principal"
    /\ step[c] = "probing" => Readable(c) = {}
    /\ step[c] \in Past =>
          \/ ask[c].kind = "principal" /\ step[c] = "identity"
          \/ ask[c].kind \notin {"open", "principal"} /\ Authorized(c)

(* An update works with an interface that was judged.                       *)
Judged(c) ==
    \E w \in seen[c] :
        LET i == w.iface[ask[c].canister]
        IN /\ i.status = "published" /\ i.parses /\ i.methods \cap LedgerNamed = {}
           /\ did[c] = i

Encoded(c) ==
    ask[c].kind = "update" /\ step[c] \in Past \ {"interface"} => Judged(c)

CallOK(c) ==
    Watches(c) /\ Vetted(c) /\ (\A r \in Read : Came(c, r)) /\ Passed(c) /\ Encoded(c)

(* What a message says of the call that sent it.                            *)
Explained(m) ==
    LET c == m.call
    IN /\ step[c] \notin {"asked", "reading"}
       /\ \/ m.canister = ask[c].canister /\ Authorized(c)
          \/ /\ m.canister \in MarkDeclared(c) /\ Readable(c) = {}
             /\ m.mode = "interface" /\ m.as = None
       /\ m.as # None => /\ Signs(ask[c])
                         /\ m.as = TargetOrigin(CanonicalizeDerivationOrigin(ask[c].as))
       /\ m.mode = "update" => step[c] \in {"replying", "diagnose", "done"} /\ Judged(c)

Inv == Typed /\ (\A c \in Call : CallOK(c)) /\ (\A m \in sent : Explained(m))

-----------------------------------------------------------------------------
(* What the operators make of an answer.                                     *)

(* The field a page is at, by the read that fetches it.                      *)
LEMMA Fields ==
    /\ Field["arch"] = "arch" /\ Field["old_arch"] = "legacy" /\ Field["layer5"] = "layer5"
    /\ Field["old_origin"] = "legacy" /\ Field["alts"] = "alts"
BY DEF Field

LEMMA Documents ==
    /\ Document["arch"] = Manifest /\ Document["old_arch"] = OldDoc
    /\ Document["layer5"] = Origin /\ Document["old_origin"] = OldDoc
    /\ Document["alts"] = SUBSET Origin /\ Document["root"] = {}
BY DEF Document

(* A reply is what the site of the origin that answers has at that place.    *)
LEMMA ReplyIs ==
    ASSUME NEW w \in World, NEW o \in Origin, NEW r \in Read
    PROVE  /\ ReplyIn(w, o, r).by = w.site[o].moved
           /\ ReplyIn(w, o, r).ic = w.site[w.site[o].moved].ic
           /\ r # "root" => /\ ReplyIn(w, o, r).status = w.site[w.site[o].moved][Field[r]].status
                            /\ ReplyIn(w, o, r).fits = w.site[w.site[o].moved][Field[r]].fits
                            /\ ReplyIn(w, o, r).doc = w.site[w.site[o].moved][Field[r]].doc
           /\ r = "root" => ReplyIn(w, o, r).status = "ok"
BY DEF ReplyIn

LEMMA PagesAre ==
    ASSUME NEW w \in World, NEW o \in Origin
    PROVE  /\ w.site[o].moved \in Origin /\ w.site[o].ic \in BOOLEAN
           /\ w.site[o].arch \in Page(Manifest)
           /\ w.site[o].legacy \in Page(OldDoc)
           /\ w.site[o].layer5 \in Page(Origin)
           /\ w.site[o].alts \in Page(SUBSET Origin)
BY DEF World, Site

(* The answers to a read are documents of its kind.                          *)
LEMMA GivenIsAnswer ==
    ASSUME NEW ws \in SUBSET World, NEW o \in Origin, NEW r \in Read, NEW a,
           Given(ws, o, r, a)
    PROVE  /\ a \in Answer(Document[r])
           /\ a # None /\ a # Unknown
<1>1. a \in Answer(Document[r])
  <2>1. CASE a = Lost(o)
    BY <2>1 DEF Lost, Answer
  <2>2. ASSUME NEW w \in ws, a = ReplyIn(w, o, r)
        PROVE  a \in Answer(Document[r])
    <3> DEFINE by == w.site[o].moved
    <3>1. by \in Origin /\ w.site[by].ic \in BOOLEAN
      BY PagesAre
    <3>2. CASE r = "root"
      BY <2>2, <3>1, <3>2 DEF ReplyIn, Answer, Status
    <3>3. CASE r # "root"
      <4>1. w.site[by][Field[r]] \in Page(Document[r])
        <5>1. /\ w.site[by].arch \in Page(Manifest) /\ w.site[by].legacy \in Page(OldDoc)
              /\ w.site[by].layer5 \in Page(Origin) /\ w.site[by].alts \in Page(SUBSET Origin)
          BY <3>1, PagesAre
        <5>2. r \in {"arch", "old_arch", "layer5", "old_origin", "alts"}
          BY <3>3 DEF Read
        <5> QED
          BY <5>1, <5>2, Fields, Documents
      <4> QED
        BY <2>2, <3>1, <3>3, <4>1 DEF ReplyIn, Answer, Page
    <3> QED
      BY <3>2, <3>3
  <2> QED
    BY <2>1, <2>2 DEF Given
<1>2. \/ a \in Answer(Manifest) \/ a \in Answer(OldDoc)
      \/ a \in Answer(Origin) \/ a \in Answer(SUBSET Origin)
  <2>1. CASE r = "root"
    <3>1. Document[r] = {}
      BY <2>1 DEF Document
    <3> QED
      BY <1>1, <3>1 DEF Answer
  <2>2. CASE r # "root"
    <3>1. Document[r] \in {Manifest, OldDoc, Origin, SUBSET Origin}
      BY <2>2 DEF Document, Read
    <3> QED
      BY <1>1, <3>1
  <2> QED
    BY <2>1, <2>2
<1>3. a # None /\ a # Unknown
  BY <1>2, AnswersAssumption DEF Told
<1> QED
  BY <1>1, <1>3

(* An answer that was not lost is the page of the site that answered, in a   *)
(* world there was.                                                          *)
LEMMA Behind ==
    ASSUME NEW ws \in SUBSET World, NEW o \in Origin, NEW r \in Read, NEW a,
           Given(ws, o, r, a), a.status # "lost"
    PROVE  \E w \in ws :
              /\ w.site[o].moved = a.by /\ a.ic = w.site[a.by].ic
              /\ r # "root" => /\ a.status = w.site[a.by][Field[r]].status
                               /\ a.fits = w.site[a.by][Field[r]].fits
                               /\ a.doc = w.site[a.by][Field[r]].doc
<1>1. a # Lost(o)
  BY DEF Lost
<1>2. PICK w \in ws : a = ReplyIn(w, o, r)
  BY <1>1 DEF Given
<1> QED
  BY <1>2, ReplyIs

(* decide says "declared" only of a canister that the app itself listed.     *)
LEMMA DeclaredIsListed ==
    ASSUME NEW ws \in SUBSET World, NEW o \in Origin, NEW a, NEW legacy, NEW k,
           Given(ws, o, "arch", a),
           Decide(FetchDeclaredManifest(o, a, legacy), k) = "declared"
    PROVE  \E w \in ws : Lists(w, o, k)
<1> DEFINE f == FetchDeclaredManifest(o, a, legacy)
<1>1. f.is = "declared" /\ k \in ManifestCanisterIds(f.manifest)
  BY DEF Decide
<1>2. /\ a.status = "ok" /\ a.fits /\ a.by = o /\ a.doc # None
      /\ f.manifest = a.doc
  BY <1>1 DEF FetchDeclaredManifest, GetDocument, MeansNotPublished, ServedHere,
              AnsweredBy, Probe
<1>3. PICK w \in ws : /\ w.site[o].moved = o
                      /\ a.status = w.site[o].arch.status
                      /\ a.fits = w.site[o].arch.fits /\ a.doc = w.site[o].arch.doc
  <2>1. "arch" \in Read /\ "arch" # "root" /\ a.status # "lost"
    BY <1>2 DEF Read
  <2>2. \E w \in ws : /\ w.site[o].moved = a.by
                      /\ a.status = w.site[a.by][Field["arch"]].status
                      /\ a.fits = w.site[a.by][Field["arch"]].fits
                      /\ a.doc = w.site[a.by][Field["arch"]].doc
    BY <2>1, Behind
  <2> QED
    BY <1>2, <2>2, Fields
<1> QED
  BY <1>1, <1>2, <1>3 DEF Lists, Serves, ManifestCanisterIds

(* and so does mark_declared.                                                *)
LEMMA MarkedIsListed ==
    ASSUME NEW ws \in SUBSET World, NEW o \in Origin, NEW a, NEW k,
           Given(ws, o, "arch", a),
           ServedHere(GetDocument(a), o), GetDocument(a).doc # None,
           k \in ManifestCanisterIds(GetDocument(a).doc)
    PROVE  \E w \in ws : Lists(w, o, k)
<1>1. GetDocument(a) = a /\ a.status = "ok" /\ a.fits /\ a.by = o
  BY DEF GetDocument, MeansNotPublished, ServedHere, AnsweredBy
<1>2. PICK w \in ws : /\ w.site[o].moved = o
                      /\ a.status = w.site[o].arch.status
                      /\ a.fits = w.site[o].arch.fits /\ a.doc = w.site[o].arch.doc
  <2>1. "arch" \in Read /\ "arch" # "root" /\ a.status # "lost"
    BY <1>1 DEF Read
  <2>2. \E w \in ws : /\ w.site[o].moved = a.by
                      /\ a.status = w.site[a.by][Field["arch"]].status
                      /\ a.fits = w.site[a.by][Field["arch"]].fits
                      /\ a.doc = w.site[a.by][Field["arch"]].doc
    BY <2>1, Behind
  <2> QED
    BY <1>1, <2>2, Fields
<1> QED
  BY <1>1, <1>2 DEF Lists, Serves, ManifestCanisterIds

(* What the probe of a path found: absent and served are told of the origin  *)
(* itself, in a world there was.                                             *)
LEMMA ProbeOf ==
    ASSUME NEW ws \in SUBSET World, NEW o \in Origin,
           NEW r \in {"layer5", "old_origin"}, NEW a, Given(ws, o, r, a),
           NEW oneLine \in BOOLEAN
    PROVE  LET f   == FetchWellKnown(a, o, oneLine)
           IN  /\ f.is \in {"absent", "served", "unreachable"}
               /\ f.is = "served" => f.doc = a.doc
               /\ f.is = "absent" \/ (f.is = "served" /\ f.doc = None) =>
                    \E w \in ws : Blank(w, o, Field[r], oneLine) /\ ~Serves(w, o, Field[r])
               /\ f.is = "served" /\ f.doc # None =>
                    \E w \in ws : Serves(w, o, Field[r]) /\ w.site[o][Field[r]].doc = f.doc
<1> DEFINE f == FetchWellKnown(a, o, oneLine)
<1>0. r \in Read /\ r # "root"
  BY DEF Read
<1>1. /\ f.is \in {"absent", "served", "unreachable"}
      /\ f.is = "served" => f.doc = a.doc /\ a.status = "ok" /\ a.fits
      /\ f.is = "absent" => a.status = "gone" \/ (a.status = "ok" /\ ~a.fits /\ oneLine)
      /\ f.is # "unreachable" => a.by = o
  BY DEF FetchWellKnown, Outcome, AnsweredBy, MeansNotPublished
<1>2. CASE f.is = "unreachable"
  BY <1>1, <1>2
<1>3. CASE f.is # "unreachable"
  <2>1. a.status # "lost"
    BY <1>1, <1>3
  <2>2. PICK w \in ws : /\ w.site[o].moved = o
                        /\ a.status = w.site[o][Field[r]].status
                        /\ a.fits = w.site[o][Field[r]].fits
                        /\ a.doc = w.site[o][Field[r]].doc
    BY <1>0, <1>1, <1>3, <2>1, Behind
  <2>3. f.is = "absent" => Blank(w, o, Field[r], oneLine) /\ ~Serves(w, o, Field[r])
    BY <1>1, <2>2 DEF Blank, Serves
  <2>4. f.is = "served" /\ f.doc = None =>
          Blank(w, o, Field[r], oneLine) /\ ~Serves(w, o, Field[r])
    BY <1>1, <2>2 DEF Blank, Serves
  <2>5. f.is = "served" /\ f.doc # None =>
          Serves(w, o, Field[r]) /\ w.site[o][Field[r]].doc = f.doc
    BY <1>1, <2>2 DEF Serves
  <2> QED
    BY <1>1, <1>3, <2>3, <2>4, <2>5
<1> QED
  BY <1>2, <1>3

(* What resolve_declared_origin finds out is what the app pins; an error is  *)
(* never taken for nothing pinned.                                           *)
LEMMA DeclaredIsPinned ==
    ASSUME NEW ws \in SUBSET World, NEW o \in Origin, NEW a, NEW b,
           Given(ws, o, "layer5", a), Given(ws, o, "old_origin", b)
    PROVE  /\ DeclaredOrigin(o, a, b) \in Origin \cup {None, Unknown}
           /\ DeclaredOrigin(o, a, b) # Unknown => Pins(ws, o, DeclaredOrigin(o, a, b))
<1> DEFINE top    == FetchWellKnown(a, o, TRUE)
           legacy == FetchWellKnown(b, o, FALSE)
           d      == DeclaredOrigin(o, a, b)
<1>1. /\ top.is \in {"absent", "served", "unreachable"}
      /\ top.is = "absent" \/ (top.is = "served" /\ top.doc = None) =>
           \E w \in ws : Blank(w, o, "layer5", TRUE) /\ ~Serves(w, o, "layer5")
      /\ top.is = "served" /\ top.doc # None =>
           \E w \in ws : Serves(w, o, "layer5") /\ w.site[o]["layer5"].doc = top.doc
  <2> HIDE DEF top
  <2>1. LET f == FetchWellKnown(a, o, TRUE)
        IN  /\ f.is \in {"absent", "served", "unreachable"}
            /\ f.is = "served" => f.doc = a.doc
            /\ f.is = "absent" \/ (f.is = "served" /\ f.doc = None) =>
                 \E w \in ws : Blank(w, o, Field["layer5"], TRUE) /\ ~Serves(w, o, Field["layer5"])
            /\ f.is = "served" /\ f.doc # None =>
                 \E w \in ws : Serves(w, o, Field["layer5"]) /\ w.site[o][Field["layer5"]].doc = f.doc
    BY ProbeOf
  <2> QED
    BY <2>1, Fields DEF top
<1>2. /\ legacy.is \in {"absent", "served", "unreachable"}
      /\ legacy.is = "absent" \/ (legacy.is = "served" /\ legacy.doc = None) =>
           \E w \in ws : Blank(w, o, "legacy", FALSE) /\ ~Serves(w, o, "legacy")
      /\ legacy.is = "served" /\ legacy.doc # None =>
           \E w \in ws : Serves(w, o, "legacy") /\ w.site[o]["legacy"].doc = legacy.doc
  <2> HIDE DEF legacy
  <2>1. LET f == FetchWellKnown(b, o, FALSE)
        IN  /\ f.is \in {"absent", "served", "unreachable"}
            /\ f.is = "served" => f.doc = b.doc
            /\ f.is = "absent" \/ (f.is = "served" /\ f.doc = None) =>
                 \E w \in ws : Blank(w, o, Field["old_origin"], FALSE)
                               /\ ~Serves(w, o, Field["old_origin"])
            /\ f.is = "served" /\ f.doc # None =>
                 \E w \in ws : Serves(w, o, Field["old_origin"])
                               /\ w.site[o][Field["old_origin"]].doc = f.doc
    BY ProbeOf
  <2> QED
    BY <2>1, Fields DEF legacy
<1> HIDE DEF top, legacy
<1>3. CASE top.is = "unreachable"
  BY <1>3 DEF DeclaredOrigin, top
<1>4. CASE top.is = "served" /\ top.doc # None
  <2>1. d = top.doc
    BY <1>4 DEF DeclaredOrigin, top
  <2>2. PICK w \in ws : Serves(w, o, "layer5") /\ w.site[o].layer5.doc = d
    BY <1>1, <1>4, <2>1
  <2>3. d \in Origin
    <3>1. w.site[o].layer5 \in Page(Origin)
      BY PagesAre
    <3> QED
      BY <2>2, <3>1 DEF Serves, Page
  <2> QED
    BY <2>2, <2>3 DEF Pins
<1>5. CASE top.is = "absent" \/ (top.is = "served" /\ top.doc = None)
  <2>1. d = DeclaredFromLegacy(legacy)
    BY <1>5 DEF DeclaredOrigin, top, legacy
  <2>2. \E w \in ws : Blank(w, o, "layer5", TRUE) /\ ~Serves(w, o, "layer5")
    BY <1>1, <1>5
  <2>3. CASE legacy.is = "unreachable"
    BY <2>1, <2>3 DEF DeclaredFromLegacy
  <2>4. CASE legacy.is = "served" /\ legacy.doc # None
    <3>1. d = legacy.doc.origin
      BY <2>1, <2>4 DEF DeclaredFromLegacy
    <3>2. PICK w \in ws : Serves(w, o, "legacy") /\ w.site[o].legacy.doc = legacy.doc
      BY <1>2, <2>4
    <3>3. d \in Origin \cup {None}
      <4>1. w.site[o].legacy \in Page(OldDoc)
        BY PagesAre
      <4> QED
        BY <3>1, <3>2, <4>1 DEF Serves, Page, OldDoc
    <3> QED
      BY <2>2, <3>1, <3>2, <3>3 DEF Pins
  <2>5. CASE legacy.is = "absent" \/ (legacy.is = "served" /\ legacy.doc = None)
    <3>1. d = None
      BY <2>1, <2>5 DEF DeclaredFromLegacy
    <3> QED
      BY <1>2, <2>2, <2>5, <3>1 DEF Pins
  <2> QED
    BY <1>2, <2>3, <2>4, <2>5
<1> QED
  BY <1>1, <1>3, <1>4, <1>5

(* The list of alternative origins vouches only if the claimed origin serves *)
(* it, and if it was read, only if it vouches.                               *)
LEMMA AlternativesVouch ==
    ASSUME NEW ws \in SUBSET World, NEW d \in Origin, NEW o \in Origin, NEW a,
           Given(ws, d, "alts", a), a.status # "lost"
    PROVE  \E w \in ws : o \in FetchAlternativeOrigins(a, d) <=>
                            Serves(w, d, "alts") /\ o \in w.site[d].alts.doc
<1>1. "alts" \in Read /\ "alts" # "root"
  BY DEF Read
<1>2. PICK w \in ws : /\ w.site[d].moved = a.by
                      /\ a.status = w.site[a.by][Field["alts"]].status
                      /\ a.fits = w.site[a.by][Field["alts"]].fits
                      /\ a.doc = w.site[a.by][Field["alts"]].doc
  BY <1>1, Behind
<1>3. CASE a.by = d
  BY <1>2, <1>3, Fields DEF FetchAlternativeOrigins, AnsweredBy, Serves
<1>4. CASE a.by # d
  BY <1>2, <1>4 DEF FetchAlternativeOrigins, AnsweredBy, Serves
<1> QED
  BY <1>3, <1>4

-----------------------------------------------------------------------------
(* What a step does.                                                         *)

(* A call's step leaves the world, the requests and the other calls alone,   *)
(* takes nothing back that was sent, and ends with a verdict or with none.   *)
LEMMA CallMoves ==
    ASSUME Typed, NEW c \in Call, CallStep(c)
    PROVE  /\ UNCHANGED <<world, ask, seen, changes>>
           /\ step[c] # "done"
           /\ \A d \in Call \ {c} : step'[d] = step[d] /\ got'[d] = got[d]
                                    /\ did'[d] = did[d] /\ verdict'[d] = verdict[d]
           /\ step[c] # "reading" => got'[c] = got[c]
           /\ sent \subseteq sent'
           /\ \A m \in sent' \ sent : m.call = c
<1> USE DEF Typed, Goes, Ended
<1>1. CASE Vet(c)
  BY <1>1 DEF Vet
<1>2. CASE \E r \in Read : ReadDocument(c, r)
  BY <1>2 DEF ReadDocument
<1>3. CASE Authorize(c)
  BY <1>3 DEF Authorize
<1>4. CASE Open(c)
  BY <1>4 DEF Open
<1>5. CASE EnrichCapabilities(c)
  BY <1>5 DEF EnrichCapabilities, Touch
<1>6. CASE UpdateInterface(c)
  BY <1>6 DEF UpdateInterface, Touch
<1>7. CASE QueryInterface(c)
  BY <1>7 DEF QueryInterface, Touch
<1>8. CASE ShowInterface(c)
  BY <1>8 DEF ShowInterface, Touch
<1>9. CASE ResolveAgent(c)
  BY <1>9 DEF ResolveAgent
<1>10. CASE Send(c)
  BY <1>10 DEF Send, Msg
<1>11. CASE Receive(c)
  BY <1>11 DEF Receive
<1>12. CASE Diagnose(c)
  BY <1>12 DEF Diagnose, Msg
<1> QED
  BY <1>1, <1>2, <1>3, <1>4, <1>5, <1>6, <1>7, <1>8, <1>9, <1>10, <1>11, <1>12 DEF CallStep

(* The world's step changes neither a call nor what was sent, and adds a     *)
(* world to what each running call has seen.                                 *)
LEMMA WorldMoves ==
    ASSUME Typed,
           \/ \E o \in Origin : Republish(o)
           \/ \E k \in Canister : Upgrade(k)
    PROVE  /\ UNCHANGED <<step, ask, got, did, verdict, sent>>
           /\ world' \in World /\ changes' \in 0..MaxChanges
           /\ seen' = [c \in Call |-> IF step[c] # "done" THEN seen[c] \cup {world'} ELSE seen[c]]
<1>1. ASSUME NEW o \in Origin, Republish(o)
      PROVE  \E w \in World : Changed(w)
  <2>1. PICK s \in Sites[o] : Changed([world EXCEPT !.site[o] = s])
    BY <1>1 DEF Republish
  <2>2. s \in Site
    BY ToolCallsAssumption
  <2>3. [world EXCEPT !.site[o] = s] \in World
    BY <2>2 DEF Typed, World
  <2> QED
    BY <2>1, <2>3
<1>2. ASSUME NEW k \in Canister, Upgrade(k)
      PROVE  \E w \in World : Changed(w)
  <2>1. PICK i \in Interfaces[k] : Changed([world EXCEPT !.iface[k] = i])
    BY <1>2 DEF Upgrade
  <2>2. i \in Interface
    BY ToolCallsAssumption
  <2>3. [world EXCEPT !.iface[k] = i] \in World
    BY <2>2 DEF Typed, World
  <2> QED
    BY <2>1, <2>3
<1>3. PICK w \in World : Changed(w)
  BY <1>1, <1>2
<1> QED
  BY <1>3, ToolCallsAssumption DEF Changed, Running, Typed

(* What the two halves of the gate may say.                                  *)
LEMMA GatesSay ==
    ASSUME NEW c \in Call
    PROVE  /\ BindIdentity(c) \in {"bound", "mismatch", "unresolvable", "unfit", "unvouched"}
           /\ AuthorizeCall(c) \in {"declared", "unreachable", "withheld", "no_manifest",
                                    "legacy_only", "not_declared", "undetermined"}
<1>1. Unresolvable(c) \in {"unresolvable", "unfit", "unvouched"}
  BY DEF Unresolvable
<1>2. BindIdentity(c) \in {"bound", "mismatch", "unresolvable", "unfit", "unvouched"}
  BY <1>1 DEF BindIdentity
<1>3. ASSUME NEW o, NEW a, NEW l
      PROVE  FetchDeclaredManifest(o, a, l).is \in
                {"declared", "unreachable", "no_manifest", "legacy_only"}
  BY DEF FetchDeclaredManifest, Probe
<1>4. ASSUME NEW p, p.is \in {"declared", "unreachable", "no_manifest", "legacy_only"}, NEW k
      PROVE  Decide(p, k) \in {"declared", "unreachable", "no_manifest", "legacy_only",
                               "not_declared", "undetermined"}
  <2>1. CASE p.is # "declared"
    BY <1>4, <2>1 DEF Decide
  <2>2. CASE p.is = "declared" /\ k \in ManifestCanisterIds(p.manifest)
    BY <2>2 DEF Decide
  <2>3. CASE p.is = "declared" /\ k \notin ManifestCanisterIds(p.manifest)
    BY <2>3 DEF Decide
  <2> QED
    BY <2>1, <2>2, <2>3
<1>5. AuthorizeCall(c) \in {"declared", "unreachable", "withheld", "no_manifest",
                            "legacy_only", "not_declared", "undetermined"}
  BY <1>3, <1>4 DEF AuthorizeCall
<1> QED
  BY <1>2, <1>5

(* A read that can be made has an origin to ask.                             *)
LEMMA ReadableIs ==
    ASSUME NEW c \in Call, Vetted(c), step[c] = "reading", NEW r \in Readable(c)
    PROVE  /\ AskedOf(c, r) \in Origin
           /\ got[c][r] = None
           /\ r = "alts" => got[c]["layer5"] # None /\ got[c]["old_origin"] # None
<1>1. AppOf(ask[c]) \in Origin
  BY DEF Vetted
<1>2. r = "alts" => /\ got[c]["layer5"] # None /\ got[c]["old_origin"] # None
                    /\ CrossOrigin(AppOf(ask[c]), Declared(c))
  BY DEF Readable
<1> QED
  BY <1>1, <1>2 DEF Readable, AskedOf, CrossOrigin

(* An answer is what the origin asked answers in this very world.            *)
LEMMA AnswerIsGiven ==
    ASSUME Typed, NEW c \in Call, CallOK(c), NEW r \in Read, ReadDocument(c, r)
    PROVE  /\ r \in Readable(c)
           /\ \E a \in Answer(Document[r]) :
                 /\ Given(seen[c], AskedOf(c, r), r, a)
                 /\ got' = [got EXCEPT ![c][r] = a]
<1>1. r \in Readable(c) /\ AskedOf(c, r) \in Origin /\ world \in seen[c]
  BY ReadableIs DEF CallOK, ReadDocument, Watches
<1>2. PICK a \in {Reply(AskedOf(c, r), r), Lost(AskedOf(c, r))} :
        got' = [got EXCEPT ![c][r] = a]
  BY DEF ReadDocument
<1>3. Reply(AskedOf(c, r), r) = ReplyIn(world, AskedOf(c, r), r)
  BY DEF Reply, ReplyIn
<1>4. Given(seen[c], AskedOf(c, r), r, a)
  BY <1>1, <1>2, <1>3 DEF Given
<1>5. seen[c] \in SUBSET World
  BY DEF Typed
<1>6. a \in Answer(Document[r])
  BY <1>1, <1>4, <1>5, GivenIsAnswer
<1> QED
  BY <1>1, <1>2, <1>4, <1>6

-----------------------------------------------------------------------------
(* Types.                                                                    *)

LEMMA AskIs ==
    ASSUME Typed, NEW c \in Call
    PROVE  ask[c] \in Ask
BY ToolCallsAssumption DEF Typed

(* What the messages of a call look like.                                    *)
LEMMA MessagesAre ==
    ASSUME Typed, NEW c \in Call, Vetted(c), step[c] \notin {"asked", "done"},
           NEW k \in Canister, NEW method \in Method
    PROVE  Touch(c, k) \in Message /\ Msg(c, method) \in Message
<1>1. ask[c] \in Ask
  BY AskIs
<1>2. Signs(ask[c]) => TargetOrigin(CanonicalizeDerivationOrigin(ask[c].as)) \in Origin
  <2>1. Signs(ask[c]) => ask[c].as.host \in Origin
    BY DEF Signs, Vetted
  <2> QED
    BY <2>1, DocumentsAssumption DEF CanonicalizeDerivationOrigin, TargetOrigin
<1>3. ask[c].canister \in Canister
  BY <1>1 DEF Ask
<1> QED
  BY <1>2, <1>3 DEF Touch, Msg, Message

LEMMA TypedKept ==
    ASSUME Typed, \A c \in Call : CallOK(c), [Next]_vars
    PROVE  Typed'
<1>1. ASSUME NEW c \in Call, CallStep(c)
      PROVE  Typed'
  <2>0. ask[c] \in Ask /\ ask[c].canister \in Canister /\ ask[c].method \in Method /\ Vetted(c)
    BY AskIs DEF Ask, CallOK
  <2>1. CASE Vet(c)
    BY <2>1 DEF Vet, Ended, Goes, Typed, Step, Verdict, ManifestRefusal
  <2>2. CASE \E r \in Read : ReadDocument(c, r)
    <3>1. PICK r \in Read : ReadDocument(c, r)
      BY <2>2
    <3>2. PICK a \in Answer(Document[r]) : got' = [got EXCEPT ![c][r] = a]
      BY <3>1, AnswerIsGiven
    <3>3. a \in Answers
      BY <3>2 DEF Answers
    <3>4. got' \in [Call -> [Read -> Answers \cup {None}]]
      BY <3>2, <3>3 DEF Typed
    <3>5. \A d \in Call, q \in Read : got'[d][q] \in Answer(Document[q]) \cup {None}
      BY <3>2 DEF Typed
    <3> QED
      BY <3>1, <3>4, <3>5 DEF ReadDocument, Typed
  <2>3. CASE Authorize(c)
    <3>1. ASSUME Ended(c, BindIdentity(c)), BindIdentity(c) # "bound"
          PROVE  step' \in [Call -> Step] /\ verdict' \in [Call -> Verdict \cup {None}]
      BY <3>1, GatesSay DEF Ended, Typed, Step, Verdict, BindingRefusal
    <3>2. ASSUME Ended(c, AuthorizeCall(c)), AuthorizeCall(c) # "declared"
          PROVE  step' \in [Call -> Step] /\ verdict' \in [Call -> Verdict \cup {None}]
      BY <3>2, GatesSay DEF Ended, Typed, Step, Verdict, BindingRefusal, ManifestRefusal
    <3>3. ASSUME Goes(c, AfterReading(ask[c].kind))
          PROVE  step' \in [Call -> Step] /\ verdict' \in [Call -> Verdict \cup {None}]
      BY <3>3 DEF Goes, AfterReading, Typed, Step
    <3>4. step' \in [Call -> Step] /\ verdict' \in [Call -> Verdict \cup {None}]
      BY <2>3, <3>1, <3>2, <3>3 DEF Authorize
    <3> QED
      BY <2>3, <3>4 DEF Authorize, Typed
  <2>4. CASE Open(c)
    BY <2>4 DEF Open, Ended, Goes, Typed, Step, Verdict, BindingRefusal
  <2>5. CASE EnrichCapabilities(c)
    <3>1. \A k \in Canister : Touch(c, k) \in Message
      BY <2>0, <2>5, MessagesAre DEF EnrichCapabilities
    <3> QED
      BY <2>5, <3>1 DEF EnrichCapabilities, Ended, Typed, Step, Verdict
  <2>6. CASE UpdateInterface(c)
    <3>1. Touch(c, ask[c].canister) \in Message
      BY <2>0, <2>6, MessagesAre DEF UpdateInterface
    <3>2. world.iface[ask[c].canister] \in Interface
      BY <2>0 DEF Typed, World
    <3>3. \A failed \in BOOLEAN : JudgeUpdate(world.iface[ask[c].canister], failed, ask[c].method)
             \in {"unchecked", "ledger", None}
      BY DEF JudgeUpdate
    <3> QED
      BY <2>6, <3>1, <3>2, <3>3 DEF UpdateInterface, Ended, Goes, Typed, Step, Verdict
  <2>7. CASE QueryInterface(c)
    <3>1. Touch(c, ask[c].canister) \in Message
      BY <2>0, <2>7, MessagesAre DEF QueryInterface
    <3>2. {world.iface[ask[c].canister]} \cup Provided \subseteq Interface
      BY <2>0, ToolCallsAssumption DEF Typed, World
    <3>3. \A i : JudgeQuery(i, ask[c].method) \in {"oql_first", "not_query", None}
      BY DEF JudgeQuery
    <3>4. did' \in [Call -> Interface \cup {None}]
      BY <2>7, <3>2 DEF QueryInterface, Typed
    <3>5. step' \in [Call -> Step] /\ verdict' \in [Call -> Verdict \cup {None}]
      BY <2>7, <3>3 DEF QueryInterface, Ended, Goes, Typed, Step, Verdict
    <3> QED
      BY <2>7, <3>1, <3>4, <3>5 DEF QueryInterface, Typed
  <2>8. CASE ShowInterface(c)
    <3>1. Touch(c, ask[c].canister) \in Message
      BY <2>0, <2>8, MessagesAre DEF ShowInterface
    <3>2. world.iface[ask[c].canister] \in Interface
      BY <2>0 DEF Typed, World
    <3>3. \A i, failed : JudgeDoc(i, failed) \in {"unread", "no_doc", None}
      BY DEF JudgeDoc
    <3> QED
      BY <2>8, <3>1, <3>2, <3>3 DEF ShowInterface, Ended, Goes, Typed, Step, Verdict
  <2>9. CASE ResolveAgent(c)
    BY <2>9 DEF ResolveAgent, Ended, Goes, Typed, Step, Verdict
  <2>10. CASE Send(c)
    <3>1. Msg(c, ask[c].method) \in Message
      BY <2>0, <2>10, MessagesAre DEF Send
    <3> QED
      BY <2>10, <3>1 DEF Send, Goes, Typed, Step
  <2>11. CASE Receive(c)
    BY <2>11 DEF Receive, Ended, Goes, Typed, Step, Verdict
  <2>12. CASE Diagnose(c)
    <3>1. Msg(c, SchemaMethod) \in Message
      BY <2>0, <2>12, MessagesAre, ComplianceAssumption DEF Diagnose
    <3> QED
      BY <2>12, <3>1 DEF Diagnose, Ended, Typed, Step, Verdict
  <2> QED
    BY <1>1, <2>1, <2>2, <2>3, <2>4, <2>5, <2>6, <2>7, <2>8, <2>9, <2>10, <2>11, <2>12
    DEF CallStep
<1>2. ASSUME (\E o \in Origin : Republish(o)) \/ (\E k \in Canister : Upgrade(k))
      PROVE  Typed'
  <2>1. /\ UNCHANGED <<step, ask, got, did, verdict, sent>>
        /\ world' \in World /\ changes' \in 0..MaxChanges
        /\ seen' = [c \in Call |-> IF step[c] # "done" THEN seen[c] \cup {world'} ELSE seen[c]]
    BY <1>2, WorldMoves
  <2>2. seen' \in [Call -> SUBSET World]
    BY <2>1 DEF Typed
  <2> QED
    BY <2>1, <2>2 DEF Typed
<1>3. CASE UNCHANGED vars
  BY <1>3 DEF vars, Typed
<1> QED
  BY <1>1, <1>2, <1>3 DEF Next, Finished

-----------------------------------------------------------------------------
(* What the gates concluded stays concluded: it depends on the answers a     *)
(* call has, and worlds are only added to what it saw.                       *)
LEMMA Frozen ==
    ASSUME NEW c \in Call, got'[c] = got[c], ask' = ask
    PROVE  /\ Declared(c)' = Declared(c)
           /\ \A r : AskedOf(c, r)' = AskedOf(c, r)
           /\ Readable(c)' = Readable(c)
           /\ Authorized(c)' = Authorized(c)
           /\ MarkDeclared(c)' = MarkDeclared(c)
<1>1. Declared(c)' = Declared(c)
  BY DEF Declared
<1>2. \A r : AskedOf(c, r)' = AskedOf(c, r)
  BY <1>1 DEF AskedOf
<1>3. Readable(c)' = Readable(c)
  BY <1>1 DEF Readable
<1>4. ResolveAppIdentity(c)' = ResolveAppIdentity(c)
  BY <1>1 DEF ResolveAppIdentity
<1>5. Unresolvable(c)' = Unresolvable(c)
  BY <1>1 DEF Unresolvable
<1>6. BindIdentity(c)' = BindIdentity(c)
  BY <1>4, <1>5 DEF BindIdentity
<1>7. AuthorizeCall(c)' = AuthorizeCall(c)
  BY DEF AuthorizeCall
<1>8. MarkDeclared(c)' = MarkDeclared(c)
  BY DEF MarkDeclared
<1> QED
  BY <1>1, <1>2, <1>3, <1>6, <1>7, <1>8 DEF Authorized

LEMMA GivenStill ==
    ASSUME NEW ws, NEW vs, ws \subseteq vs, NEW o, NEW r, NEW a, Given(ws, o, r, a)
    PROVE  Given(vs, o, r, a)
BY DEF Given

LEMMA CameStill ==
    ASSUME NEW c \in Call, got'[c] = got[c], ask' = ask, seen[c] \subseteq seen'[c],
           NEW r \in Read, Came(c, r)
    PROVE  Came(c, r)'
<1>1. AskedOf(c, r)' = AskedOf(c, r)
  BY Frozen
<1> QED
  BY <1>1, GivenStill DEF Came

LEMMA JudgedStill ==
    ASSUME NEW c \in Call, ask' = ask, did'[c] = did[c], seen[c] \subseteq seen'[c], Judged(c)
    PROVE  Judged(c)'
BY DEF Judged

LEMMA VettedStill ==
    ASSUME NEW c \in Call, ask' = ask, Vetted(c),
           step'[c] \notin {"asked", "done"} => step[c] \notin {"asked", "done"}
    PROVE  Vetted(c)'
BY DEF Vetted

(* A call that did not move is as good as it was.                            *)
LEMMA Unmoved ==
    ASSUME NEW c \in Call, CallOK(c), ask' = ask, step'[c] = step[c],
           got'[c] = got[c], did'[c] = did[c], seen[c] \subseteq seen'[c],
           step[c] # "done" => world' \in seen'[c]
    PROVE  /\ CallOK(c)'
           /\ \A m \in sent : m.call = c /\ Explained(m) => Explained(m)'
<1>1. Watches(c)'
  BY DEF CallOK, Watches
<1>2. Vetted(c)'
  BY VettedStill DEF CallOK
<1>3. \A r \in Read : Came(c, r)'
  BY CameStill DEF CallOK
<1>4. Passed(c)'
  BY Frozen DEF CallOK, Passed
<1>5. Encoded(c)'
  BY JudgedStill DEF CallOK, Encoded
<1>6. ASSUME NEW m \in sent, m.call = c, Explained(m)
      PROVE  Explained(m)'
  <2>1. /\ Authorized(c)' = Authorized(c) /\ MarkDeclared(c)' = MarkDeclared(c)
        /\ Readable(c)' = Readable(c)
    BY Frozen
  <2>2. Judged(c) => Judged(c)'
    BY JudgedStill
  <2> QED
    BY <1>6, <2>1, <2>2 DEF Explained
<1> QED
  BY <1>1, <1>2, <1>3, <1>4, <1>5, <1>6 DEF CallOK

-----------------------------------------------------------------------------
(* The call that moves.                                                      *)

(* What it sent before stays explained, unless it goes back.                 *)
LEMMA StillExplained ==
    ASSUME NEW c \in Call, ask' = ask, got'[c] = got[c], seen[c] \subseteq seen'[c],
           step'[c] \notin {"asked", "reading"},
           step[c] \in {"replying", "diagnose"} =>
              did'[c] = did[c] /\ step'[c] \in {"replying", "diagnose", "done"},
           step[c] # "done",
           NEW m \in sent, m.call = c, Explained(m)
    PROVE  Explained(m)'
<1>1. /\ Authorized(c)' = Authorized(c) /\ MarkDeclared(c)' = MarkDeclared(c)
      /\ Readable(c)' = Readable(c)
  BY Frozen
<1>2. m.mode = "update" => step'[c] \in {"replying", "diagnose", "done"} /\ Judged(c)'
  BY JudgedStill DEF Explained
<1> QED
  BY <1>1, <1>2 DEF Explained

(* vet: what it lets through is an origin, given or signed as.               *)
LEMMA VetVets ==
    ASSUME Typed, NEW c \in Call, Vet(c)
    PROVE  /\ Vetted(c)'
           /\ \/ step'[c] = "done"
              \/ step'[c] = "reading" /\ ask[c].kind # "principal"
              \/ step'[c] = "identity" /\ ask[c].kind = "principal"
<1>1. \/ step'[c] = "done"
      \/ step'[c] = "reading" /\ ask[c].kind # "principal"
      \/ step'[c] = "identity" /\ ask[c].kind = "principal"
  BY DEF Vet, Ended, Goes, Typed
<1>2. ask' = ask /\ ask[c].as \in Spelling \cup {None} /\ ask[c].app \in Spelling \cup {None}
  BY AskIs DEF Vet, Ask
<1>3. \A s \in Spelling : CleanAppUrl(s) => s.host \in Origin
  BY DEF Spelling, CleanAppUrl, WellFormed
<1>4. step'[c] # "done" =>
         /\ ask[c].as # None => CleanAppUrl(ask[c].as)
         /\ ask[c].as # None \/ ask[c].app # None
         /\ ask[c].app # None => CleanAppUrl(ask[c].app)
  BY DEF Vet, Ended, Goes, Typed
<1>5. step'[c] # "done" => /\ ask[c].as # None => ask[c].as.host \in Origin
                           /\ AppOf(ask[c]) \in Origin
  BY <1>2, <1>3, <1>4 DEF AppOf, AppOriginOf
<1> QED
  BY <1>1, <1>2, <1>5 DEF Vetted

(* ReadDocument: one answer more, and the others still are what they were.   *)
LEMMA ReadingKeeps ==
    ASSUME Typed, NEW c \in Call, CallOK(c), NEW r \in Read, ReadDocument(c, r)
    PROVE  \A q \in Read : Came(c, q)'
<1>1. PICK a \in Answer(Document[r]) :
        /\ Given(seen[c], AskedOf(c, r), r, a)
        /\ got' = [got EXCEPT ![c][r] = a]
  BY AnswerIsGiven
<1>2. r \in Readable(c) /\ step[c] = "reading" /\ ask' = ask /\ seen' = seen
  BY DEF ReadDocument
<1>3. /\ AskedOf(c, r) \in Origin /\ got[c][r] = None
      /\ r = "alts" => got[c]["layer5"] # None /\ got[c]["old_origin"] # None
  BY <1>2, ReadableIs DEF CallOK
<1>4. got'[c][r] = a /\ \A q \in Read \ {r} : got'[c][q] = got[c][q]
  BY <1>1 DEF Typed
<1>5. "layer5" \in Read /\ "old_origin" \in Read
  BY DEF Read
<1>6. ASSUME NEW q \in Read, got'[c][q] # None
      PROVE  /\ AskedOf(c, q)' = AskedOf(c, q)
             /\ q = "alts" => got'[c]["layer5"] # None /\ got'[c]["old_origin"] # None
  <2>1. CASE q # "alts"
    BY <1>2, <2>1 DEF AskedOf
  <2>2. CASE q = "alts"
    <3>1. got[c]["layer5"] # None /\ got[c]["old_origin"] # None
      BY <1>3, <1>4, <1>6, <2>2 DEF CallOK, Came
    <3>2. got'[c]["layer5"] = got[c]["layer5"] /\ got'[c]["old_origin"] = got[c]["old_origin"]
      BY <1>3, <1>4, <1>5, <3>1
    <3>3. Declared(c)' = Declared(c)
      BY <1>2, <3>2 DEF Declared
    <3> QED
      BY <1>2, <2>2, <3>1, <3>2, <3>3 DEF AskedOf
  <2> QED
    BY <2>1, <2>2
<1>7. ASSUME NEW q \in Read, got'[c][q] # None
      PROVE  AskedOf(c, q) \in Origin /\ Given(seen[c], AskedOf(c, q), q, got'[c][q])
  <2>1. CASE q = r
    BY <1>1, <1>3, <1>4, <2>1
  <2>2. CASE q # r
    BY <1>4, <1>7, <2>2 DEF CallOK, Came
  <2> QED
    BY <2>1, <2>2
<1> QED
  BY <1>2, <1>6, <1>7 DEF Came

LEMMA MoverKept ==
    ASSUME Typed, NEW c \in Call, CallOK(c), \A m \in sent : Explained(m), CallStep(c)
    PROVE  CallOK(c)' /\ \A m \in sent' : m.call = c => Explained(m)'
<1>0. /\ world' = world /\ ask' = ask /\ seen' = seen /\ step[c] # "done"
      /\ step[c] # "reading" => got'[c] = got[c]
      /\ Watches(c) /\ Vetted(c) /\ Passed(c) /\ Encoded(c) /\ \A r \in Read : Came(c, r)
  BY CallMoves DEF CallOK
<1>1. Watches(c)' /\ seen[c] \subseteq seen'[c] /\ world \in seen[c]
  BY <1>0 DEF Watches
<1>2. got'[c] = got[c] => /\ \A r \in Read : Came(c, r)'
                          /\ Readable(c)' = Readable(c)
                          /\ Authorized(c)' = Authorized(c)
                          /\ MarkDeclared(c)' = MarkDeclared(c)
  BY <1>0, <1>1, CameStill, Frozen
<1>3. step[c] \in {"asked", "reading"} => \A m \in sent : m.call # c
  BY DEF Explained
<1>4. ASSUME step[c] \notin {"asked", "reading"}, step'[c] \notin {"asked", "reading"},
             step[c] \in {"replying", "diagnose"} =>
                did'[c] = did[c] /\ step'[c] \in {"replying", "diagnose", "done"}
      PROVE  \A m \in sent : m.call = c => Explained(m)'
  BY <1>0, <1>1, <1>4, StillExplained
<1>5. step'[c] \notin {"asked", "done"} => (step[c] # "asked" => Vetted(c)')
  BY <1>0, VettedStill
<1>6. CASE Vet(c)
  <2>1. /\ Vetted(c)'
        /\ \/ step'[c] = "done"
           \/ step'[c] = "reading" /\ ask[c].kind # "principal"
           \/ step'[c] = "identity" /\ ask[c].kind = "principal"
    BY <1>6, VetVets
  <2>2. step[c] = "asked" /\ sent' = sent
    BY <1>6 DEF Vet
  <2>3. Passed(c)' /\ Encoded(c)'
    BY <1>0, <2>1 DEF Passed, Encoded, Past
  <2> QED
    BY <1>0, <1>1, <1>2, <1>3, <2>1, <2>2, <2>3 DEF CallOK
<1>7. CASE \E r \in Read : ReadDocument(c, r)
  <2>1. PICK r \in Read : ReadDocument(c, r)
    BY <1>7
  <2>2. \A q \in Read : Came(c, q)'
    BY <2>1, ReadingKeeps
  <2>3. step[c] = "reading" /\ step' = step /\ sent' = sent
    BY <2>1 DEF ReadDocument
  <2>4. Vetted(c)' /\ Passed(c)' /\ Encoded(c)'
    BY <1>0, <2>3 DEF Vetted, Passed, Encoded, Past
  <2> QED
    BY <1>1, <1>3, <2>2, <2>3, <2>4 DEF CallOK
<1>8. CASE Authorize(c)
  <2>1. /\ step[c] = "reading" /\ sent' = sent /\ got' = got /\ ask[c].kind # "open"
        /\ \/ step'[c] = "done"
           \/ Authorized(c) /\ step'[c] = AfterReading(ask[c].kind)
    BY <1>8 DEF Authorize, Authorized, Ended, Goes, Typed
  <2>2. Passed(c)' /\ Encoded(c)'
    BY <1>0, <1>2, <2>1 DEF Passed, Encoded, Past, AfterReading
  <2>3. Vetted(c)'
    BY <1>0, <2>1, VettedStill
  <2> QED
    BY <1>1, <1>2, <1>3, <2>1, <2>2, <2>3 DEF CallOK
<1>9. CASE Open(c)
  <2>1. /\ step[c] = "reading" /\ sent' = sent /\ got' = got /\ Readable(c) = {}
        /\ step'[c] \in {"done", "probing"}
    BY <1>9 DEF Open, Ended, Goes, Typed
  <2>2. Passed(c)' /\ Encoded(c)'
    BY <1>2, <2>1 DEF Passed, Encoded, Past
  <2>3. Vetted(c)'
    BY <1>0, <2>1, VettedStill
  <2> QED
    BY <1>1, <1>2, <1>3, <2>1, <2>2, <2>3 DEF CallOK
<1>10. CASE EnrichCapabilities(c)
  <2>1. step[c] = "probing" /\ step'[c] = "done" /\ got'[c] = got[c]
    BY <1>0, <1>10 DEF EnrichCapabilities, Ended, Typed
  <2>2. Passed(c)' /\ Encoded(c)' /\ Vetted(c)'
    BY <2>1 DEF Passed, Encoded, Past, Vetted
  <2>3. \A m \in sent' \ sent : Explained(m)'
    <3>1. ASSUME NEW m \in sent' \ sent
          PROVE  Explained(m)'
      <4>1. PICK k \in MarkDeclared(c) : m = Touch(c, k)
        BY <1>10 DEF EnrichCapabilities
      <4>2. m.call = c /\ m.canister = k /\ m.as = None /\ m.mode = "interface"
        BY <4>1 DEF Touch
      <4> QED
        BY <1>0, <1>2, <2>1, <4>1, <4>2 DEF Explained, Passed
    <3> QED
      BY <3>1
  <2> QED
    BY <1>1, <1>2, <1>4, <2>1, <2>2, <2>3 DEF CallOK
<1>11. ASSUME step[c] = "interface", ask[c].kind # "principal",
              sent' = sent \cup {Touch(c, ask[c].canister)},
              step'[c] \in {"identity", "send", "done"},
              ask[c].kind = "update" /\ step'[c] # "done" => Judged(c)'
       PROVE  CallOK(c)' /\ \A m \in sent' : m.call = c => Explained(m)'
  <2>1. Authorized(c) /\ ask[c].kind # "open"
    BY <1>0, <1>11 DEF Passed, Past
  <2>2. Passed(c)' /\ Encoded(c)' /\ Vetted(c)'
    BY <1>0, <1>2, <1>5, <1>11, <2>1 DEF Passed, Encoded, Past, Vetted
  <2>3. ASSUME NEW m, m = Touch(c, ask[c].canister)
        PROVE  Explained(m)'
    <3>1. m.call = c /\ m.canister = ask[c].canister /\ m.as = None /\ m.mode = "interface"
      BY <2>3 DEF Touch
    <3> QED
      BY <1>0, <1>2, <1>11, <2>1, <3>1 DEF Explained
  <2> QED
    BY <1>0, <1>1, <1>2, <1>4, <1>11, <2>2, <2>3 DEF CallOK
<1>12. CASE UpdateInterface(c)
  <2>1. PICK failed \in BOOLEAN :
          LET i == world.iface[ask[c].canister]
              refusal == JudgeUpdate(i, failed, ask[c].method)
          IN IF refusal # None THEN Ended(c, refusal) /\ UNCHANGED did
             ELSE /\ did' = [did EXCEPT ![c] = i]
                  /\ Goes(c, "identity") \/ Ended(c, "bad_args")
    BY <1>12 DEF UpdateInterface
  <2> DEFINE i == world.iface[ask[c].canister]
  <2>2. step'[c] # "done" => JudgeUpdate(i, failed, ask[c].method) = None /\ did'[c] = i
    BY <2>1 DEF Ended, Goes, Typed
  <2>3. JudgeUpdate(i, failed, ask[c].method) = None =>
          i.status = "published" /\ i.parses /\ i.methods \cap LedgerNamed = {}
    <3>1. None \notin {"unchecked", "ledger"}
      BY VerdictsAssumption DEF Verdict
    <3> QED
      BY <3>1 DEF JudgeUpdate, DeclaredMethods, OnLedgerInterface, IcrcLedgerStandard
  <2>4. step'[c] # "done" => Judged(c)'
    BY <1>0, <1>1, <2>2, <2>3 DEF Judged
  <2>5. step'[c] \in {"identity", "send", "done"}
    BY <2>1 DEF Ended, Goes, Typed
  <2> QED
    BY <1>11, <1>12, <2>4, <2>5 DEF UpdateInterface
<1>13. CASE QueryInterface(c)
  <2>1. step'[c] \in {"identity", "send", "done"}
    BY <1>13 DEF QueryInterface, Ended, Goes, Typed
  <2> QED
    BY <1>11, <1>13, <2>1 DEF QueryInterface
<1>14. CASE ShowInterface(c)
  <2>1. step'[c] \in {"identity", "send", "done"}
    BY <1>14 DEF ShowInterface, Ended, Goes, Typed
  <2> QED
    BY <1>11, <1>14, <2>1 DEF ShowInterface
<1>15. CASE ResolveAgent(c)
  <2>1. /\ step[c] = "identity" /\ sent' = sent /\ did' = did
        /\ step'[c] = "done" \/ (step'[c] = "send" /\ ask[c].kind # "principal")
    BY <1>15 DEF ResolveAgent, Ended, Goes, Typed
  <2>2. Passed(c)' /\ Encoded(c)' /\ Vetted(c)'
    BY <1>0, <1>1, <1>2, <1>5, <2>1, JudgedStill DEF Passed, Encoded, Past, Vetted
  <2> QED
    BY <1>0, <1>1, <1>2, <1>4, <2>1, <2>2 DEF CallOK
<1>16. ASSUME NEW method, sent' = sent \cup {Msg(c, method)}, did' = did,
              step[c] \in {"send", "diagnose"}, step'[c] \in {"replying", "done"}
       PROVE  CallOK(c)' /\ \A m \in sent' : m.call = c => Explained(m)'
  <2>1. Passed(c)' /\ Encoded(c)' /\ Vetted(c)'
    BY <1>0, <1>1, <1>2, <1>5, <1>16, JudgedStill DEF Passed, Encoded, Past, Vetted
  <2>2. ASSUME NEW m, m = Msg(c, method)
        PROVE  Explained(m)'
    <3>1. Authorized(c)' /\ got'[c] = got[c]
      BY <1>0, <1>2, <1>16 DEF Passed, Past
    <3>2. ask[c].kind = "update" => Judged(c)'
      BY <1>0, <1>1, <1>16, JudgedStill DEF Encoded, Past
    <3>3. /\ m.call = c /\ m.canister = ask[c].canister
          /\ m.mode = "update" => ask[c].kind = "update"
          /\ m.as # None => /\ Signs(ask[c])
                            /\ m.as = TargetOrigin(CanonicalizeDerivationOrigin(ask[c].as))
      BY <2>2 DEF Msg
    <3> QED
      BY <1>0, <1>16, <3>1, <3>2, <3>3 DEF Explained
  <2> QED
    BY <1>0, <1>1, <1>2, <1>4, <1>16, <2>1, <2>2 DEF CallOK
<1>17. CASE Send(c)
  BY <1>16, <1>17 DEF Send, Goes, Typed
<1>18. CASE Receive(c)
  <2>1. /\ step[c] = "replying" /\ sent' = sent /\ did' = did
        /\ step'[c] \in {"done", "diagnose"}
    BY <1>18 DEF Receive, Ended, Goes, Typed
  <2>2. Passed(c)' /\ Encoded(c)' /\ Vetted(c)'
    BY <1>0, <1>1, <1>2, <1>5, <2>1, JudgedStill DEF Passed, Encoded, Past, Vetted
  <2> QED
    BY <1>0, <1>1, <1>2, <1>4, <2>1, <2>2 DEF CallOK
<1>19. CASE Diagnose(c)
  BY <1>16, <1>19 DEF Diagnose, Ended, Typed
<1> QED
  BY <1>6, <1>7, <1>8, <1>9, <1>10, <1>12, <1>13, <1>14, <1>15, <1>17, <1>18, <1>19
  DEF CallStep

-----------------------------------------------------------------------------
(* The invariant holds in every reachable state.                             *)

LEMMA InvInit == Init => Inv
<1> SUFFICES ASSUME Init PROVE Inv
  OBVIOUS
<1>1. PICK s \in [Origin -> UNION {Sites[o] : o \in Origin}],
           i \in [Canister -> UNION {Interfaces[k] : k \in Canister}] :
        /\ \A o \in Origin : s[o] \in Sites[o]
        /\ \A k \in Canister : i[k] \in Interfaces[k]
        /\ world = [site |-> s, iface |-> i]
  BY DEF Init
<1>2. world \in World
  <2>1. s \in [Origin -> Site]
    <3>1. \A o \in Origin : s[o] \in Site
      BY <1>1, ToolCallsAssumption
    <3> QED
      BY <3>1
  <2>2. i \in [Canister -> Interface]
    <3>1. \A k \in Canister : i[k] \in Interface
      BY <1>1, ToolCallsAssumption
    <3> QED
      BY <3>1
  <2> QED
    BY <1>1, <2>1, <2>2 DEF World
<1>3. Typed
  BY <1>2, ToolCallsAssumption DEF Init, Typed, Step
<1>4. \A c \in Call : CallOK(c)
  BY DEF Init, CallOK, Watches, Vetted, Came, Passed, Encoded, Past
<1> QED
  BY <1>3, <1>4 DEF Init, Inv

LEMMA InvStep == Inv /\ [Next]_vars => Inv'
<1> SUFFICES ASSUME Inv, [Next]_vars PROVE Inv'
  OBVIOUS
<1>0. Typed /\ (\A c \in Call : CallOK(c)) /\ (\A m \in sent : Explained(m) /\ m.call \in Call)
  BY DEF Inv, Typed, Message
<1>1. Typed'
  BY <1>0, TypedKept
<1>2. ASSUME NEW c \in Call, CallStep(c)
      PROVE  (\A d \in Call : CallOK(d)') /\ (\A m \in sent' : Explained(m)')
  <2>1. /\ world' = world /\ ask' = ask /\ seen' = seen
        /\ \A d \in Call \ {c} : step'[d] = step[d] /\ got'[d] = got[d] /\ did'[d] = did[d]
        /\ \A m \in sent' \ sent : m.call = c
    BY <1>0, <1>2, CallMoves
  <2>2. CallOK(c)' /\ \A m \in sent' : m.call = c => Explained(m)'
    BY <1>0, <1>2, MoverKept
  <2>3. ASSUME NEW d \in Call \ {c}
        PROVE  CallOK(d)' /\ \A m \in sent : m.call = d /\ Explained(m) => Explained(m)'
    <3>1. step[d] # "done" => world' \in seen'[d]
      BY <1>0, <2>1 DEF CallOK, Watches
    <3> QED
      BY <1>0, <2>1, <3>1, Unmoved
  <2> QED
    BY <1>0, <2>1, <2>2, <2>3
<1>3. ASSUME (\E o \in Origin : Republish(o)) \/ (\E k \in Canister : Upgrade(k))
      PROVE  (\A d \in Call : CallOK(d)') /\ (\A m \in sent' : Explained(m)')
  <2>1. /\ UNCHANGED <<step, ask, got, did, verdict, sent>>
        /\ seen' = [c \in Call |-> IF step[c] # "done" THEN seen[c] \cup {world'} ELSE seen[c]]
    BY <1>0, <1>3, WorldMoves
  <2>2. ASSUME NEW d \in Call
        PROVE  CallOK(d)' /\ \A m \in sent : m.call = d /\ Explained(m) => Explained(m)'
    <3>1. seen[d] \subseteq seen'[d] /\ (step[d] # "done" => world' \in seen'[d])
      BY <2>1
    <3> QED
      BY <1>0, <2>1, <3>1, Unmoved
  <2> QED
    BY <1>0, <2>1, <2>2
<1>4. ASSUME UNCHANGED vars
      PROVE  (\A d \in Call : CallOK(d)') /\ (\A m \in sent' : Explained(m)')
  <2>1. ASSUME NEW d \in Call
        PROVE  CallOK(d)' /\ \A m \in sent : m.call = d /\ Explained(m) => Explained(m)'
    <3>1. seen[d] \subseteq seen'[d] /\ (step[d] # "done" => world' \in seen'[d])
      BY <1>0, <1>4 DEF vars, CallOK, Watches
    <3> QED
      BY <1>0, <1>4, <3>1, Unmoved DEF vars
  <2> QED
    BY <1>0, <1>4, <2>1 DEF vars
<1> QED
  BY <1>1, <1>2, <1>3, <1>4 DEF Next, Finished, Inv

LEMMA InvAlways == Spec => []Inv
BY InvInit, InvStep, PTL DEF Spec

(* TypeOK: every variable keeps its type, however many calls run, whatever   *)
(* sites and interfaces there are and however often they change.             *)
THEOREM TypeCorrect == Spec => []TypeOK
<1>1. Inv => TypeOK
  <2> SUFFICES ASSUME Inv PROVE TypeOK
    OBVIOUS
  <2>1. \A c \in Call, r \in Read : got[c][r] = None \/ got[c][r].status \in Status \cup {"lost"}
    BY DEF Inv, Typed, Answer
  <2>2. \A c \in Call : world \in seen[c] \/ step[c] = "done"
    BY DEF Inv, CallOK, Watches
  <2> QED
    BY <2>1, <2>2 DEF Inv, Typed, TypeOK, World, Step
<1> QED
  BY <1>1, InvAlways, PTL

-----------------------------------------------------------------------------
(* What was sent.                                                            *)

(* An answer a call has that is in, given by the origin it asked.            *)
LEMMA AnswersGiven ==
    ASSUME Inv, NEW c \in Call, NEW r \in Read, got[c][r] # None
    PROVE  /\ AskedOf(c, r) \in Origin /\ seen[c] \in SUBSET World
           /\ r # "alts" => AppOf(ask[c]) \in Origin /\ Given(seen[c], AppOf(ask[c]), r, got[c][r])
           /\ r = "alts" => /\ Declared(c) \in Origin
                            /\ Given(seen[c], Declared(c), "alts", got[c]["alts"])
BY DEF Inv, CallOK, Came, AskedOf, Typed

(* SentAsDeclared: no canister is contacted, to call it or to read its       *)
(* interface, that the app the caller named did not list itself, within the  *)
(* cap, in its standard manifest in a world there was while the call ran.    *)
(* The gates of run_canister_call and mark_declared are all that stands      *)
(* between a request and a message, and neither takes the word of another    *)
(* document or of another origin.                                            *)
THEOREM SentAsDeclaredHolds == Spec => []SentAsDeclared
<1>1. ASSUME Inv, NEW m \in sent
      PROVE  \E w \in seen[m.call] : Lists(w, AppOf(ask[m.call]), m.canister)
  <2> DEFINE c == m.call
             o == AppOf(ask[c])
             a == got[c]["arch"]
  <2>1. c \in Call /\ Explained(m)
    BY <1>1 DEF Inv, Typed, Message
  <2>2. "arch" \in Read
    BY DEF Read
  <2>3. CASE m.canister = ask[c].canister /\ Authorized(c)
    <3>1. a # None
      BY <2>2, <2>3 DEF Authorized, Readable
    <3>2. seen[c] \in SUBSET World /\ o \in Origin /\ Given(seen[c], o, "arch", a)
      BY <1>1, <2>1, <2>2, <3>1, AnswersGiven
    <3>3. Decide(FetchDeclaredManifest(o, a, got[c]["old_arch"]), ask[c].canister) = "declared"
      BY <2>3 DEF Authorized, AuthorizeCall
    <3> QED
      BY <2>3, <3>2, <3>3, DeclaredIsListed
  <2>4. CASE m.canister \in MarkDeclared(c) /\ Readable(c) = {}
    <3>1. /\ ServedHere(GetDocument(a), o) /\ GetDocument(a).doc # None
          /\ m.canister \in ManifestCanisterIds(GetDocument(a).doc)
      BY <2>4 DEF MarkDeclared
    <3>2. a # None
      BY <2>2, <2>4 DEF Readable
    <3>3. seen[c] \in SUBSET World /\ o \in Origin /\ Given(seen[c], o, "arch", a)
      BY <1>1, <2>1, <2>2, <3>2, AnswersGiven
    <3> QED
      BY <3>1, <3>3, MarkedIsListed
  <2> QED
    BY <2>1, <2>3, <2>4 DEF Explained
<1>2. Inv => SentAsDeclared
  BY <1>1 DEF SentAsDeclared
<1> QED
  BY <1>2, InvAlways, PTL

(* JudgedBeforeSent: an update leaves only under an interface its canister   *)
(* published while the call ran, without a ledger method in it, and it was   *)
(* encoded against that one: canister_update_call reads the interface once   *)
(* and hands it on.                                                          *)
THEOREM JudgedBeforeSentHolds == Spec => []JudgedBeforeSent
<1>1. ASSUME Inv, NEW m \in sent, m.mode = "update"
      PROVE  \E w \in seen[m.call] :
                LET i == w.iface[m.canister]
                IN /\ i.status = "published" /\ i.parses /\ i.methods \cap LedgerNamed = {}
                   /\ did[m.call] = i
  <2>1. Explained(m)
    BY <1>1 DEF Inv
  <2> QED
    BY <1>1, <2>1 DEF Explained, Judged
<1>2. Inv => JudgedBeforeSent
  BY <1>1 DEF JudgedBeforeSent
<1> QED
  BY <1>2, InvAlways, PTL

-----------------------------------------------------------------------------
(* Whom a call signs as.                                                     *)

Own(o) == IF Known[o] # None THEN Known[o] ELSE o

(* What a call knows of its app's identity when it has read all it had to.   *)
LEMMA Declarations ==
    ASSUME Inv, NEW c \in Call, Resolves(ask[c]), Readable(c) = {}
    PROVE  LET o == AppOf(ask[c])
               d == Declared(c)
           IN  /\ o \in Origin /\ seen[c] \in SUBSET World /\ seen[c] # {}
               /\ \A r \in {"layer5", "old_origin"} : got[c][r] # None /\ Given(seen[c], o, r, got[c][r])
               /\ d \in Origin \cup {None, Unknown}
               /\ d # Unknown => Pins(seen[c], o, d)
               /\ d \in Origin \ {o} => Given(seen[c], d, "alts", got[c]["alts"])
               /\ NeedsRoot(o, got[c]["layer5"], got[c]["old_origin"]) =>
                    d = None /\ Given(seen[c], o, "root", got[c]["root"])
<1> DEFINE o == AppOf(ask[c])
           d == Declared(c)
<1>1. "layer5" \in Read /\ "old_origin" \in Read /\ "alts" \in Read /\ "root" \in Read
  BY DEF Read
<1>2. got[c]["layer5"] # None /\ got[c]["old_origin"] # None
  BY DEF Readable
<1>3. /\ o \in Origin /\ seen[c] \in SUBSET World
      /\ Given(seen[c], o, "layer5", got[c]["layer5"])
      /\ Given(seen[c], o, "old_origin", got[c]["old_origin"])
  BY <1>1, <1>2, AnswersGiven
<1>4. seen[c] # {}
  BY DEF Inv, CallOK, Watches
<1>5. d \in Origin \cup {None, Unknown} /\ (d # Unknown => Pins(seen[c], o, d))
  BY <1>3, DeclaredIsPinned DEF Declared
<1>6. ASSUME d \in Origin \ {o}
      PROVE  Given(seen[c], d, "alts", got[c]["alts"])
  <2>1. got[c]["alts"] # None
    BY <1>2, <1>6 DEF Readable, CrossOrigin
  <2> QED
    BY <1>1, <2>1, AnswersGiven
<1>7. ASSUME NeedsRoot(o, got[c]["layer5"], got[c]["old_origin"])
      PROVE  d = None /\ Given(seen[c], o, "root", got[c]["root"])
  <2>1. d = None
    BY <1>7 DEF NeedsRoot, Declared
  <2>2. ~CrossOrigin(o, d)
    BY <2>1, DocumentsAssumption DEF CrossOrigin
  <2>3. got[c]["root"] # None
    BY <1>2, <1>7, <2>2 DEF Readable
  <2> QED
    BY <1>1, <2>1, <2>3, AnswersGiven
<1> QED
  BY <1>2, <1>3, <1>4, <1>5, <1>6, <1>7

(* resolve_app_identity gives the origin the app pins, once it vouches, or   *)
(* the app's own when it pins none; it fails on a claim that nobody vouches  *)
(* for.                                                                      *)
LEMMA Resolved ==
    ASSUME Inv, NEW c \in Call, Resolves(ask[c]), Readable(c) = {}
    PROVE  LET o == AppOf(ask[c])
               d == Declared(c)
               R == ResolveAppIdentity(c)
           IN  /\ R # Unknown => \/ /\ d \in Origin /\ R = d
                                    /\ \E w \in seen[c] : Vouches(w, d, o)
                                 \/ d = None /\ R = Own(o)
               /\ R = Unknown /\ d \in Origin =>
                    \E w \in seen[c] : ~Vouches(w, d, o) \/ got[c]["alts"].status = "lost"
<1> DEFINE o    == AppOf(ask[c])
           d    == Declared(c)
           R    == ResolveAppIdentity(c)
           root == NeedsRoot(o, got[c]["layer5"], got[c]["old_origin"])
           alts == IF CrossOrigin(o, d) THEN FetchAlternativeOrigins(got[c]["alts"], d) ELSE {}
           Good == /\ R # Unknown => \/ d \in Origin /\ R = d /\ \E w \in seen[c] : Vouches(w, d, o)
                                     \/ d = None /\ R = Own(o)
                   /\ R = Unknown /\ d \in Origin =>
                        \E w \in seen[c] : ~Vouches(w, d, o) \/ got[c]["alts"].status = "lost"
<1>1. /\ o \in Origin /\ seen[c] \in SUBSET World /\ seen[c] # {}
      /\ d \in Origin \cup {None, Unknown}
      /\ d \in Origin \ {o} => Given(seen[c], d, "alts", got[c]["alts"])
      /\ root => d = None
  BY Declarations
<1>2. R = IF root /\ got[c]["root"].status = "lost" THEN Unknown
          ELSE DecideDeclaredOrigin(o, d, alts)
  BY DEF ResolveAppIdentity
<1>3. None \notin Origin /\ Unknown \notin Origin /\ Unknown # None
  BY DocumentsAssumption
<1> HIDE DEF root, alts, o, d, R
<1>4. ASSUME d = Unknown PROVE Good
  BY <1>1, <1>2, <1>3, <1>4 DEF DecideDeclaredOrigin
<1>5. ASSUME d = None PROVE Good
  BY <1>1, <1>2, <1>3, <1>5 DEF DecideDeclaredOrigin, KnownDerivationOrigin, Own
<1>6. ASSUME d \in Origin PROVE Good
  <2>1. R = IF d = o \/ o \in alts THEN d ELSE Unknown
    BY <1>1, <1>2, <1>3, <1>6 DEF DecideDeclaredOrigin, DerivationOriginAuthorized
  <2>2. CASE d = o
    BY <1>1, <1>3, <1>6, <2>1, <2>2 DEF Vouches
  <2>3. CASE d # o
    <3>1. alts = FetchAlternativeOrigins(got[c]["alts"], d)
      BY <1>6, <2>3 DEF alts, CrossOrigin
    <3>2. CASE got[c]["alts"].status = "lost"
      <4>1. alts = {}
        BY <3>1, <3>2 DEF FetchAlternativeOrigins
      <4> QED
        BY <1>1, <1>6, <2>1, <2>3, <3>2, <4>1
    <3>3. CASE got[c]["alts"].status # "lost"
      <4>1. PICK w \in seen[c] : o \in alts <=> Serves(w, d, "alts") /\ o \in w.site[d].alts.doc
        BY <1>1, <1>6, <2>3, <3>1, <3>3, AlternativesVouch
      <4>2. o \in alts <=> Vouches(w, d, o)
        BY <2>3, <4>1 DEF Vouches
      <4> QED
        BY <1>3, <1>6, <2>1, <2>3, <4>2
    <3> QED
      BY <3>2, <3>3
  <2> QED
    BY <2>2, <2>3
<1> QED
  BY <1>1, <1>4, <1>5, <1>6 DEF o, d, R

(* SignedAsApp: a call for an app is signed only with the identity the app   *)
(* pinned and the pinned origin vouched for, or with the app's own when it   *)
(* pins none, in worlds there were while the call ran.  bind_identity binds  *)
(* the argument to the resolved origin, and no read that failed ever led to  *)
(* a fallback.                                                               *)
THEOREM SignedAsAppHolds == Spec => []SignedAsApp
<1>1. ASSUME Inv, NEW m \in sent, m.as # None, ask[m.call].app # None
      PROVE  LET o == AppOf(ask[m.call])
             IN \/ \E d \in Origin : /\ Canon[d] = m.as /\ Pins(seen[m.call], o, d)
                                     /\ \E w \in seen[m.call] : Vouches(w, d, o)
                \/ /\ Pins(seen[m.call], o, None)
                   /\ m.as = Canon[IF Known[o] # None THEN Known[o] ELSE o]
  <2> DEFINE c == m.call
             o == AppOf(ask[c])
             R == ResolveAppIdentity(c)
  <2>1. c \in Call /\ Explained(m)
    BY <1>1 DEF Inv, Typed, Message
  <2>2. /\ Signs(ask[c]) /\ Authorized(c)
        /\ m.as = TargetOrigin(CanonicalizeDerivationOrigin(ask[c].as))
    BY <1>1, <2>1 DEF Explained
  <2>3. NeedsBinding(ask[c]) /\ Resolves(ask[c]) /\ Readable(c) = {}
    BY <1>1, <2>2 DEF NeedsBinding, Resolves, Authorized
  <2>4. R # Unknown /\ TargetOrigin(R) = CanonicalizeDerivationOrigin(ask[c].as)
    <3>1. Unresolvable(c) # "bound"
      BY DEF Unresolvable
    <3> QED
      BY <2>2, <2>3, <3>1 DEF Authorized, BindIdentity
  <2>5. R \in Origin =>  m.as = Canon[R]
    BY <2>2, <2>4, DocumentsAssumption DEF TargetOrigin
  <2>6. /\ o \in Origin
        /\ Declared(c) # Unknown => Pins(seen[c], o, Declared(c))
    BY <1>1, <2>1, <2>3, Declarations
  <2>7. \/ /\ Declared(c) \in Origin /\ R = Declared(c)
           /\ \E w \in seen[c] : Vouches(w, Declared(c), o)
        \/ Declared(c) = None /\ R = Own(o)
    BY <1>1, <2>1, <2>3, <2>4, Resolved
  <2>8. Own(o) \in Origin /\ Unknown # None /\ Unknown \notin Origin
    BY <2>6, DocumentsAssumption DEF Own
  <2> QED
    BY <2>5, <2>6, <2>7, <2>8 DEF Own
<1>2. Inv => SignedAsApp
  BY <1>1 DEF SignedAsApp
<1> QED
  BY <1>2, InvAlways, PTL

-----------------------------------------------------------------------------
(* What a refusal says.                                                      *)

(* A manifest that was read is silent on the canister when decide says so.   *)
LEMMA SilenceIsTrue ==
    ASSUME NEW ws \in SUBSET World, NEW o \in Origin, NEW a, NEW l, NEW k,
           Given(ws, o, "arch", a),
           Decide(FetchDeclaredManifest(o, a, l), k) \in {"no_manifest", "legacy_only", "not_declared"}
    PROVE  \E w \in ws : SilentOn(w, o, k)
<1> DEFINE f == FetchDeclaredManifest(o, a, l)
           g == GetDocument(a)
<1>0. "arch" \in Read
  BY DEF Read
<1>1. a # None /\ a # Unknown /\ Unknown # None
  BY <1>0, GivenIsAnswer, DocumentsAssumption
<1>2. g # Unknown /\ a.status # "lost"
  <2>1. g = Unknown => f.is = "unreachable"
    BY DEF FetchDeclaredManifest, Probe
  <2>2. f.is # "unreachable"
    BY DEF Decide
  <2> QED
    BY <2>1, <2>2 DEF GetDocument, MeansNotPublished
<1>3. \E w \in ws : /\ w.site[o].moved = a.by
                    /\ a.status = w.site[a.by][Field["arch"]].status
                    /\ a.fits = w.site[a.by][Field["arch"]].fits
                    /\ a.doc = w.site[a.by][Field["arch"]].doc
  BY <1>0, <1>2, Behind
<1>4. PICK w \in ws : /\ w.site[o].moved = a.by /\ a.status = w.site[a.by].arch.status
                      /\ a.fits = w.site[a.by].arch.fits /\ a.doc = w.site[a.by].arch.doc
  BY <1>3, Fields
<1>5. a.status = "gone" \/ (a.status = "ok" /\ a.fits /\ g = a)
  BY <1>2 DEF GetDocument, MeansNotPublished
<1>6. CASE a.by # o
  BY <1>4, <1>6 DEF SilentOn
<1>7. CASE a.by = o /\ (a.status = "gone" \/ a.doc = None)
  BY <1>4, <1>5, <1>7 DEF SilentOn
<1>8. CASE a.by = o /\ a.status # "gone" /\ a.doc # None
  <2>1. f.is = "declared" /\ f.manifest = a.doc
    BY <1>1, <1>5, <1>8 DEF FetchDeclaredManifest, Probe, ServedHere, AnsweredBy
  <2>2. k \notin a.doc.read \cap Canister /\ a.doc.beyond = {}
    BY <2>1 DEF Decide, Omitted, ManifestCanisterIds
  <2> QED
    BY <1>4, <1>5, <1>8, <2>2 DEF SilentOn
<1> QED
  BY <1>6, <1>7, <1>8

(* A lasting cause is a path that was withheld.                              *)
LEMMA PersistentIsWithheld ==
    ASSUME NEW ws \in SUBSET World, NEW o \in Origin,
           NEW r \in {"arch", "layer5", "old_origin"}, NEW a, Given(ws, o, r, a),
           CauseIsPersistent(a)
    PROVE  \E w \in ws : Withholds(w, o, {Field[r]})
<1>1. r \in Read /\ r # "root" /\ a.status # "lost"
  BY DEF Read, CauseIsPersistent
<1>2. PICK w \in ws : /\ w.site[o].moved = a.by
                      /\ a.status = w.site[a.by][Field[r]].status
                      /\ a.fits = w.site[a.by][Field[r]].fits
  BY <1>1, Behind
<1> QED
  BY <1>2 DEF CauseIsPersistent, Withholds

(* What EarnedVerdict says of one call.                                      *)
Earned(c, v) ==
    LET o == AppOf(ask[c])
        k == ask[c].canister
    IN /\ v \in {"no_manifest", "legacy_only", "not_declared"} => \E w \in seen[c] : SilentOn(w, o, k)
       /\ v = "withheld" => \E w \in seen[c] : Withholds(w, o, {"arch"})
       /\ v = "unfit" => \E w \in seen[c] : Withholds(w, o, {"layer5", "legacy"})
       /\ v = "unvouched" =>
            \E w \in seen[c], d \in Origin :
                Pins(seen[c], o, d) /\ (~Vouches(w, d, o) \/ got[c]["alts"].status = "lost")
       /\ v = "mismatch" => ask[c].as.shouted \/ ~PinsOnly(c, ask[c].as)
       /\ v = "no_doc" =>
            \E w \in seen[c] : w.iface[k].status = "published"
                /\ (~w.iface[k].parses \/ w.iface[k].methods \cap DocMethods = {})
       /\ v = "not_ic" => \E w \in seen[c] : w.site[o].moved # o \/ ~w.site[o].ic

LEMMA EarnedVerdictIs == EarnedVerdict <=> \A c \in Call : Earned(c, verdict[c])
BY DEF EarnedVerdict, Earned

LEMMA AuthorizeEarns ==
    ASSUME Inv, NEW c \in Call, Readable(c) = {}
    PROVE  AuthorizeCall(c) # "declared" => Earned(c, AuthorizeCall(c))
<1> DEFINE o == AppOf(ask[c])
           a == got[c]["arch"]
           decision == Decide(FetchDeclaredManifest(o, a, got[c]["old_arch"]), ask[c].canister)
<1>1. "arch" \in Read /\ a # None
  BY DEF Read, Readable
<1>2. seen[c] \in SUBSET World /\ o \in Origin /\ Given(seen[c], o, "arch", a)
  BY <1>1, AnswersGiven
<1>3. AuthorizeCall(c) = IF decision = "unreachable" /\ CauseIsPersistent(a) THEN "withheld"
                         ELSE decision
  BY DEF AuthorizeCall
<1>4. decision \in {"no_manifest", "legacy_only", "not_declared"} =>
        \E w \in seen[c] : SilentOn(w, o, ask[c].canister)
  BY <1>2, SilenceIsTrue
<1>5. CauseIsPersistent(a) => \E w \in seen[c] : Withholds(w, o, {"arch"})
  BY <1>2, PersistentIsWithheld, Fields
<1>6. AuthorizeCall(c) \in {"declared", "unreachable", "withheld", "no_manifest",
                            "legacy_only", "not_declared", "undetermined"}
  BY GatesSay
<1>7. decision # "withheld"
  BY DEF Decide, FetchDeclaredManifest, Probe
<1> HIDE DEF decision
<1> QED
  BY <1>3, <1>4, <1>5, <1>6, <1>7 DEF Earned

LEMMA BindEarns ==
    ASSUME Inv, NEW c \in Call, Readable(c) = {}, BindIdentity(c) # "bound"
    PROVE  Earned(c, BindIdentity(c))
<1> DEFINE o == AppOf(ask[c])
           d == Declared(c)
           R == ResolveAppIdentity(c)
<1>1. NeedsBinding(ask[c]) /\ Resolves(ask[c])
  BY DEF BindIdentity, Resolves
<1>2. /\ o \in Origin /\ seen[c] \in SUBSET World
      /\ \A r \in {"layer5", "old_origin"} : Given(seen[c], o, r, got[c][r])
      /\ d \in Origin \cup {None, Unknown}
      /\ d # Unknown => Pins(seen[c], o, d)
  BY <1>1, Declarations
<1>3. /\ R # Unknown => \/ d \in Origin /\ R = d
                        \/ d = None /\ R = Own(o)
      /\ R = Unknown /\ d \in Origin =>
           \E w \in seen[c] : ~Vouches(w, d, o) \/ got[c]["alts"].status = "lost"
  BY <1>1, Resolved
<1>4. CASE R = Unknown
  <2>1. BindIdentity(c) = Unresolvable(c)
    BY <1>1, <1>4 DEF BindIdentity
  <2>2. CASE d \in Origin
    <3>1. Unresolvable(c) = "unvouched"
      BY <2>2, DocumentsAssumption DEF Unresolvable
    <3>2. PICK w \in seen[c] : ~Vouches(w, d, o) \/ got[c]["alts"].status = "lost"
      BY <1>3, <1>4, <2>2
    <3>3. Pins(seen[c], o, d)
      BY <1>2, <2>2, DocumentsAssumption
    <3>4. BindIdentity(c) = "unvouched"
      BY <2>1, <3>1
    <3>5. \E e \in seen[c], x \in Origin :
             Pins(seen[c], o, x) /\ (~Vouches(e, x, o) \/ got[c]["alts"].status = "lost")
      BY <2>2, <3>2, <3>3
    <3> HIDE DEF d, R
    <3> QED
      BY <3>4, <3>5 DEF Earned
  <2>3. CASE d \notin Origin
    <3>1. PICK r \in {"layer5", "old_origin"} :
            Unresolvable(c) = IF d = Unknown /\ AnsweredBy(got[c][r], o) /\ CauseIsPersistent(got[c][r])
                              THEN "unfit" ELSE "unresolvable"
      BY <2>3 DEF Unresolvable
    <3>2. CASE CauseIsPersistent(got[c][r])
      <4>1. \E w \in seen[c] : Withholds(w, o, {Field[r]})
        BY <1>2, <3>2, PersistentIsWithheld
      <4>2. Field[r] \in {"layer5", "legacy"}
        BY Fields
      <4>3. \E w \in seen[c] : Withholds(w, o, {"layer5", "legacy"})
        BY <4>1, <4>2 DEF Withholds
      <4> QED
        BY <2>1, <3>1, <4>3 DEF Earned
    <3>3. CASE ~CauseIsPersistent(got[c][r])
      BY <2>1, <3>1, <3>3 DEF Earned
    <3> QED
      BY <3>2, <3>3
  <2> QED
    BY <2>2, <2>3
<1>5. CASE R # Unknown
  <2>1. /\ BindIdentity(c) = "mismatch"
        /\ Canon[R] # CanonicalizeDerivationOrigin(ask[c].as)
    BY <1>1, <1>5 DEF BindIdentity, TargetOrigin
  <2>2. ASSUME ~ask[c].as.shouted
        PROVE  ~PinsOnly(c, ask[c].as)
    <3>1. Canon[R] # Canon[ask[c].as.host]
      BY <2>1, <2>2 DEF CanonicalizeDerivationOrigin, TargetOrigin
    <3>2. d \in Origin \cup {None} /\ Pins(seen[c], o, d)
          /\ R = (IF d = None THEN Own(o) ELSE d)
      BY <1>2, <1>3, <1>5, DocumentsAssumption
    <3>3. PinsOnly(c, ask[c].as) =>
            \A e \in Origin \cup {None} : Pins(seen[c], o, e) =>
               Canon[IF e = None THEN Own(o) ELSE e] = Canon[ask[c].as.host]
      BY DEF PinsOnly, Own
    <3> HIDE DEF o, d, R
    <3> QED
      BY <3>1, <3>2, <3>3
  <2> QED
    BY <2>1, <2>2 DEF Earned
<1> QED
  BY <1>4, <1>5

LEMMA OpenEarns ==
    ASSUME Inv, NEW c \in Call, ask[c].kind = "open", Readable(c) = {},
           ResolveAppIdentity(c) # Unknown, AssumedOfNoIC(c)
    PROVE  Earned(c, "not_ic")
<1> DEFINE o == AppOf(ask[c])
           a == got[c]["root"]
<1>1. "root" \in Read /\ Resolves(ask[c])
  BY DEF Read, Resolves
<1>2. NeedsRoot(o, got[c]["layer5"], got[c]["old_origin"]) /\ ~(a.ic /\ AnsweredBy(a, o))
  BY DEF AssumedOfNoIC
<1>3. o \in Origin /\ seen[c] \in SUBSET World /\ Given(seen[c], o, "root", a)
  BY <1>1, <1>2, Declarations
<1>4. a.status # "lost"
  BY <1>2 DEF ResolveAppIdentity
<1>5. PICK w \in seen[c] : w.site[o].moved = a.by /\ a.ic = w.site[a.by].ic
  BY <1>1, <1>3, <1>4, Behind
<1>6. w.site[o].moved # o \/ ~w.site[o].ic
  BY <1>2, <1>5 DEF AnsweredBy
<1> QED
  BY <1>6 DEF Earned

(* Every other verdict claims nothing of the app.                            *)
LEMMA PlainVerdicts ==
    ASSUME NEW c \in Call,
           NEW v \in {"ok", "failed", "bad_origin", "refused", "unchecked", "ledger", "oql_first",
                      "not_query", "unread", "bad_args", "no_identity", "missing_origin",
                      "unresolvable"}
    PROVE  Earned(c, v)
BY DEF Earned

LEMMA NoneIsEarned == \A c \in Call : Earned(c, None)
BY VerdictsAssumption DEF Earned, Verdict, ManifestRefusal, BindingRefusal

(* A call ends once, and then with an earned verdict.                        *)
EarnedInv == \A c \in Call : (step[c] # "done" => verdict[c] = None) /\ Earned(c, verdict[c])

LEMMA EarnedStill ==
    ASSUME NEW c \in Call, ask' = ask, got'[c] = got[c], seen'[c] = seen[c], NEW v, Earned(c, v)
    PROVE  Earned(c, v)'
BY DEF Earned, PinsOnly

LEMMA MoverEarns ==
    ASSUME Inv, NEW c \in Call, EarnedInv, CallStep(c)
    PROVE  (step'[c] # "done" => verdict'[c] = None) /\ Earned(c, verdict'[c])
<1>0. Typed /\ verdict[c] = None /\ step[c] # "done" /\ Earned(c, None)
  BY CallMoves, NoneIsEarned DEF Inv, EarnedInv
<1>1. \A s : Goes(c, s) => verdict'[c] = None
  BY <1>0 DEF Goes
<1>2. \A v : Ended(c, v) => step'[c] = "done" /\ verdict'[c] = v
  BY <1>0 DEF Ended, Typed
<1>3. CASE Vet(c)
  BY <1>0, <1>1, <1>2, <1>3, PlainVerdicts DEF Vet
<1>4. CASE \E r \in Read : ReadDocument(c, r)
  BY <1>0, <1>4 DEF ReadDocument
<1>5. CASE Authorize(c)
  BY <1>0, <1>1, <1>2, <1>5, AuthorizeEarns, BindEarns DEF Authorize
<1>6. CASE Open(c)
  BY <1>0, <1>1, <1>2, <1>6, OpenEarns, PlainVerdicts DEF Open
<1>7. CASE EnrichCapabilities(c)
  BY <1>0, <1>1, <1>2, <1>7, PlainVerdicts DEF EnrichCapabilities
<1>8. CASE UpdateInterface(c)
  <2>1. \A i, failed : JudgeUpdate(i, failed, ask[c].method) \in {"unchecked", "ledger", None}
    BY DEF JudgeUpdate
  <2> QED
    BY <1>0, <1>1, <1>2, <1>8, <2>1, PlainVerdicts DEF UpdateInterface
<1>9. CASE QueryInterface(c)
  <2>1. \A i : JudgeQuery(i, ask[c].method) \in {"oql_first", "not_query", None}
    BY DEF JudgeQuery
  <2> QED
    BY <1>0, <1>1, <1>2, <1>9, <2>1, PlainVerdicts DEF QueryInterface
<1>10. CASE ShowInterface(c)
  <2> DEFINE i == world.iface[ask[c].canister]
  <2>1. world \in seen[c]
    BY <1>0 DEF Inv, CallOK, Watches
  <2>2. ASSUME NEW failed \in BOOLEAN, JudgeDoc(i, failed) = "no_doc"
        PROVE  Earned(c, "no_doc")
    <3>1. i.status = "published" /\ (~i.parses \/ i.methods \cap DocMethods = {})
      BY <2>2, VerdictsAssumption DEF JudgeDoc, Verdict
    <3> QED
      BY <2>1, <3>1 DEF Earned
  <2>3. \A failed : JudgeDoc(i, failed) \in {"unread", "no_doc", None}
    BY DEF JudgeDoc
  <2> QED
    BY <1>0, <1>1, <1>2, <1>10, <2>2, <2>3, PlainVerdicts DEF ShowInterface
<1>11. CASE ResolveAgent(c)
  BY <1>0, <1>1, <1>2, <1>11, PlainVerdicts DEF ResolveAgent
<1>12. CASE Send(c)
  BY <1>0, <1>1, <1>12 DEF Send
<1>13. CASE Receive(c)
  BY <1>0, <1>1, <1>2, <1>13, PlainVerdicts DEF Receive
<1>14. CASE Diagnose(c)
  BY <1>0, <1>1, <1>2, <1>14, PlainVerdicts DEF Diagnose
<1> QED
  BY <1>3, <1>4, <1>5, <1>6, <1>7, <1>8, <1>9, <1>10, <1>11, <1>12, <1>13, <1>14 DEF CallStep

LEMMA EarnedStep == Inv /\ EarnedInv /\ [Next]_vars => EarnedInv'
<1> SUFFICES ASSUME Inv, EarnedInv, [Next]_vars PROVE EarnedInv'
  OBVIOUS
<1>0. Typed
  BY DEF Inv
<1>1. ASSUME NEW d \in Call, ask' = ask, got'[d] = got[d], step'[d] = step[d],
             verdict'[d] = verdict[d], step[d] = "done" => seen'[d] = seen[d]
      PROVE  (step[d] # "done" => verdict[d] = None)' /\ Earned(d, verdict[d])'
  <2>1. CASE step[d] = "done"
    BY <1>1, <2>1, EarnedStill DEF EarnedInv
  <2>2. CASE step[d] # "done"
    <3>1. verdict'[d] = None
      BY <1>1, <2>2 DEF EarnedInv
    <3>2. (\A c \in Call : Earned(c, None))'
      BY NoneIsEarned, PTL
    <3> QED
      BY <3>1, <3>2
  <2> QED
    BY <2>1, <2>2
<1>2. ASSUME NEW c \in Call, CallStep(c)
      PROVE  EarnedInv'
  <2>1. /\ ask' = ask /\ seen' = seen
        /\ step[c] # "reading" => got'[c] = got[c]
        /\ \A d \in Call \ {c} : /\ step'[d] = step[d] /\ got'[d] = got[d]
                                 /\ verdict'[d] = verdict[d]
    BY <1>0, <1>2, CallMoves
  <2>2. (step'[c] # "done" => verdict'[c] = None) /\ Earned(c, verdict'[c])
    BY <1>2, MoverEarns
  <2>3. Earned(c, verdict[c])'
    <3>1. CASE got'[c] = got[c]
      BY <2>1, <2>2, <3>1, EarnedStill
    <3>2. CASE got'[c] # got[c]
      <4>1. \E r \in Read : ReadDocument(c, r)
        BY <1>2, <3>2, <2>1 DEF CallStep, Vet, Authorize, Open, EnrichCapabilities,
           UpdateInterface, QueryInterface, ShowInterface, ResolveAgent, Send, Receive, Diagnose
      <4>2. verdict'[c] = None
        BY <4>1, <2>2 DEF ReadDocument
      <4>3. (\A d \in Call : Earned(d, None))'
        BY NoneIsEarned, PTL
      <4> QED
        BY <4>2, <4>3
    <3> QED
      BY <3>1, <3>2
  <2> QED
    BY <1>1, <2>1, <2>2, <2>3 DEF EarnedInv
<1>3. ASSUME (\E o \in Origin : Republish(o)) \/ (\E k \in Canister : Upgrade(k))
      PROVE  EarnedInv'
  <2>1. /\ UNCHANGED <<step, ask, got, verdict>>
        /\ \A d \in Call : step[d] = "done" => seen'[d] = seen[d]
    BY <1>0, <1>3, WorldMoves
  <2> QED
    BY <1>1, <2>1 DEF EarnedInv
<1>4. CASE UNCHANGED vars
  BY <1>1, <1>4 DEF vars, EarnedInv
<1> QED
  BY <1>2, <1>3, <1>4 DEF Next, Finished

(* EarnedVerdict: a refusal that tells the agent not to retry was true of    *)
(* the app in a world there was while the call ran: decide, cause_is_persistent, *)
(* identity_unresolvable_refusal and the binding never read an outage, a     *)
(* body cut off or an entry past the cap as a declaration left out.          *)
THEOREM EarnedVerdictHolds == Spec => []EarnedVerdict
<1>1. Init => EarnedInv
  BY NoneIsEarned DEF Init, EarnedInv
<1>2. EarnedInv => EarnedVerdict
  BY EarnedVerdictIs DEF EarnedInv
<1> QED
  BY <1>1, <1>2, EarnedStep, InvAlways, PTL DEF Spec
=============================================================================
