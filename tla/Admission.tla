----------------------------- MODULE Admission ------------------------------
(***************************************************************************)
(* Which clients the authorize endpoint of src/src/auth.rs admits, and to  *)
(* which redirect their authorization codes go: dynamic registration,      *)
(* metadata documents that change while a verdict on them is cached, a     *)
(* sign-in that ends long after the check, and a restart with another      *)
(* allow-list that still holds the old registrations.                      *)
(*                                                                         *)
(* Sites that publish documents are outside this repository.  The bounds   *)
(* on the store and on the cache are those of ClientStore and CimdFlight.  *)
(***************************************************************************)
EXTENDS Redirects

CONSTANTS
    Client,     \* the dynamically registered clients
    Url,        \* the redirects asked for, and
    Lists,      \* the lists of them that clients register
    Id,         \* the client_id URLs, and
    Docs,       \* what each may answer with: documents, Gone or Down
    Defaults,   \* DEFAULT_ALLOWED_REDIRECTS
    Envs,       \* the values OAUTH_ALLOWED_REDIRECT_PREFIXES may have
    MaxUris,    \* MAX_REDIRECT_URIS
    Nobody

ASSUME AdmissionAssumption ==
    /\ \A u \in Url \cup Id \cup UNION Envs : IsUrl(u)
    /\ \A e \in Defaults : IsEntry(e)
    /\ Lists \subseteq SUBSET Url /\ Client \cap Id = {} /\ MaxUris \in Nat \ {0}

VARIABLES
    env,         \* the process's environment, read once
    registered,  \* the registrations, which a restart finds again
    published,   \* what each site answers
    cached,      \* the verdicts on documents
    pending,     \* a connect waiting for its sign-in, or Nobody
    answer       \* the last answer of /oauth/authorize

vars == <<env, registered, published, cached, pending, answer>>

Allowed == AllowedRedirects(Defaults, env)

Answers == {"none", "signin", "not_listed", "invalid_request", "invalid_client", "unavailable"}
Gone == [served |-> "gone"]
Down == [served |-> "down"]
Uncached == [fresh |-> FALSE, uris |-> {}]

(* What the sites may answer, and that the redirects a document lists are    *)
(* among those that are asked for.                                           *)
Sites == {p \in [Id -> UNION {Docs[id] : id \in Id}] : \A id \in Id : p[id] \in Docs[id]}

ASSUME PublishedAssumption ==
    \A id \in Id : \A doc \in Docs[id] \ {Gone, Down} : doc.uris \subseteq Url

TypeOK ==
    /\ env \in Envs
    /\ registered \in [Client -> SUBSET Url]
    /\ published \in Sites
    /\ cached \in [Id -> [fresh : BOOLEAN, uris : SUBSET Url]]
    /\ pending \in [client : Client \cup Id, redirect : Url] \cup {Nobody}
    /\ answer \in Answers

Init ==
    /\ env \in Envs
    /\ registered = [c \in Client |-> {}]
    /\ published \in Sites
    /\ cached = [id \in Id |-> Uncached]
    /\ pending = Nobody
    /\ answer = "none"

-----------------------------------------------------------------------------
(* /oauth/register: all the redirects are permitted, or nothing is stored. *)
Register(c, uris) ==
    /\ registered[c] = {} /\ Cardinality(uris) \in 1..MaxUris
    /\ \A u \in uris : RedirectUriPermitted(u, Allowed)
    /\ registered' = [registered EXCEPT ![c] = uris]
    /\ UNCHANGED <<env, published, cached, pending, answer>>

(* The pending connect that a check admits; a second one is another sign-in. *)
Admit(who, u) ==
    /\ pending = Nobody
    /\ pending' = [client |-> who, redirect |-> u]
    /\ answer' = "signin"

(* A client that is not admitted for this redirect is told what is wrong. *)
Refuse(u) ==
    /\ answer' = IF RedirectUriPermitted(u, Allowed) THEN "invalid_client"
                 ELSE IF IsWellformedHosted(u) THEN "not_listed" ELSE "invalid_request"
    /\ UNCHANGED pending

(* validate_client for a client_id that is no document URL. *)
AuthorizeRegistered(c, u) ==
    /\ IF RedirectAllowed(registered[c], u, Allowed) THEN Admit(c, u) ELSE Refuse(u)
    /\ UNCHANGED <<env, registered, published, cached>>

(* Refused before any fetch: a stranger's origin, or a redirect that no      *)
(* document could make good.                                                 *)
AuthorizeUnfetched(id, u) ==
    /\ \/ ~CimdClientId(id) /\ Refuse(u)
       \/ CimdClientId(id) /\ ~CimdOriginTrusted(id, Allowed) /\ answer' = "not_listed"
          /\ UNCHANGED pending
       \/ /\ CimdClientId(id) /\ CimdOriginTrusted(id, Allowed)
          /\ ~RedirectUriPermitted(u, Allowed) /\ Refuse(u)
    /\ UNCHANGED <<env, registered, published, cached>>

(* client_metadata_for: the cached verdict, or a fetch, whose verdict is     *)
(* cached unless the site forbids it or did not answer.                      *)
Verdicts(id) ==
    IF cached[id].fresh THEN {cached[id]}
    ELSE IF published[id] = Down THEN {}
    ELSE {[fresh |-> keep,
           uris |-> IF published[id] = Gone THEN {}
                    ELSE ParseClientMetadata(id, published[id], Allowed, MaxUris)] :
             keep \in BOOLEAN}

AuthorizeByDocument(id, u) ==
    /\ CimdClientId(id) /\ CimdOriginTrusted(id, Allowed) /\ RedirectUriPermitted(u, Allowed)
    /\ \/ /\ Verdicts(id) = {}
          /\ answer' = "unavailable" /\ UNCHANGED <<pending, cached>>
       \/ \E v \in Verdicts(id) :
            /\ cached' = [cached EXCEPT ![id] = IF v.fresh THEN v ELSE @]
            /\ IF RedirectAllowed(v.uris, u, Allowed) THEN Admit(id, u) ELSE Refuse(u)
    /\ UNCHANGED <<env, registered, published>>

(* The sign-in ends: the browser goes to the redirect with the code, or the *)
(* connect expires.                                                          *)
Deliver ==
    /\ pending # Nobody /\ pending' = Nobody
    /\ UNCHANGED <<env, registered, published, cached, answer>>

-----------------------------------------------------------------------------
Publish(id, doc) ==
    /\ published[id] # doc /\ published' = [published EXCEPT ![id] = doc]
    /\ UNCHANGED <<env, registered, cached, pending, answer>>

Expire(id) ==
    /\ cached[id].fresh /\ cached' = [cached EXCEPT ![id] = Uncached]
    /\ UNCHANGED <<env, registered, published, pending, answer>>

(* Another process: its environment is read anew, and of all this only the  *)
(* registrations are on disk.                                               *)
Restart ==
    /\ env' \in Envs
    /\ cached' = [id \in Id |-> Uncached]
    /\ pending' = Nobody
    /\ answer' = "none"
    /\ UNCHANGED <<registered, published>>

Next ==
    \/ \E c \in Client :
         \/ \E uris \in Lists : Register(c, uris)
         \/ \E u \in Url : AuthorizeRegistered(c, u)
    \/ \E id \in Id :
         \/ \E u \in Url : AuthorizeUnfetched(id, u) \/ AuthorizeByDocument(id, u)
         \/ \E doc \in Docs[id] : Publish(id, doc)
         \/ Expire(id)
    \/ Deliver \/ Restart

Spec == Init /\ [][Next]_vars

-----------------------------------------------------------------------------
(* The entries in force, read for themselves: never a whole domain. *)
InForce == Defaults \cup
    {[host |-> HostKey(raw.host), path |-> raw.path, pin |-> "prefix"] :
        raw \in {r \in env : AtHome(r, [host |-> HostKey(r.host), path |-> r.path, pin |-> "exact"])
                             /\ r.path # <<"/">>}}

(* A code only ever goes to the browser's own machine or to a vendor's       *)
(* callback path that the process's allow-list pins, by label and by        *)
(* segment, whatever was registered under an earlier allow-list and whatever *)
(* a cached document says; and it goes there without a query or fragment of  *)
(* the client's that the code would be mixed with.                           *)
PinnedDelivery ==
    pending # Nobody =>
        LET u == pending.redirect
        IN /\ u.extra \in {"none", "respelled"}
           /\ \/ u.scheme = "http" /\ u.host = <<"localhost">>
              \/ \E e \in InForce : AtHome(u, e)

(* A code goes to the client that asked: to a redirect it registered, up to *)
(* the port on the loopback host; for a client known by its document, to the *)
(* origin of the document, or to the loopback host.                          *)
OwnRedirect ==
    pending # Nobody =>
        LET u == pending.redirect
            local == u.scheme = "http" /\ u.host = <<"localhost">>
        IN IF pending.client \in Client
           THEN \E r \in registered[pending.client] :
                    r = u \/ (local /\ r = [u EXCEPT !.port = r.port, !.extra = r.extra])
           ELSE local \/ SameOrigin(u, pending.client)
=============================================================================
