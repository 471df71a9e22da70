----------------------------- MODULE Redirects ------------------------------
(***************************************************************************)
(* Which redirect URIs may receive an authorization code                   *)
(* (src/src/auth.rs): the hosted-redirect allow-list with its path pins,   *)
(* the loopback exemption, and what a client's own registration or         *)
(* metadata document adds to them.                                         *)
(*                                                                         *)
(* A URL is given by what these rules tell apart.  Its host and its path   *)
(* are sequences of tokens with "." and "/" among them, so that a rule on  *)
(* their text may split a label or a segment; "%" is any percent-encoding. *)
(* extra is one more component, or "respelled" for a URL that the parser   *)
(* reads as another text.  Dot segments are gone after the parser.         *)
(***************************************************************************)
EXTENDS Integers, SequencesExt

Extra == {"none", "query", "fragment", "userinfo", "respelled"}

Tokens == Seq(STRING)

IsUrl(u) ==
    /\ u \in [scheme : {"https", "http"}, host : Tokens, port : {"", "443", "444"},
              path : Tokens, extra : Extra]
    /\ u.path # <<>>

(* An entry of the allow-list. *)
IsEntry(e) ==
    /\ e \in [host : Tokens, path : Tokens, pin : {"exact", "prefix"}]
    /\ e.path # <<>>

(* url.port(): the scheme's default is no port. *)
Port(u) == IF u.scheme = "https" /\ u.port = "443" THEN "" ELSE u.port

HostKey(host) == SubSeq(host, 1, SelectLastInSeq(host, LAMBDA token : token # "."))

(* host equals the domain, or ends with it at a dot. *)
Under(host, domain) ==
    LET h == HostKey(host)
    IN \/ h = domain
       \/ IsSuffix(<<".">> \o domain, h)

PathWithinPrefix(path, prefix) ==
    /\ IsPrefix(prefix, path)
    /\ path = prefix \/ Last(prefix) = "/" \/ IsPrefix(Append(prefix, "/"), path)

-----------------------------------------------------------------------------
(* The allow-list: the compiled-in entries, and those of                    *)
(* OAUTH_ALLOWED_REDIRECT_PREFIXES that pin a host and a path and no more.  *)
ParseRedirectPrefix(raw) ==
    IF /\ raw.scheme = "https" /\ Port(raw) = "" /\ raw.extra \in {"none", "respelled"}
       /\ raw.path # <<"/">>
    THEN {[host |-> HostKey(raw.host), path |-> raw.path, pin |-> "prefix"]}
    ELSE {}

AllowedRedirects(defaults, env) == defaults \cup UNION {ParseRedirectPrefix(raw) : raw \in env}

IsLoopback(u) == u.scheme = "http" /\ u.extra # "userinfo" /\ u.host = <<"localhost">>

RedirectUriPermitted(u, allowed) ==
    /\ u.extra \notin {"query", "fragment"}
    /\ \/ IsLoopback(u)
       \/ /\ u.scheme = "https" /\ Port(u) = "" /\ u.extra # "userinfo"
          /\ ~Contains(u.path, "%")
          /\ \E e \in allowed :
               /\ Under(u.host, e.host)
               /\ IF e.pin = "exact" THEN u.path = e.path
                  ELSE PathWithinPrefix(u.path, e.path)

(* Not permitted, but told apart from a malformed redirect in the answer. *)
IsWellformedHosted(u) ==
    u.scheme = "https" /\ u.extra \in {"none", "respelled"} /\ ~Contains(u.path, "%")

LoopbackMatch(registered, requested) ==
    /\ IsLoopback(registered) /\ IsLoopback(requested)
    /\ registered.host = requested.host /\ registered.path = requested.path
    /\ (registered.extra = "query") = (requested.extra = "query")

(* Mutant of RedirectAllowed: what was permitted at registration still is. *)
AllowedAsRegistered(uris, u, allowed) ==
    \E r \in uris : r = u \/ LoopbackMatch(r, u)

(* The rule for a registered client; uris is {} for an unknown one. *)
RedirectAllowed(uris, u, allowed) ==
    /\ RedirectUriPermitted(u, allowed)
    /\ \E r \in uris : r = u \/ LoopbackMatch(r, u)

-----------------------------------------------------------------------------
(* Client ID metadata documents.  A client_id that is a URL, taken as given. *)
CimdClientId(id) ==
    id.scheme = "https" /\ id.extra \in {"none", "query"} /\ Len(id.path) > 1

CimdOriginTrusted(id, allowed) == Port(id) = "" /\ \E e \in allowed : Under(id.host, e.host)

SameOrigin(a, b) == a.scheme = b.scheme /\ a.host = b.host /\ Port(a) = Port(b)

(* Mutant of Honoured: a document may list any permitted redirect. *)
HonouredAnywhere(id, uris, allowed) == {u \in uris : RedirectUriPermitted(u, allowed)}

(* The redirects of a document that this server keeps. *)
Honoured(id, uris, allowed) ==
    {u \in uris : RedirectUriPermitted(u, allowed) /\ (IsLoopback(u) \/ SameOrigin(id, u))}

(* The verdict on a fetched document: the redirects it grants, or {} when it *)
(* is invalid.  fit is every check of the document but those on redirects:   *)
(* its media type, no secret, a public client, this server's flow.           *)
ParseClientMetadata(id, doc, allowed, max) ==
    IF doc.client_id = id /\ doc.fit /\ Cardinality(doc.uris) <= max
    THEN Honoured(id, doc.uris, allowed) ELSE {}

-----------------------------------------------------------------------------
(* For the properties: the same rules on labels and segments.               *)
Cut(pieces, token, separator) ==
    IF token = separator THEN Append(pieces, <<>>)
    ELSE [pieces EXCEPT ![Len(pieces)] = Append(@, token)]

Pieces(s, separator) ==
    LET f[i \in 0..Len(s)] ==
          IF i = 0 THEN << <<>> >> ELSE Cut(f[i - 1], s[i], separator)
    IN f[Len(s)]

(* A URL on the origin of an entry's domain, or below it, at the entry's    *)
(* path: the very path, or one that continues it by whole segments.         *)
AtHome(u, e) ==
    LET pinned == Pieces(e.path, "/")
        opens  == Last(pinned) = <<>>
        here   == Pieces(u.path, "/")
    IN /\ u.scheme = "https" /\ u.port # "444" /\ u.extra \in {"none", "respelled"}
       /\ \A i \in DOMAIN u.path : u.path[i] # "%"
       /\ IsSuffix(Pieces(e.host, "."), Pieces(HostKey(u.host), "."))
       /\ \/ here = pinned
          \/ /\ e.pin = "prefix" /\ Len(here) >= Len(pinned)
             /\ IsPrefix(IF opens THEN Front(pinned) ELSE pinned, here)
=============================================================================
