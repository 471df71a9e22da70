----------------------------- MODULE MCReading -----------------------------
EXTENDS Reading, TLC

CONSTANTS c1, c2, c3, wallet, t1, t2, t3, lb, lo, lk, ls, uB,
    listedUrl, alikeUrl, otherUrl

(* The crawl: 1 and 2 spell the same canister, 3 is no canister, 6 no id.   *)
MCOf == 1 :> c1 @@ 2 :> c1 @@ 3 :> wallet @@ 4 :> c2 @@ 5 :> c3 @@ 6 :> None

Item(t, role) == [text |-> t, role |-> role]
Lit(t, src)   == [text |-> t, source |-> src]

MCManifests == {<<>>, <<Item(2, "backend")>>, <<Item(Blank, "backend"), Item(1, None)>>,
                <<Item(3, "backend"), Item(4, "backend")>>, <<Item(1, None), Item(4, "backend")>>,
                <<Item(6, "backend")>>, <<Item(4, "frontend")>>}
MCOldManifests == {<<>>, <<Item(1, "backend")>>, <<Item(4, "backend")>>,
                   <<Item(5, None), Item(4, "frontend")>>}
MCEnvFiles == {<<>>, <<4, 5>>, <<1>>}
MCPages == {[header |-> None, matches |-> <<>>],
            [header |-> 1, matches |-> <<Lit(5, "bundle")>>],
            [header |-> 5, matches |-> <<Lit(4, "bundle"), Lit(3, "bundle"), Lit(1, "bundle")>>]}
MCScripts == {<<Lit(4, "bundle:A"), Lit(1, "bundle:B")>>, <<Lit(5, "bundle"), Lit(5, "bundle:A")>>,
              <<Lit(6, "bundle"), Lit(4, "bundle")>>}

(* The queries: a name in two words, a host that resembles it, the same     *)
(* with a scheme, another host, an unknown word, and no https URL.          *)
MCKnownApps == <<[aliases |-> {<<lb, lo>>}, url |-> listedUrl]>>
MCWords == listedUrl :> <<<<lb, lo>>, <<lk>>>> @@ alikeUrl :> <<<<lb, lo>>, <<ls>>>> @@ otherUrl :> <<<<lk>>, <<ls>>>>

MCQuery(words, scheme, dotted, url) ==
    [words |-> words, scheme |-> scheme, dotted |-> dotted, url |-> url]
MCQueries == {
    MCQuery(<<<<lk>>, <<lb>>, <<lo>>>>, FALSE, FALSE, None), MCQuery(<<<<lb, lo>>, <<ls>>>>, FALSE, TRUE, alikeUrl),
    MCQuery(<<<<lb, lo>>, <<ls>>>>, TRUE, TRUE, alikeUrl), MCQuery(<<<<lk>>, <<ls>>>>, FALSE, TRUE, otherUrl),
    MCQuery(<<<<lk, lb, lo>>>>, FALSE, FALSE, None), MCQuery(<<<<lk>>>>, TRUE, FALSE, None)}

(* Interfaces of the methods 1, 2 and 3 over every graph of three types.    *)
MCLength == 1 :> 2 @@ 2 :> 3 @@ 3 :> 6 @@ 4 :> 5 @@ 5 :> 1

MCDecl(uses, bare, docs) == [uses |-> uses, bare |-> bare, docs |-> docs]

MCMethods == 1 :> MCDecl({t1}, 1, 2) @@ 2 :> MCDecl({t2}, 1, 0) @@ 3 :> MCDecl({}, 2, 4)

MCInterfaces ==
    {[readable |-> readable, size |-> size, service |-> 1, order |-> order, methods |-> methods,
      types |-> [t \in {t1, t2, t3} |-> MCDecl(graph[t], 1, docs[t])]] :
        readable \in BOOLEAN, size \in {9, 12}, order \in {<<t1, t2, t3>>, <<t3, t1, t2>>},
        methods \in {MCMethods}, graph \in [{t1, t2, t3} -> {{}, {t1}, {t2}, {t3}, {t2, t3}}],
        docs \in {t1 :> 0 @@ t2 :> 0 @@ t3 :> 0, t1 :> 1 @@ t2 :> 2 @@ t3 :> 1,
                  t1 :> 9 @@ t2 :> 0 @@ t3 :> 0}}

MCRequests == {All, <<>>, <<BlankName>>, <<1>>, <<BlankName, 1, 1>>, <<1, 2>>, <<3, 2>>, <<4>>, <<5, 1, 4>>}

(* Names of letters, and the rows of a reply.                               *)
MCLower == lb :> lb @@ lo :> lo @@ lk :> lk @@ ls :> ls @@ uB :> lb

MCStarts == {Absent, <<>>, <<lb>>, <<uB, lo, lk>>, <<lb, lo, lk>>, <<lb, lk>>, <<lk, lo, lb, lo, lk, ls>>, <<lk, lo, lo, lo, lk, lb, ls>>}

MCEntities == {<<lb, lo, lk>>, <<uB, lo, lk>>, <<lb, lo, lk, ls>>, <<lo, lk>>, <<lk>>, <<lk, lo, lo, lk, lb, ls>>, Absent}
MCSchemas == UNION {[1..n -> MCEntities] : n \in 0..3}

MCCell(n, v) == [name |-> n, value |-> v]
MCRows == {<<MCCell(lb, 1), MCCell(lo, 2)>>, <<MCCell(lo, 3), MCCell(lb, 4)>>,
           <<MCCell(lb, 5), MCCell(lb, 6)>>, <<MCCell(Absent, 7), MCCell(lo, 8)>>,
           <<MCCell(lb, 1), MCCell(lo, 2), MCCell(lk, 3)>>, <<>>, Absent}
MCReply(arm, more, rows) == [arm |-> arm, hasMore |-> more, rows |-> rows]
MCReplies ==
    {MCReply("ok", more, rows) : more \in BOOLEAN,
        rows \in {Absent} \cup UNION {[1..n -> MCRows] : n \in 0..3}}
    \cup {MCReply(arm, FALSE, <<>>) : arm \in {"none", "err", "other", "undecodable"}}

(* Texts for the guard; interfaces within the limits and over either one.   *)
MCSamples == Written(2)
MCDids ==
    LET flat == Declares(Plain(<<"word">>), <<"blank">>)
        deep == CHOOSE d \in Prefixed(Prefixed(Prefixed(Leaves))) : TRUE
    IN  {flat, Followed(flat, flat), deep}

MCEntry(id, words) == [id |-> id, words |-> words]
MCRegistries == {<<>>, <<MCEntry(1, {<<lb, lo>>, <<lk>>})>>,
    <<MCEntry(2, {<<ls, uB, lo>>}), MCEntry(3, {<<>>, <<lo, lb>>}), MCEntry(4, {<<uB, lo, lk>>})>>}
MCNames == {<<>>, <<lb>>, <<lb, lo>>, <<lk>>, <<ls, lb, lk>>, <<uB, lo>>}
=============================================================================
