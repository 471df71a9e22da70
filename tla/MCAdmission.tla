---------------------------- MODULE MCAdmission -----------------------------
EXTENDS Admission

Link(scheme, host, port, path, extra) ==
    [scheme |-> scheme, host |-> host, port |-> port, path |-> path, extra |-> extra]
Hosted(host, path) == Link("https", host, "", path, "none")

V  == <<"v">>
CB == <<"/", "cb">>

(* A vendor's callback, and around it one difference at a time. *)
MCUrl ==
    {Hosted(V, CB), Hosted(<<"w", ".", "v">>, CB), Hosted(<<"w", "v">>, CB),
     Hosted(<<"v", ".">>, CB), Hosted(<<"o">>, CB), Hosted(V, <<"/">>),
     Hosted(V, CB \o <<"/", "x">>), Hosted(V, CB \o <<"x">>), Hosted(V, CB \o <<"/", "%">>),
     Hosted(V, <<"/", "x">>), Hosted(<<"o">>, <<"/", "x">>)}
    \cup {Link("https", V, p, CB, "none") : p \in {"443", "444"}}
    \cup {Link("https", V, "", CB, e) : e \in Extra \ {"none"}}
    \cup {Link("http", V, "", CB, "none")}
    \cup {Link("http", <<"localhost">>, p, path, "none") : p \in {"", "444"}, path \in {<<"/">>, CB}}
    \cup {Link("http", <<"localhost">>, "", CB, e) : e \in {"query", "userinfo"}}

MCLists == {{u} : u \in MCUrl} \cup
    {{Hosted(V, CB), Link("http", <<"localhost">>, "", CB, "none")},
     {Hosted(V, CB), Hosted(V, CB \o <<"/", "x">>), Hosted(<<"o">>, <<"/", "x">>)}}

MCDefaults ==
    {[host |-> V, path |-> CB, pin |-> "prefix"], [host |-> <<"o">>, path |-> <<"/", "x">>, pin |-> "exact"]}
MCEnvs == {{}, {Hosted(<<"o">>, CB), Hosted(V, <<"/">>), Link("https", V, "444", CB, "none")}}

DocA == Hosted(V, <<"/", "doc">>)
MCId == {DocA, Hosted(<<"z">>, <<"/", "doc">>), Link("https", V, "444", <<"/", "doc">>, "none"),
         Link("https", V, "", <<"/", "doc">>, "fragment")}
Doc(id, fit, uris) == [served |-> "document", client_id |-> id, fit |-> fit, uris |-> uris]
MCDocs == [id \in MCId |->
    IF id # DocA THEN {Gone}
    ELSE {Gone, Down, Doc(id, TRUE, {Hosted(V, CB), Hosted(<<"o">>, <<"/", "x">>), Hosted(V, CB \o <<"x">>)}),
          Doc(id, TRUE, {Link("http", <<"localhost">>, "", CB, "none"), Hosted(<<"w", ".", "v">>, CB)}),
          Doc(id, FALSE, {Hosted(V, CB)}),
          Doc(Hosted(<<"z">>, <<"/", "doc">>), TRUE, {Hosted(V, CB)})}]
=============================================================================
