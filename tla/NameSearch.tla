----------------------------- MODULE NameSearch ------------------------------
(* icp_find_canister_by_name (src/crates/imcp2-core/src/tools.rs): the two  *)
(* registries of named services are fetched side by side and searched here, *)
(* since neither can be asked for a name (search_by_name and search_in,     *)
(* discover.rs).  A registry is the list of its entries, Absent when it     *)
(* could not be fetched and Garbled when it could not be understood, which  *)
(* one entry without an id is enough for.                                   *)
(*                                                                          *)
(* An entry has an id, the words it is found by (the name of a project, the *)
(* symbol and the name of a token) and whether an SNS governs the token.    *)
EXTENDS OqlReplies

CONSTANTS
    Garbled,
    MaxMatches \* the matches of a reply

ASSUME SearchAssumption == MaxMatches \in Nat \ {0}

(* The query trimmed and in lower case, somewhere in a word.                *)
Occurs(query, word) ==
    \E i \in 1..(Len(word) + 1 - Len(query)) :
        SubSeq(LowerCase(word), i, i + Len(query) - 1) = LowerCase(query)

Entries(registry) == IF registry \in {Absent, Garbled} THEN <<>> ELSE registry

Matches(registry, query, kind) ==
    LET entries == Entries(registry)
        hits == Keep(entries, {e \in Range(entries) : \E w \in e.words : Occurs(query, w)})
    IN  [i \in DOMAIN hits |-> [id |-> hits[i].id, kind |-> kind]]

(* search_in: tokens first, up to the cap. *)
SearchIn(ledgers, snses, query) ==
    FirstOf(Matches(ledgers, query, "token") \o Matches(snses, query, "sns"), MaxMatches)

(* search_by_name: one registry may be down, not both. *)
SearchByName(ledgers, snses, query) ==
    IF query = <<>> THEN [is |-> "none"]
    ELSE IF ledgers = Absent /\ snses = Absent THEN [is |-> "error"]
    ELSE IF SearchIn(ledgers, snses, query) = <<>> THEN [is |-> "none"]
    ELSE [is |-> "found", matches |-> SearchIn(ledgers, snses, query)]

-----------------------------------------------------------------------------
(* What is found is what the registries that could be read have under the   *)
(* name, all of it up to the cap, where projects give way to tokens.  An    *)
(* error is not told for a registry that has nothing, nor is "none" told    *)
(* when one that was read has something; that one of them was not read is   *)
(* not told at all.                                                         *)
SearchedAsNamed(ledgers, snses, query, answer) ==
    LET named(registry) == {e \in Range(Entries(registry)) : \E w \in e.words : Occurs(query, w)}
        listed(kind) == {m.id : m \in {n \in Range(answer.matches) : n.kind = kind}}
    IN  CASE answer.is = "error" -> ledgers = Absent /\ snses = Absent
          [] answer.is = "none"  -> query = <<>> \/ named(ledgers) \cup named(snses) = {}
          [] answer.is = "found" ->
                /\ listed("token") \subseteq {e.id : e \in named(ledgers)}
                /\ listed("sns") \subseteq {e.id : e \in named(snses)}
                /\ \/ listed("token") = {e.id : e \in named(ledgers)} /\ listed("sns") = {e.id : e \in named(snses)}
                   \/ Len(answer.matches) = MaxMatches
                /\ listed("sns") # {} => listed("token") = {e.id : e \in named(ledgers)}
=============================================================================
