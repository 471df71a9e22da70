--------------------------- MODULE CandidInterface ---------------------------
(* What get_canister_candid answers from the interface a canister publishes *)
(* (render_candid and what it calls, src/crates/imcp2-core/src/calls.rs):   *)
(* the text as it is, a text restricted to the methods asked for, or a      *)
(* refusal that names what can be asked for instead.  Everything is pure.   *)
(*                                                                          *)
(* A declaration, of a type or of a method, is the types it names and the   *)
(* bytes it takes, without and with the comments on it and on its fields.   *)
(* An interface is its declarations, the order the types are declared in,   *)
(* the comments on the service and the bytes of the whole text.  One that   *)
(* is too large or too deep to parse, does not parse or check, or declares  *)
(* no service is not readable; so is any when no thread is to be had.       *)
EXTENDS Lists

CONSTANTS
    Name,        \* method names, numbered in their order
    TypeName,    \* names of type definitions
    BlankName,   \* a requested name of white space
    All,         \* no methods requested: the whole interface
    Length,      \* the bytes of a name
    Limit,       \* MAX_SERVICE_SUBSET_BYTES
    UnknownLimit \* MAX_UNKNOWN_NAMES_BYTES

Decl == [uses : SUBSET TypeName, bare : Nat, docs : Nat]

(* A readable interface is checked: every type named in it is declared.     *)
IsInterface(did) == did.readable =>
    /\ did.order \in Seq(TypeName) /\ {did.size, did.service} \subseteq Nat
    /\ did.types \in [Range(did.order) -> Decl]
    /\ DOMAIN did.methods \subseteq Name /\ IsFiniteSet(DOMAIN did.methods)
    /\ did.methods \in [DOMAIN did.methods -> Decl]
    /\ \A d \in Range(did.types) \cup Range(did.methods) : d.uses \subseteq Range(did.order)

ASSUME InterfaceAssumption ==
    /\ Name \subseteq Nat /\ BlankName \notin Name
    /\ Length \in [Name -> Nat] /\ {Limit, UnknownLimit} \subseteq Nat

-----------------------------------------------------------------------------
(* The methods asked for, trimmed and deduplicated. *)
Selection(requested) == Range(requested) \ {BlankName}

NoNames == [listed |-> {}, omitted |-> 0, size |-> 0]

(* budgeted_names: a name that does not fit is counted, and the rest are    *)
(* still tried.  Two bytes separate two names, and two quote one.           *)
BudgetedNames(names, quotes, budget) ==
    LET added(acc, n) ==
            LET size == acc.size + (IF acc.listed = {} THEN 0 ELSE 2) + Length[n] + quotes
            IN  IF size > budget THEN [acc EXCEPT !.omitted = @ + 1]
                ELSE [acc EXCEPT !.listed = @ \cup {n}, !.size = size]
        after[i \in 0..Len(names)] == IF i = 0 THEN NoNames ELSE added(after[i - 1], names[i])
    IN  after[Len(names)]

InOrder(S) == Sorted(S, {p \in S \X S : p[1] < p[2]})

DeclaredMethodsList(did) == BudgetedNames(InOrder(DOMAIN did.methods), 0, Limit)

(* chase_actor: the types reached from the selected signatures, each        *)
(* definition followed once.                                                *)
\* Mutant: the types the signatures name, and not what those name.
NamedOnly(did, selected) == UNION {did.methods[m].uses : m \in selected}

ChaseActor(did, selected) ==
    LET reached[n \in 0..Len(did.order)] ==
            IF n = 0 THEN UNION {did.methods[m].uses : m \in selected}
            ELSE reached[n - 1] \cup UNION {did.types[t].uses : t \in reached[n - 1]}
    IN  reached[Len(did.order)]

(* print_subset: the bytes of the types in order and the selected methods,  *)
(* with the comments interface_docs collected for them or without.          *)
PrintSubset(did, order, selected, commented) ==
    LET bytes(d) == IF commented THEN d.bare + d.docs ELSE d.bare
        methods  == InOrder(selected)
    IN  [types |-> order, methods |-> selected, commented |-> commented,
         size |-> Total([i \in DOMAIN order |-> bytes(did.types[order[i]])])
                  + Total([i \in DOMAIN methods |-> bytes(did.methods[methods[i]])])
                  + (IF commented THEN did.service ELSE 0)]

-----------------------------------------------------------------------------
(* The replies.  A refusal over methods lists the declared ones.            *)
Refusal(why, unknown, declared) ==
    [is |-> "refused", why |-> why, unknown |-> unknown, declared |-> declared]

Verbatim(did) ==
    [is |-> "verbatim", size |-> did.size, bestEffort |-> FALSE,
     count |-> IF did.readable THEN {Cardinality(DOMAIN did.methods)} ELSE {}]

Restricted(text, bestEffort, did) ==
    [is |-> "restricted", text |-> text, bestEffort |-> bestEffort,
     count |-> {Cardinality(DOMAIN did.methods)}]

RestrictedDid(did, selected) ==
    LET needed    == ChaseActor(did, selected)
        order     == Keep(did.order, needed)
        commented == PrintSubset(did, order, selected, TRUE)
        single    == Cardinality(selected) = 1
    IN  IF commented.size <= Limit THEN Restricted(commented, FALSE, did)
        ELSE IF single THEN Restricted(PrintSubset(did, order, selected, FALSE), TRUE, did)
        ELSE Refusal("too large", NoNames, DeclaredMethodsList(did))

RenderWhole(did) ==
    IF did.readable /\ did.size > Limit
    THEN Refusal("too large", NoNames, DeclaredMethodsList(did))
    ELSE Verbatim(did)

RenderSelected(did, selected) ==
    LET unknown == selected \ DOMAIN did.methods
    IN  IF ~did.readable THEN Refusal("only verbatim", NoNames, NoNames)
        ELSE IF unknown # {}
        THEN Refusal("unknown", BudgetedNames(InOrder(unknown), 2, UnknownLimit),
                     DeclaredMethodsList(did))
        ELSE RestrictedDid(did, selected)

RenderCandid(did, requested) ==
    IF requested = All THEN RenderWhole(did)
    ELSE IF Selection(requested) = {} THEN Refusal("names no method", NoNames, NoNames)
    ELSE RenderSelected(did, Selection(requested))

-----------------------------------------------------------------------------
(* The types a restricted text has to define: the least set that holds what *)
(* the signatures name and what its own members name.                       *)
Closed(did, selected, S) ==
    /\ \A m \in selected : did.methods[m].uses \subseteq S
    /\ \A t \in S : did.types[t].uses \subseteq S

(* Every declared method is named to a caller who has to choose again, or   *)
(* counted.                                                                 *)
NamesAll(list, names, budget) ==
    /\ list.listed \subseteq names
    /\ Cardinality(list.listed) + list.omitted = Cardinality(names)
    /\ list.size <= budget

(* An answer can be called with and be read whole: a restricted text covers *)
(* exactly the methods asked for and defines exactly the types they reach,  *)
(* in the order of the interface; it keeps its comments and the limit, or   *)
(* is the one method asked for without its comments.  A whole text over the *)
(* limit is one that cannot be read in parts.  One method that is declared  *)
(* is never refused, and a refusal over names or size names every declared  *)
(* method or counts it.                                                     *)
AnswersAsAsked(did, requested, reply) ==
    LET selected == IF requested = All THEN {} ELSE Selection(requested)
    IN  CASE reply.is = "verbatim" ->
                requested = All /\ (reply.size > Limit => ~did.readable)
          [] reply.is = "restricted" ->
                /\ reply.text.methods = selected
                /\ LET types == Range(reply.text.types)
                   IN  /\ Closed(did, selected, types)
                       /\ \A S \in SUBSET types : Closed(did, selected, S) => S = types
                /\ reply.text.types = Keep(did.order, Range(reply.text.types))
                /\ reply.bestEffort <=> ~reply.text.commented
                /\ IF reply.bestEffort
                   THEN Cardinality(selected) = 1
                        /\ PrintSubset(did, reply.text.types, selected, TRUE).size > Limit
                   ELSE reply.text.size <= Limit
          [] reply.is = "refused" ->
                /\ did.readable /\ selected \subseteq DOMAIN did.methods => Cardinality(selected) # 1
                /\ did.readable /\ reply.why # "names no method" =>
                      NamesAll(reply.declared, DOMAIN did.methods, Limit)
                /\ reply.why = "unknown" =>
                      NamesAll(reply.unknown, selected \ DOMAIN did.methods, UnknownLimit)
=============================================================================
