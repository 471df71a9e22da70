----------------------------- MODULE Compliance -----------------------------
(***************************************************************************)
(* The rules on state-changing calls of                                    *)
(* src/crates/imcp2-core/src/compliance.rs, and the checks of calls.rs     *)
(* that need a canister's Candid interface.  The tables of the source are  *)
(* constants, and a method name is a model value: which tables it is in,   *)
(* which ICRC prefix it has and whether one of its words is a financial    *)
(* keyword are sets of names.  Canister and None are those of AppDocuments. *)
(*                                                                         *)
(* An interface is what a canister publishes as candid:service: nothing,   *)
(* bytes that are not text, text that does not parse (or is over the       *)
(* limits the parser is guarded with), or methods, some of them queries.   *)
(***************************************************************************)
EXTENDS AppDocuments

CONSTANTS
    Method,
    MixedPurpose,    \* MIXED_PURPOSE_METHODS
    Standard,        \* DISALLOWED_STANDARD_METHODS
    Listed,          \* DISALLOWED_CANISTER_METHODS, as pairs
    Finance,         \* DISALLOWED_FINANCE_CANISTERS
    LedgerNamed,     \* names with a prefix of ICRC_LEDGER_PREFIXES
    KeywordNamed,    \* names with a word of FINANCIAL_KEYWORDS
    SchemaMethod, ExecuteMethod, DocMethods  \* "schema", "execute", API_DOC_METHODS

Interface == [status : {"published", "not_text", "absent"}, parses : BOOLEAN,
              methods : SUBSET Method, queries : SUBSET Method]

ASSUME ComplianceAssumption ==
    /\ MixedPurpose \cup Standard \cup LedgerNamed \cup KeywordNamed \subseteq Method
    /\ Listed \subseteq Canister \X Method /\ Finance \subseteq Canister
    /\ {SchemaMethod, ExecuteMethod} \cup DocMethods \subseteq Method
    /\ \A i \in Interface : None # i

-----------------------------------------------------------------------------
(* The scopes of the gate, each a lookup of the request in its table: the    *)
(* method entry points for financial and other operations alike, the value-  *)
(* moving methods of the standards, those of one system canister, the        *)
(* canisters that are refused as a whole, the names of ledger methods        *)
(* (icrc_ledger_standard), and the names with a financial word in them       *)
(* (financial_keyword of name_words).                                        *)
MixedPurposeMethod(method)        == method \in MixedPurpose
StandardMethod(method)            == method \in Standard
CanisterMethod(canister, method)  == <<canister, method>> \in Listed
FinanceCanister(canister)         == canister \in Finance
IcrcLedgerStandard(method)        == method \in LedgerNamed
FinancialKeyword(method)          == method \in KeywordNamed

(* disallowed_update_method: which scope refuses, in the code's order.       *)
DisallowedUpdateMethod(canister, method) ==
    IF MixedPurposeMethod(method) THEN "mixed_purpose"
    ELSE IF StandardMethod(method) \/ CanisterMethod(canister, method) THEN "operation"
    ELSE IF FinanceCanister(canister) THEN "destination"
    ELSE IF IcrcLedgerStandard(method) THEN "ledger_name"
    ELSE IF FinancialKeyword(method) THEN "keyword"
    ELSE None

(* declared_methods: None for an interface that could not be parsed.        *)
DeclaredMethods(i) == IF i.status = "published" /\ i.parses THEN i.methods ELSE None

(* disallowed_update_on_ledger_interface: by what the canister declares,     *)
(* not by what is called.                                                    *)
\* mutant
OnlyThisMethod(method, declared) == method \in declared \cap LedgerNamed

OnLedgerInterface(method, declared) == \E name \in declared : IcrcLedgerStandard(name)

(* What canister_update_call makes of the read: failed means that whether    *)
(* the canister publishes an interface is unknown.                           *)
JudgeUpdate(i, failed, method) ==
    CASE failed \/ DeclaredMethods(i) = None -> "unchecked"
      [] ~failed /\ DeclaredMethods(i) # None /\ OnLedgerInterface(method, DeclaredMethods(i)) -> "ledger"
      [] OTHER -> None

(* oql_query_redirect, then is_query_method: both let pass what they cannot *)
(* read.                                                                     *)
HasOql(i) == i.parses /\ {SchemaMethod, ExecuteMethod} \subseteq i.methods

JudgeQuery(i, method) ==
    CASE i # None /\ HasOql(i) -> "oql_first"
      [] i # None /\ ~HasOql(i) /\ i.parses /\ method \in i.methods \ i.queries -> "not_query"
      [] OTHER -> None

(* get_canister_api_doc: candid_service and api_doc_method. *)
JudgeDoc(i, failed) ==
    CASE failed \/ i.status # "published"                    -> "unread"
      [] ~failed /\ i.status = "published" /\ ~(i.parses /\ DocMethods \cap i.methods # {}) -> "no_doc"
      [] OTHER -> None
=============================================================================
