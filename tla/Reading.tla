------------------------------- MODULE Reading -------------------------------
(* What an agent reads before it calls: an app is opened (OpenApp), the     *)
(* interface of one of its canisters is read (CandidInterface), or an OQL   *)
(* query is made on one (OqlReplies), a call is encoded and decoded         *)
(* (CandidGuard), or a canister is looked up by name (NameSearch).  These   *)
(* share no state; a behaviour is one of them.                              *)
EXTENDS OpenApp, CandidInterface, NameSearch, CandidGuard

CONSTANTS
    Interfaces, \* bound: the interfaces canisters publish
    Requests,   \* bound: the methods a caller asks for
    Starts,     \* bound: the start of a query
    Replies,    \* bound: the replies of `execute`
    Schemas,    \* bound: the replies of `schema`
    Samples,    \* bound: the arguments of calls
    Dids,       \* bound: the interfaces they are encoded against
    Registries, \* bound: what the registries of names hold
    Names       \* bound: the names looked for

ASSUME ReadingAssumption ==
    /\ \A did \in Interfaces : IsInterface(did)
    /\ \A requested \in Requests \ {All} : requested \in Seq(Name \cup {BlankName})
    /\ \A reply \in Replies : IsReply(reply)
    /\ Starts \subseteq Seq(Letter) \cup {Absent}
    /\ \A schema \in Schemas : schema \in Seq(Seq(Letter) \cup {Absent})
    /\ \A registry \in Registries : registry \in Seq(Range(registry))

VARIABLES
    asked,      \* an interface or a query that is being read
    response
appVars == <<crawlVars, openVars>>
readingVars == <<appVars, asked, response>>

ReadingInit == OpenInit /\ asked = None /\ response = None

OpenApp == asked = None /\ OpenNext /\ UNCHANGED <<asked, response>>

Idle == asked = None /\ query = None

(* get_canister_candid: candid_reply on the text read from the replica. *)
GetCanisterCandid ==
    /\ Idle
    /\ \E did \in Interfaces, requested \in Requests :
          /\ asked' = [tool |-> "candid", did |-> did, requested |-> requested]
          /\ response' = RenderCandid(did, requested)
    /\ UNCHANGED appVars

(* canister_oql_query calls execute, and the replica answers or traps. *)
Execute ==
    /\ Idle
    /\ \E start \in Starts, reply \in Replies \cup {Absent} :
          asked' = [tool |-> "oql", start |-> start, reply |-> reply, schema |-> Absent]
    /\ response' = None
    /\ UNCHANGED appVars

(* The schema is read after the reply, by the same account, and only for a  *)
(* diagnosis: it may have changed since, and the read may fail.             *)
Explain ==
    /\ asked # None /\ asked.tool = "oql" /\ response = None
    /\ \E schema \in {Absent} \cup IF Diagnosed(Result(asked.reply)) THEN Schemas ELSE {} :
          /\ asked' = [asked EXCEPT !.schema = schema]
          /\ response' = OqlAnswer(asked.start, asked.reply, schema)
    /\ UNCHANGED appVars

(* A call's arguments are encoded and its reply decoded, with the interface *)
(* if there is one.                                                         *)
Fits == {"matches", "mismatch", "undeclared", "not candid"}

EncodeAndDecode ==
    /\ Idle
    /\ \E args \in Samples, did \in Dids \cup {NoDid}, fit \in Fits :
          /\ asked' = [tool |-> "call", args |-> args, did |-> did]
          /\ response' = [args |-> EncodeArgs(did.text, args.text, fit), reply |-> DecodeReply(did.text, fit)]
    /\ UNCHANGED appVars

FindCanisterByName ==
    /\ Idle
    /\ \E ledgers, snses \in Registries \cup {Absent, Garbled}, name \in Names :
          /\ asked' = [tool |-> "find", ledgers |-> ledgers, snses |-> snses, name |-> name]
          /\ response' = SearchByName(ledgers, snses, name)
    /\ UNCHANGED appVars

ReadingNext == EncodeAndDecode \/ FindCanisterByName \/ OpenApp \/ GetCanisterCandid \/ Execute \/ Explain

ReadingSpec == ReadingInit /\ [][ReadingNext]_readingVars

(* An interface is answered as it was asked for (see AnswersAsAsked).        *)
InterfaceAnswer ==
    asked # None /\ asked.tool = "candid" => AnswersAsAsked(asked.did, asked.requested, response)

(* Neither an interface nor an argument is parsed that goes over the        *)
(* limits, however it is written (see Measured); none that keeps them is    *)
(* left out.                                                                *)
GuardAnswer == asked # None /\ asked.tool = "call" =>
    /\ Measured(asked.args, IF response.args = "over the limit" THEN response.args ELSE "ok")
    /\ "typed" \in {response.args, response.reply} => asked.did # NoDid /\ Measured(asked.did, "ok")
    /\ response.reply = "typed" => response.args # "untyped"

(* A table has the cells of the rows it was read from under their names, but *)
(* for three kinds that are left out without a word, and says when it ends  *)
(* early (see FaithfulTable); a name is searched in all that could be read  *)
(* (see SearchedAsNamed).                                                   *)
QueryAnswer ==
    /\ asked # None /\ asked.tool = "oql" /\ response # None => FaithfulTable(asked.reply, response)
    /\ asked # None /\ asked.tool = "find" =>
          SearchedAsNamed(asked.ledgers, asked.snses, asked.name, response)

(* The repair of a query that came back empty or failed is true of what the *)
(* schema lists up to the cap on entities (see HonestRepair).               *)
RepairAnswer == asked # None /\ asked.tool = "oql" /\ response # None =>
    HonestRepair(asked.start, asked.schema, response)

(* What a reading tool answers agrees with what it read, as far as each of  *)
(* the three goes: the interface it renders, the table or the names it      *)
(* finds, and the repair it offers.                                         *)
ReadAnswer == InterfaceAnswer /\ QueryAnswer /\ RepairAnswer
=============================================================================
