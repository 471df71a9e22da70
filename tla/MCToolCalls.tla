---------------------------- MODULE MCToolCalls ----------------------------
EXTENDS ToolCalls, TLC

CONSTANTS app, hub, gate, k1, k2, aaaaa, plain, transfer, balance, schema, execute, getApiDoc

(* Pages. *)
Gone     == [status |-> "gone", fits |-> TRUE, doc |-> None]
Withheld == [status |-> "declined", fits |-> TRUE, doc |-> None]
Outage   == [status |-> "failing", fits |-> TRUE, doc |-> None]
CatchAll == [status |-> "ok", fits |-> TRUE, doc |-> None]
BigPage  == [status |-> "ok", fits |-> FALSE, doc |-> None]
Doc(d)   == [status |-> "ok", fits |-> TRUE, doc |-> d]
Lst(r, b)  == [read |-> r, beyond |-> b]
Old(m, o)  == Doc([canisters |-> m, origin |-> o])

MCSite(arch, legacy, layer5, alts, moved, ic) ==
    [arch |-> arch, legacy |-> legacy, layer5 |-> layer5, alts |-> alts,
     moved |-> moved, ic |-> ic]

MCSites == app :> {
    MCSite(Doc(Lst({k1, aaaaa}, {})), Gone, Doc(hub), Gone, app, TRUE),
    MCSite(Doc(Lst({k1}, {})), Gone, Gone, Gone, app, FALSE),
    MCSite(Doc(Lst({k2, aaaaa}, {k1})), Old(None, hub), BigPage, Gone, app, TRUE),
    MCSite(CatchAll, Old(Lst({k1}, {}), hub), CatchAll, Gone, app, TRUE),
    MCSite(Doc(Lst({k1}, {})), BigPage, Gone, Gone, app, TRUE),
    MCSite(Withheld, Gone, Outage, Gone, app, TRUE),
    MCSite(Outage, Outage, Withheld, Gone, app, TRUE),
    MCSite(Gone, Gone, Gone, Gone, hub, TRUE) }
  @@ hub :> {
    MCSite(Doc(Lst({k1}, {})), Gone, Gone, Doc({app}), hub, TRUE),
    MCSite(Gone, Gone, Gone, Gone, hub, TRUE) }
  @@ gate :> {MCSite(Doc(Lst({k1}, {})), Gone, Gone, Gone, gate, TRUE)}

MCInterface(status, parses, methods, queries) ==
    [status |-> status, parses |-> parses, methods |-> methods, queries |-> queries]

MCInterfaces == k1 :> {
    MCInterface("published", FALSE, {}, {}),
    MCInterface("published", TRUE, {plain}, {}),
    MCInterface("published", TRUE, {plain, transfer, balance}, {balance}),
    MCInterface("published", TRUE, {plain, schema, execute, getApiDoc}, {schema, execute, getApiDoc}) }
  @@ k2 :> {MCInterface("not_text", FALSE, {}, {})}

(* Origins as callers spell them. *)
At(o)      == [scheme |-> "https", user |-> FALSE, host |-> o, odd |-> FALSE, shouted |-> FALSE]
Loud(o)    == [At(o) EXCEPT !.scheme = "none", !.shouted = TRUE]
Plain(o)   == [At(o) EXCEPT !.scheme = "http"]
NamedAt(o) == [At(o) EXCEPT !.user = TRUE]
Hostless   == At(None)
OddAt(o)   == [At(o) EXCEPT !.odd = TRUE]

MCAsk(kind, a, as, k, method) ==
    [kind |-> kind, app |-> a, as |-> as, canister |-> k, method |-> method]

MCAsks == {
    MCAsk("update", At(app), At(gate), k1, plain), MCAsk("update", At(app), At(app), k1, plain),
    MCAsk("update", At(app), None, k1, transfer), MCAsk("update", None, At(hub), k1, plain),
    MCAsk("query", At(app), Loud(gate), k1, balance), MCAsk("query", None, None, k1, plain),
    MCAsk("query", None, Loud(gate), k1, balance), MCAsk("query", At(app), Plain(hub), k1, plain),
    MCAsk("oql", None, At(hub), k1, execute), MCAsk("oql", At(app), None, k1, execute),
    MCAsk("schema", NamedAt(app), At(hub), k1, schema), MCAsk("open", At(app), None, k1, plain),
    MCAsk("candid", At(app), None, k2, plain), MCAsk("doc", At(app), At(hub), k1, getApiDoc),
    MCAsk("candid", Hostless, None, k1, plain), MCAsk("update", None, OddAt(hub), k1, plain),
    MCAsk("principal", None, At(gate), k1, plain) }

MCListed == {<<k1, balance>>}
MCKnown == app :> None @@ hub :> None @@ gate :> None
MCCanon == app :> app @@ hub :> hub @@ gate :> hub
=============================================================================
