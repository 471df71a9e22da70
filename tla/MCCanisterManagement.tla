------------------------ MODULE MCCanisterManagement ------------------------
EXTENDS CanisterManagement, TLC

CONSTANTS t1, t2, t3, c, x, y, z

Install(mode, wasm) == [kind |-> "install", canister |-> c, mode |-> mode, wasm |-> wasm]
Plain(kind) == [kind |-> kind, canister |-> c, mode |-> "install", wasm |-> <<z>>]

MCModules == {<<x, y>>, <<x, z>>, <<z>>}

(* Two installs of the same canister, one of them small or large, and a     *)
(* third tool call that may get between them.                               *)
MCAsks ==
    t1 :> {Install("install", <<x, y>>)}
    @@ t2 :> {Install("reinstall", <<x, z>>), Install("upgrade", <<z>>), Plain("stop_canister")}
    @@ t3 :> {Plain(k) : k \in {"start_canister", "uninstall_code", "delete_canister", "status"}}
=============================================================================
