------------------------- MODULE CanisterManagement -------------------------
(***************************************************************************)
(* The canister lifecycle tools of                                         *)
(* src/crates/imcp2-core/src/management.rs: install_code, single-shot or   *)
(* through the chunk store, and the calls without a payload.  A tool       *)
(* refuses, or parses the Candid argument on a deep stack (CandidPool),    *)
(* derives the management identity and makes its calls one after another.  *)
(* A call may be rejected, and its answer may be lost or come too late:    *)
(* the tool then reports an error, and the call may still run.             *)
(*                                                                         *)
(* The management canister is outside this repository: its methods do what *)
(* the tools' descriptions and the code say of them, and a chunk's hash is *)
(* the chunk.                                                              *)
(***************************************************************************)
EXTENDS CandidPool, Sequences

CONSTANTS
    Canister, Chunk,
    Asks,        \* Asks[t]: what the tool call of thread t may be asked
    SingleShot,  \* MAX_SINGLE_SHOT_WASM, in chunks
    Modules      \* the Wasm modules, as sequences of chunks

Lifecycle == {"start_canister", "stop_canister", "uninstall_code", "delete_canister"}
Kind      == Lifecycle \cup {"install", "status", "settings", "balance"}
Mode      == {"install", "reinstall", "upgrade"}
Ask       == [kind : Kind, canister : Canister, mode : Mode, wasm : Modules]

ASSUME ManagementAssumption ==
    /\ Modules \subseteq Seq(Chunk) \ {<<>>}
    /\ Asks \in [Thread -> SUBSET Ask]
    /\ SingleShot \in Nat

VARIABLES
    op,     \* the tool call of each thread
    call,   \* its call to the management canister
    code,   \* management canister: the installed module, <<>> when empty
    store,  \* management canister: the chunk store of each canister
    life,   \* management canister: running, stopped or deleted
    rival,  \* history: another call emptied the chunk store since this one did
    did     \* history: the last call of this tool call ran

opVars    == <<op, call>>
chainVars == <<code, store, life, rival, did>>
vars      == <<poolVars, opVars, chainVars>>

Over    == {"done", "refused", "failed", "lost", "panicked"}
Op      == [pc : Over \cup {"new", "arg", "sign", "call", "wait", "render"},
            ask : Ask, step : Nat, hashes : Seq(Chunk)]
Verdict == {"ok", "rejected", "missing", "mismatch"}

TypeOK ==
    /\ PoolTypeOK
    /\ op \in [Thread -> Op]
    /\ call \in [Thread -> {"none", "sent"} \cup Verdict]
    /\ code \in [Canister -> Modules \cup {<<>>}]
    /\ store \in [Canister -> SUBSET Chunk]
    /\ life \in [Canister -> {"running", "stopped", "deleted"}]
    /\ rival \in [Thread -> BOOLEAN] /\ did \in [Thread -> BOOLEAN]

Init ==
    /\ PoolInit
    /\ op \in [Thread -> {[pc |-> "new", ask |-> a, step |-> 1, hashes |-> <<>>] :
                             a \in UNION {Asks[t] : t \in Thread}}]
    /\ \A t \in Thread : op[t].ask \in Asks[t]
    /\ call = [t \in Thread |-> "none"]
    /\ code = [c \in Canister |-> <<>>]
    /\ store = [c \in Canister |-> {}]
    /\ life = [c \in Canister |-> "running"]
    /\ rival = [t \in Thread |-> FALSE] /\ did = [t \in Thread |-> FALSE]

Pc(t, pc) == op[t].pc = pc
Goes(t, pc) == op' = [op EXCEPT ![t].pc = pc]
Target(t)  == op[t].ask.canister

-----------------------------------------------------------------------------
(* The calls of one tool call, in order. *)
Chunked(a) == a.kind = "install" /\ Len(a.wasm) > SingleShot

(* Mutant of LastStep: a last chunk that is not full is left out. *)
FullChunksOnly(a) == IF Chunked(a) THEN Len(a.wasm) + 1 ELSE 1

LastStep(a) == IF Chunked(a) THEN Len(a.wasm) + 2 ELSE 1

Method(t) ==
    LET a == op[t].ask
    IN IF Chunked(a)
       THEN IF op[t].step = 1 THEN "clear_chunk_store"
            ELSE IF op[t].step < LastStep(a) THEN "upload_chunk" ELSE "install_chunked_code"
       ELSE IF a.kind = "install" THEN "install_code" ELSE a.kind

(* The chunk that upload_chunk sends at this step. *)
ChunkOf(t) == op[t].ask.wasm[op[t].step - 1]

(* The arguments are refused, or the session may only read; an install has  *)
(* its Candid argument to parse.                                            *)
Begin(t) ==
    /\ Pc(t, "new")
    /\ \/ Goes(t, "refused") /\ UNCHANGED poolVars
       \/ IF op[t].ask.kind = "install"
          THEN Goes(t, "arg") /\ Enter(t)
          ELSE Goes(t, "sign") /\ UNCHANGED poolVars
    /\ UNCHANGED <<call, chainVars>>

(* The section is over: a value the parser accepts or refuses, no thread to  *)
(* parse on, or a panic that ends the handler.                               *)
EncodeTextualArg(t) ==
    /\ Pc(t, "arg") /\ section[t] = "out"
    /\ \/ parsed[t] = "value" /\ (Goes(t, "sign") \/ Goes(t, "refused"))
       \/ parsed[t] = "none" /\ Goes(t, "refused")
       \/ parsed[t] = "panic" /\ Goes(t, "panicked")
    /\ UNCHANGED <<poolVars, call, chainVars>>

ManagementAgent(t) ==
    /\ Pc(t, "sign")
    /\ Goes(t, "call") \/ Goes(t, "refused")
    /\ UNCHANGED <<poolVars, call, chainVars>>

MgmtCall(t) ==
    /\ Pc(t, "call") /\ Goes(t, "wait")
    /\ call' = [call EXCEPT ![t] = "sent"]
    /\ UNCHANGED <<poolVars, chainVars>>

(* Mutant of Answered: the error of a call is dropped. *)
AnsweredAnyhow(t) ==
    /\ Pc(t, "wait") /\ call[t] \in Verdict
    /\ IF op[t].step < LastStep(op[t].ask)
       THEN op' = [op EXCEPT ![t].pc = "call", ![t].step = @ + 1]
       ELSE Goes(t, "done")
    /\ UNCHANGED <<poolVars, call, chainVars>>

(* The answer: the next call, the reply, or the error. *)
Answered(t) ==
    /\ Pc(t, "wait") /\ call[t] \in Verdict
    /\ IF call[t] # "ok" THEN Goes(t, "failed") /\ UNCHANGED poolVars
       ELSE IF op[t].step < LastStep(op[t].ask)
       THEN /\ op' = [op EXCEPT ![t].pc = "call", ![t].step = @ + 1,
                                ![t].hashes = IF Method(t) = "upload_chunk"
                                              THEN Append(@, ChunkOf(t)) ELSE @]
            /\ UNCHANGED poolVars
       ELSE \/ Goes(t, "done") /\ UNCHANGED poolVars
            \/ op[t].ask.kind = "status" /\ Goes(t, "render") /\ Enter(t)
    /\ UNCHANGED <<call, chainVars>>

(* A status reply the typed decoder does not know is printed type-less, on a *)
(* deep stack.                                                               *)
FormatStatus(t) ==
    /\ Pc(t, "render") /\ section[t] = "out"
    /\ Goes(t, IF parsed[t] = "panic" THEN "panicked" ELSE "done")
    /\ UNCHANGED <<poolVars, call, chainVars>>

(* The agent gives up, or the client leaves; the call may still run. *)
LoseAnswer(t) ==
    /\ Pc(t, "wait") /\ Goes(t, "lost")
    /\ UNCHANGED <<poolVars, call, chainVars>>

-----------------------------------------------------------------------------
(* The management canister runs a call. *)
Fits(mode, c) ==
    CASE mode = "install" -> code[c] = <<>>
      [] mode = "upgrade" -> code[c] # <<>>
      [] OTHER -> TRUE

InstallVerdict(t) ==
    LET a == op[t].ask
        asked == IF Chunked(a) THEN op[t].hashes ELSE a.wasm
    IN IF Chunked(a) /\ ~({asked[i] : i \in DOMAIN asked} \subseteq store[a.canister])
       THEN "missing"
       ELSE IF asked # a.wasm THEN "mismatch"
       ELSE IF Fits(a.mode, a.canister) THEN "ok" ELSE "rejected"

VerdictOf(t) ==
    IF life[Target(t)] = "deleted" /\ op[t].ask.kind # "balance" THEN "rejected"
    ELSE CASE Method(t) \in {"install_code", "install_chunked_code"} -> InstallVerdict(t)
           [] Method(t) = "delete_canister" ->
                IF life[Target(t)] = "stopped" THEN "ok" ELSE "rejected"
           [] OTHER -> "ok"

Effect(t, c) ==
    LET m == Method(t)
        cleared == m \in {"clear_chunk_store", "delete_canister"}
    IN /\ code' = [code EXCEPT ![c] =
                     CASE m \in {"install_code", "install_chunked_code"} -> op[t].ask.wasm
                       [] m \in {"uninstall_code", "delete_canister"} -> <<>>
                       [] OTHER -> @]
       /\ store' = [store EXCEPT ![c] =
                      IF cleared THEN {} ELSE IF m = "upload_chunk" THEN @ \cup {ChunkOf(t)} ELSE @]
       /\ life' = [life EXCEPT ![c] =
                     CASE m = "start_canister" -> "running"
                       [] m = "stop_canister" -> "stopped"
                       [] m = "delete_canister" -> "deleted"
                       [] OTHER -> @]
       /\ rival' = [u \in Thread |->
                      IF ~cleared \/ Target(u) # c THEN rival[u] ELSE u # t]

Execute(t) ==
    /\ call[t] = "sent"
    /\ call' = [call EXCEPT ![t] = VerdictOf(t)]
    /\ IF VerdictOf(t) = "ok"
       THEN /\ Effect(t, Target(t))
            /\ did' = [did EXCEPT ![t] = op[t].step = LastStep(op[t].ask)]
       ELSE UNCHANGED chainVars
    /\ UNCHANGED <<poolVars, op>>

(* The caller is no controller, or the network refuses the call. *)
Reject(t) ==
    /\ call[t] = "sent"
    /\ call' = [call EXCEPT ![t] = "rejected"]
    /\ UNCHANGED <<poolVars, op, chainVars>>

-----------------------------------------------------------------------------
Handler(t) ==
    \/ Begin(t) \/ EncodeTextualArg(t) \/ ManagementAgent(t)
    \/ MgmtCall(t) \/ Answered(t) \/ FormatStatus(t) \/ LoseAnswer(t)

InSection(t) == SectionStep(t) /\ UNCHANGED <<opVars, chainVars>>

Wakes(t) == WakesAlone(t) /\ UNCHANGED <<opVars, chainVars>>

Finished == (\A t \in Thread : op[t].pc \in Over) /\ UNCHANGED vars

Next ==
    \/ \E t \in Thread :
         Handler(t) \/ InSection(t) \/ Wakes(t) \/ Execute(t) \/ Reject(t)
    \/ Finished

(* A handler is polled, a thread is scheduled, and the agent gives up on a  *)
(* call that is not answered.                                               *)
Spec == Init /\ [][Next]_vars
             /\ \A t \in Thread : WF_vars(Handler(t)) /\ WF_vars(InSection(t))

-----------------------------------------------------------------------------
(* What the user is told is what happened: "Installed", "Stopped" and the   *)
(* like only when the call ran, and an error without one only when nothing  *)
(* of it did, unless the answer was lost.                                   *)
AsReported ==
    \A t \in Thread :
        /\ Pc(t, "done") => did[t]
        /\ op[t].pc \in {"refused", "failed"} => ~did[t]

(* A chunked install never fails for its own doing: the list of hashes is   *)
(* the module, and a chunk is missing only when another tool call emptied   *)
(* the canister's chunk store in the meantime ("start from a clean store"). *)
FailsOnlyByRival ==
    \A t \in Thread :
        /\ call[t] # "mismatch"
        /\ call[t] = "missing" => rival[t]

(* Every tool call ends, however many parse at once and however parses end. *)
OpsEnd == \A t \in Thread : <>(op[t].pc \in Over)
=============================================================================
