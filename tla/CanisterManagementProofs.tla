---------------------- MODULE CanisterManagementProofs ----------------------
(***************************************************************************)
(* Proofs about CanisterManagement and the CandidPool under it, for any    *)
(* set of threads, any number of permits, any modules and any requests.    *)
(*                                                                         *)
(* NoLostWakeup is inductive, given the types.  AsReported rests on Told,  *)
(* which relates a tool call's place, the answer it holds and whether its  *)
(* last call ran; FailsOnlyByRival rests on Uploads: the hashes collected  *)
(* so far are a prefix of the module, and their chunks are in the store    *)
(* unless another call emptied it.                                         *)
(***************************************************************************)
EXTENDS CanisterManagement, FiniteSetTheorems, SequenceTheorems, TLAPS

-----------------------------------------------------------------------------
(* The pool.                                                                *)

LEMMA ManyAt ==
    ASSUME NEW p, NEW t \in Thread
    PROVE  /\ Cardinality(At(p)) \in Nat
           /\ Cardinality(At(p) \cup {t}) =
                IF t \in At(p) THEN Cardinality(At(p)) ELSE Cardinality(At(p)) + 1
           /\ Cardinality(At(p) \ {t}) =
                IF t \in At(p) THEN Cardinality(At(p)) - 1 ELSE Cardinality(At(p))
           /\ t \in At(p) => Cardinality(At(p)) > 0
<1>1. IsFiniteSet(At(p))
  BY PoolAssumption, FS_Subset DEF At
<1>2. t \in At(p) => At(p) # {}
  OBVIOUS
<1>3. Cardinality(At(p)) = 0 <=> At(p) = {}
  BY <1>1, FS_EmptySet
<1>4. Cardinality(At(p)) \in Nat
  BY <1>1, FS_CardinalityType
<1>5. Cardinality(At(p) \cup {t}) =
        IF t \in At(p) THEN Cardinality(At(p)) ELSE Cardinality(At(p)) + 1
  BY <1>1, FS_AddElement
<1>6. Cardinality(At(p) \ {t}) =
        IF t \in At(p) THEN Cardinality(At(p)) - 1 ELSE Cardinality(At(p))
  BY <1>1, FS_RemoveElement
<1> QED
  BY <1>2, <1>3, <1>4, <1>5, <1>6

LEMMA Moved ==
    ASSUME PoolTypeOK, NEW t \in Thread, NEW p \in Place, Move(t, p)
    PROVE  /\ section' \in [Thread -> Place]
           /\ \A q : At(q)' = IF q = p THEN At(q) \cup {t} ELSE At(q) \ {t}
BY DEF PoolTypeOK, Move, At

(* What a management step does to the pool.                                 *)
PoolStep(t) == Enter(t) \/ SectionStep(t) \/ WakesAlone(t)

LEMMA StepsOfPool ==
    ASSUME [Next]_vars
    PROVE  UNCHANGED poolVars \/ \E t \in Thread : PoolStep(t)
<1> USE DEF PoolStep, vars
<1>1. ASSUME NEW t \in Thread, Handler(t)
      PROVE  UNCHANGED poolVars \/ PoolStep(t)
  BY <1>1 DEF Handler, Begin, EncodeTextualArg, ManagementAgent, MgmtCall, Answered,
              FormatStatus, LoseAnswer
<1>2. ASSUME NEW t \in Thread, InSection(t) \/ Wakes(t)
      PROVE  PoolStep(t)
  BY <1>2 DEF InSection, Wakes
<1>3. ASSUME NEW t \in Thread, Execute(t) \/ Reject(t)
      PROVE  UNCHANGED poolVars
  BY <1>3 DEF Execute, Reject
<1>4. CASE Finished \/ UNCHANGED vars
  BY <1>4 DEF Finished
<1> QED
  BY <1>1, <1>2, <1>3, <1>4 DEF Next

(* Every step of the pool keeps its types and loses no wakeup: a permit      *)
(* leaves or comes back together with a thread that will use or pass it on. *)
LEMMA PoolKept ==
    ASSUME PoolTypeOK, NoLostWakeup, NEW t \in Thread, PoolStep(t)
    PROVE  PoolTypeOK' /\ NoLostWakeup'
<1> USE DEF PoolTypeOK
<1>1. t \in At(section[t]) /\ \A q : q # section[t] => t \notin At(q)
  BY DEF At
<1>2. free \in Nat /\ \A q : Cardinality(At(q)) \in Nat
  BY ManyAt
<1>3. CASE Enter(t) \/ Acquire(t) \/ WakesAlone(t) \/ Spawn(t) \/ Parse(t) \/ ReturnPermit(t)
                    \/ (Notify(t) /\ At("asleep") = {})
  <2>1. PICK p \in Place : Move(t, p)
    BY <1>3 DEF Enter, Acquire, WakesAlone, Spawn, Parse, ReturnPermit, Notify,
                Place, Waiting, Holding
  <2>2. section' \in [Thread -> Place] /\ section'[t] = p
    BY <2>1, Moved DEF Move
  <2>3. \A q : At(q)' = IF q = p THEN At(q) \cup {t} ELSE At(q) \ {t}
    BY <2>1, Moved
  <2>4. PoolTypeOK'
    BY <1>3, <2>2 DEF Enter, Acquire, WakesAlone, Spawn, Parse, ReturnPermit, Notify
  <2>5. \A q : Cardinality(At(q))' =
          IF q = p THEN IF q = section[t] THEN Cardinality(At(q)) ELSE Cardinality(At(q)) + 1
          ELSE IF q = section[t] THEN Cardinality(At(q)) - 1 ELSE Cardinality(At(q))
    BY <1>1, <2>3, ManyAt
  <2>6. Cardinality(At("woken"))' \in Nat /\ Cardinality(At("returned"))' \in Nat
    <3>1. \A q : At(q)' \in SUBSET Thread
      BY DEF At
    <3> QED
      BY <3>1, PoolAssumption, FS_Subset, FS_CardinalityType
  <2>7. At("asleep")' # {} => At("asleep") # {} \/ p = "asleep"
    BY <2>3
  <2>8. NoLostWakeup'
    <3>1. CASE Acquire(t) /\ free = 0
      BY <1>2, <2>6, <3>1 DEF Acquire, NoLostWakeup
    <3>2. CASE ~(Acquire(t) /\ free = 0)
      <4>1. p # "asleep"
        BY <1>3, <2>2, <3>2 DEF Enter, Acquire, WakesAlone, Spawn, Parse, ReturnPermit, Notify, Move
      <4>2. /\ p = "returned" => free' = free + 1 /\ section[t] = "parsed"
            /\ section[t] = "returned" => At("asleep") = {}
            /\ section[t] = "woken" => p = "taken" /\ free' = free - 1
            /\ p # "returned" => free' <= free
        BY <1>2, <1>3, <2>2, <3>2
        DEF Enter, Acquire, WakesAlone, Spawn, Parse, ReturnPermit, Notify, Move
      <4>3. /\ Cardinality(At("woken"))' =
                 IF section[t] = "woken" THEN Cardinality(At("woken")) - 1
                 ELSE IF p = "woken" THEN Cardinality(At("woken")) + 1
                 ELSE Cardinality(At("woken"))
            /\ Cardinality(At("returned"))' =
                 IF p = "returned" THEN Cardinality(At("returned")) + 1
                 ELSE IF section[t] = "returned" THEN Cardinality(At("returned")) - 1
                 ELSE Cardinality(At("returned"))
        BY <1>2, <2>5, <4>2
      <4>4. At("asleep") # {} =>
              free' <= Cardinality(At("woken"))' + Cardinality(At("returned"))'
        BY <1>2, <2>4, <4>2, <4>3 DEF NoLostWakeup
      <4> QED
        BY <2>7, <4>1, <4>4 DEF NoLostWakeup
    <3> QED
      BY <3>1, <3>2
  <2> QED
    BY <2>4, <2>8
<1>4. CASE Notify(t) /\ At("asleep") # {}
  <2>1. PICK s \in At("asleep") :
          section' = [section EXCEPT ![t] = "out", ![s] = "woken"]
    BY <1>4 DEF Notify
  <2>2. s # t /\ s \in Thread /\ section[s] = "asleep" /\ section[t] = "returned" /\ free' = free
    BY <1>4 DEF Notify, At
  <2>3. PoolTypeOK'
    BY <1>4, <2>1, <2>2 DEF Notify, Place, Waiting
  <2>4. At("woken")' = At("woken") \cup {s} /\ s \notin At("woken")
    BY <2>1, <2>2 DEF At
  <2>5. At("returned")' = At("returned") \ {t} /\ t \in At("returned")
    BY <2>1, <2>2 DEF At
  <2>6. /\ Cardinality(At("woken"))' = Cardinality(At("woken")) + 1
        /\ Cardinality(At("returned"))' = Cardinality(At("returned")) - 1
    BY <2>2, <2>4, <2>5, ManyAt
  <2> QED
    BY <1>2, <1>4, <2>2, <2>3, <2>6 DEF NoLostWakeup
<1> QED
  BY <1>3, <1>4 DEF PoolStep, SectionStep

(* However many threads parse, panic or fail to spawn, and however often     *)
(* the condvar wakes a sleeper for nothing, nobody sleeps beside a permit   *)
(* that no other thread is on the way to or about to announce (on_deep_stack *)
(* and ParsePermits of calls.rs).                                           *)
THEOREM NoWakeupIsLost == Spec => []NoLostWakeup
<1>1. Init => PoolTypeOK /\ NoLostWakeup
  BY PoolAssumption DEF Init, PoolInit, PoolTypeOK, NoLostWakeup, Place, At
<1>2. PoolTypeOK /\ NoLostWakeup /\ [Next]_vars => (PoolTypeOK /\ NoLostWakeup)'
  <2> SUFFICES ASSUME PoolTypeOK, NoLostWakeup, [Next]_vars
               PROVE  PoolTypeOK' /\ NoLostWakeup'
    OBVIOUS
  <2>1. CASE UNCHANGED poolVars
    BY <2>1 DEF poolVars, PoolTypeOK, NoLostWakeup, At
  <2> QED
    BY <2>1, StepsOfPool, PoolKept
<1> QED
  BY <1>1, <1>2, PTL DEF Spec

-----------------------------------------------------------------------------
(* Types: every tool call is at one of its steps.                           *)
Indexed == \A t \in Thread : op[t].step \in 1..LastStep(op[t].ask)
Typed   == TypeOK /\ Indexed

LEMMA LastStepType ==
    ASSUME NEW a \in Ask
    PROVE  /\ LastStep(a) \in Nat \ {0} /\ a.wasm \in Seq(Chunk)
           /\ Chunked(a) => LastStep(a) = Len(a.wasm) + 2
BY ManagementAssumption DEF Ask, LastStep, Chunked

(* The chunk of an upload is one of the module.                             *)
LEMMA ChunkType ==
    ASSUME Typed, NEW t \in Thread, Method(t) = "upload_chunk"
    PROVE  /\ Chunked(op[t].ask) /\ op[t].step > 1 /\ op[t].step < LastStep(op[t].ask)
           /\ op[t].step - 1 \in 1..Len(op[t].ask.wasm) /\ ChunkOf(t) \in Chunk
<1>1. op[t].ask \in Ask /\ op[t].step \in 1..LastStep(op[t].ask)
  BY DEF Typed, TypeOK, Indexed, Op
<1>2. op[t].ask.kind # "upload_chunk"
  BY <1>1 DEF Ask, Kind, Lifecycle
<1>3. Chunked(op[t].ask) /\ op[t].step # 1 /\ op[t].step < LastStep(op[t].ask)
  BY <1>2 DEF Method
<1>4. op[t].step - 1 \in 1..Len(op[t].ask.wasm) /\ op[t].step > 1
  BY <1>1, <1>3, LastStepType
<1> QED
  BY <1>1, <1>3, <1>4, LastStepType DEF ChunkOf

(* A handler's step to another place changes nothing else of its tool call.  *)
LEMMA GoesOnly ==
    ASSUME Typed, NEW t \in Thread, NEW pc, Goes(t, pc)
    PROVE  op' = [op EXCEPT ![t] = [pc |-> pc, ask |-> op[t].ask, step |-> op[t].step,
                                    hashes |-> op[t].hashes]]
<1>1. op[t] \in [pc : Over \cup {"new", "arg", "sign", "call", "wait", "render"},
                 ask : Ask, step : Nat, hashes : Seq(Chunk)]
  BY DEF Typed, TypeOK, Op
<1>2. [op[t] EXCEPT !.pc = pc] = [pc |-> pc, ask |-> op[t].ask, step |-> op[t].step,
                                  hashes |-> op[t].hashes]
  BY <1>1
<1>3. op' = [op EXCEPT ![t] = [op[t] EXCEPT !.pc = pc]]
  BY DEF Goes, Typed, TypeOK
<1> QED
  BY <1>2, <1>3

LEMMA Answers ==
    ASSUME Typed, NEW t \in Thread, Answered(t)
    PROVE  \/ call[t] # "ok" /\ Goes(t, "failed")
           \/ /\ call[t] = "ok" /\ op[t].step = LastStep(op[t].ask)
              /\ Goes(t, "done") \/ Goes(t, "render")
           \/ /\ call[t] = "ok" /\ op[t].step < LastStep(op[t].ask)
              /\ op' = [op EXCEPT ![t] =
                   [pc |-> "call", ask |-> op[t].ask, step |-> op[t].step + 1,
                    hashes |-> IF Method(t) = "upload_chunk"
                               THEN Append(op[t].hashes, ChunkOf(t)) ELSE op[t].hashes]]
<1>1. op[t] \in Op /\ op[t].ask \in Ask /\ op[t].step \in 1..LastStep(op[t].ask)
  BY DEF Typed, TypeOK, Indexed, Op
<1>2. LastStep(op[t].ask) \in Nat
  BY <1>1, LastStepType
<1>3. CASE call[t] # "ok"
  BY <1>3 DEF Answered
<1>4. CASE call[t] = "ok" /\ op[t].step < LastStep(op[t].ask)
  BY <1>1, <1>4 DEF Answered, Typed, TypeOK, Op
<1>5. CASE call[t] = "ok" /\ ~(op[t].step < LastStep(op[t].ask))
  BY <1>1, <1>2, <1>5 DEF Answered
<1> QED
  BY <1>3, <1>4, <1>5

LEMMA OpTypes ==
    ASSUME Typed, NEW t \in Thread, Handler(t)
    PROVE  op' \in [Thread -> Op] /\ Indexed'
<1>1. op \in [Thread -> Op] /\ op[t].ask \in Ask /\ op[t].step \in 1..LastStep(op[t].ask)
  BY DEF Typed, TypeOK, Indexed, Op
<1>2. LastStep(op[t].ask) \in Nat
  BY <1>1, LastStepType
<1>3. ASSUME NEW pc \in Over \cup {"arg", "sign", "call", "wait", "render"}, Goes(t, pc)
      PROVE  op' \in [Thread -> Op] /\ Indexed'
  <2>1. op' \in [Thread -> Op]
    BY <1>1, <1>3, GoesOnly DEF Op
  <2>2. \A u \in Thread : op'[u].step = op[u].step /\ op'[u].ask = op[u].ask
    BY <1>1, <1>3, GoesOnly
  <2> QED
    BY <2>1, <2>2 DEF Typed, Indexed
<1>4. CASE Answered(t)
  <2>1. CASE \E pc \in {"failed", "done", "render"} : Goes(t, pc)
    BY <1>3, <2>1 DEF Over
  <2>2. CASE /\ op[t].step < LastStep(op[t].ask)
             /\ op' = [op EXCEPT ![t] =
                   [pc |-> "call", ask |-> op[t].ask, step |-> op[t].step + 1,
                    hashes |-> IF Method(t) = "upload_chunk"
                               THEN Append(op[t].hashes, ChunkOf(t)) ELSE op[t].hashes]]
    <3>1. (IF Method(t) = "upload_chunk" THEN Append(op[t].hashes, ChunkOf(t))
           ELSE op[t].hashes) \in Seq(Chunk)
      BY <1>1, ChunkType DEF Op
    <3>2. op[t].step + 1 \in 1..LastStep(op[t].ask) /\ op[t].step + 1 \in Nat
      BY <1>1, <1>2, <2>2
    <3>3. op' \in [Thread -> Op]
      BY <1>1, <2>2, <3>1, <3>2 DEF Op
    <3>4. \A u \in Thread : op'[u].step = (IF u = t THEN op[t].step + 1 ELSE op[u].step)
                            /\ op'[u].ask = op[u].ask
      BY <1>1, <2>2
    <3> QED
      BY <3>2, <3>3, <3>4 DEF Typed, Indexed
  <2> QED
    BY <1>4, <2>1, <2>2, Answers
<1>5. CASE ~Answered(t)
  <2>1. \E pc \in Over \cup {"arg", "sign", "call", "wait", "render"} : Goes(t, pc)
    BY <1>5 DEF Handler, Begin, EncodeTextualArg, ManagementAgent, MgmtCall, FormatStatus,
                LoseAnswer, Over
  <2> QED
    BY <1>3, <2>1
<1> QED
  BY <1>4, <1>5

(* Running a call changes the canister within its types.                    *)
LEMMA ChainTypes ==
    ASSUME Typed, NEW t \in Thread, Execute(t)
    PROVE  /\ code' \in [Canister -> Modules \cup {<<>>}]
           /\ store' \in [Canister -> SUBSET Chunk]
           /\ life' \in [Canister -> {"running", "stopped", "deleted"}]
           /\ rival' \in [Thread -> BOOLEAN] /\ did' \in [Thread -> BOOLEAN]
<1>1. CASE VerdictOf(t) # "ok"
  BY <1>1 DEF Execute, chainVars, Typed, TypeOK
<1>2. CASE VerdictOf(t) = "ok"
  <2>1. Effect(t, Target(t)) /\ did' = [did EXCEPT ![t] = op[t].step = LastStep(op[t].ask)]
    BY <1>2 DEF Execute
  <2>2. op[t].ask \in Ask /\ op[t].ask.wasm \in Modules
    BY DEF Typed, TypeOK, Op, Ask
  <2>3. code' \in [Canister -> Modules \cup {<<>>}]
    BY <2>1, <2>2 DEF Effect, Typed, TypeOK
  <2>4. store' \in [Canister -> SUBSET Chunk]
    BY <2>1, ChunkType DEF Effect, Typed, TypeOK
  <2>5. life' \in [Canister -> {"running", "stopped", "deleted"}]
    BY <2>1 DEF Effect, Typed, TypeOK
  <2>6. rival' \in [Thread -> BOOLEAN]
    BY <2>1 DEF Effect, Typed, TypeOK
  <2>7. did' \in [Thread -> BOOLEAN]
    <3>1. (op[t].step = LastStep(op[t].ask)) \in BOOLEAN
      OBVIOUS
    <3> QED
      BY <2>1, <3>1 DEF Typed, TypeOK
  <2> QED
    BY <2>3, <2>4, <2>5, <2>6, <2>7
<1> QED
  BY <1>1, <1>2

(* What the management canister answers.                                    *)
LEMMA VerdictType ==
    ASSUME NEW t \in Thread
    PROVE  VerdictOf(t) \in Verdict
BY DEF VerdictOf, InstallVerdict, Verdict

LEMMA TypesKept ==
    ASSUME Typed, NoLostWakeup, [Next]_vars
    PROVE  Typed'
<1>1. PoolTypeOK'
  <2>1. CASE UNCHANGED poolVars
    BY <2>1 DEF poolVars, Typed, TypeOK, PoolTypeOK
  <2> QED
    BY <2>1, StepsOfPool, PoolKept DEF Typed, TypeOK
<1>2. ASSUME NEW t \in Thread, Handler(t)
      PROVE  Typed'
  <2>1. call' \in [Thread -> {"none", "sent"} \cup Verdict] /\ UNCHANGED chainVars
    BY <1>2 DEF Handler, Begin, EncodeTextualArg, ManagementAgent, MgmtCall, Answered,
                FormatStatus, LoseAnswer, Typed, TypeOK
  <2> QED
    BY <1>1, <1>2, <2>1, OpTypes DEF chainVars, Typed, TypeOK
<1>3. ASSUME NEW t \in Thread, Execute(t)
      PROVE  Typed'
  <2>1. op' = op /\ call' \in [Thread -> {"none", "sent"} \cup Verdict]
    BY <1>3, VerdictType DEF Execute, Typed, TypeOK
  <2> QED
    BY <1>1, <1>3, <2>1, ChainTypes DEF Typed, TypeOK, Indexed
<1>4. ASSUME NEW t \in Thread, Reject(t)
      PROVE  Typed'
  BY <1>1, <1>4 DEF Reject, Verdict, Typed, TypeOK, Indexed, chainVars
<1>5. CASE UNCHANGED <<opVars, chainVars>>
  BY <1>1, <1>5 DEF opVars, chainVars, Typed, TypeOK, Indexed
<1> QED
  BY <1>2, <1>3, <1>4, <1>5 DEF Next, InSection, Wakes, Finished, vars

(* The types, with the steps of every tool call, are inductive.             *)
LEMMA TypedAlways == Spec => []Typed
<1>1. Init => Typed /\ NoLostWakeup
  <2> SUFFICES ASSUME Init PROVE Typed /\ NoLostWakeup
    OBVIOUS
  <2>1. PoolTypeOK /\ NoLostWakeup
    BY PoolAssumption DEF Init, PoolInit, PoolTypeOK, NoLostWakeup, Place, At
  <2>2. UNION {Asks[t] : t \in Thread} \subseteq Ask
    BY ManagementAssumption
  <2>3. /\ op \in [Thread -> Op] /\ \A t \in Thread : op[t].step = 1
        /\ \A t \in Thread : op[t].ask \in Ask
    <3>1. \A a \in Ask : [pc |-> "new", ask |-> a, step |-> 1, hashes |-> <<>>] \in Op
      BY DEF Op
    <3>2. \A t \in Thread : \E a \in Ask :
            op[t] = [pc |-> "new", ask |-> a, step |-> 1, hashes |-> <<>>]
      BY <2>2 DEF Init
    <3>3. op = [t \in Thread |-> op[t]]
      BY DEF Init
    <3> QED
      BY <3>1, <3>2, <3>3
  <2>4. Indexed
    BY <2>3, LastStepType DEF Indexed
  <2> QED
    BY <2>1, <2>3, <2>4 DEF Init, Typed, TypeOK
<1>2. Typed /\ NoLostWakeup /\ [Next]_vars => (Typed /\ NoLostWakeup)'
  <2> SUFFICES ASSUME Typed, NoLostWakeup, [Next]_vars
               PROVE  Typed' /\ NoLostWakeup'
    OBVIOUS
  <2>1. CASE UNCHANGED poolVars
    BY <2>1, TypesKept DEF poolVars, NoLostWakeup, At
  <2> QED
    BY <2>1, StepsOfPool, PoolKept, TypesKept DEF Typed, TypeOK
<1> QED
  BY <1>1, <1>2, PTL DEF Spec

(* Every reachable state is well typed.                                     *)
THEOREM TypeCorrect == Spec => []TypeOK
BY TypedAlways, PTL DEF Typed

-----------------------------------------------------------------------------
(* What the user is told.                                                   *)

(* did says whether the last call of a tool call ran, and an answer that is *)
(* waited for tells the same; only a call that is under way, or whose answer *)
(* nobody waits for any more, can still run.                                *)
ToldBy(t) ==
    /\ op[t].pc \in {"new", "arg", "sign", "call", "refused", "failed"} => ~did[t]
    /\ op[t].pc \in {"render", "done"} => did[t]
    /\ Pc(t, "wait") => /\ call[t] # "none"
                        /\ did[t] <=> call[t] = "ok" /\ op[t].step = LastStep(op[t].ask)
    /\ call[t] = "sent" => op[t].pc \in {"wait", "lost"}
Told == \A t \in Thread : ToldBy(t)

(* A handler leaves the other tool calls, and the canisters, alone.         *)
LEMMA HandlerLeaves ==
    ASSUME Typed, NEW t \in Thread, Handler(t)
    PROVE  /\ \A u \in Thread \ {t} : op'[u] = op[u] /\ call'[u] = call[u]
           /\ UNCHANGED chainVars
BY DEF Handler, Begin, EncodeTextualArg, ManagementAgent, MgmtCall, Answered,
       FormatStatus, LoseAnswer, Goes, Typed, TypeOK

LEMMA ToldByHandler ==
    ASSUME Typed, Told, NEW t \in Thread, Handler(t)
    PROVE  ToldBy(t)'
<1> USE DEF Typed, TypeOK, Pc
<1>1. ToldBy(t) /\ did' = did /\ op[t] \in Op
  BY HandlerLeaves DEF Told, chainVars
<1>2. ASSUME NEW pc, Goes(t, pc)
      PROVE  op'[t].pc = pc /\ op'[t].step = op[t].step /\ op'[t].ask = op[t].ask
  BY <1>2, GoesOnly
<1>3. CASE Begin(t)
  <2>1. op'[t].pc \in {"refused", "arg", "sign"} /\ call' = call
    BY <1>2, <1>3 DEF Begin
  <2> QED
    BY <1>1, <1>3, <2>1 DEF Begin, ToldBy
<1>4. CASE EncodeTextualArg(t) \/ ManagementAgent(t)
  <2>1. op'[t].pc \in {"refused", "sign", "panicked", "call"} /\ call' = call
    BY <1>2, <1>4 DEF EncodeTextualArg, ManagementAgent
  <2> QED
    BY <1>1, <1>4, <2>1 DEF EncodeTextualArg, ManagementAgent, ToldBy
<1>5. CASE MgmtCall(t)
  BY <1>1, <1>2, <1>5 DEF MgmtCall, ToldBy
<1>6. CASE Answered(t)
  <2>1. call' = call /\ Pc(t, "wait") /\ call[t] \in Verdict /\ "sent" \notin Verdict
    BY <1>6 DEF Answered, Verdict
  <2>2. CASE call[t] # "ok" /\ Goes(t, "failed")
    BY <1>1, <1>2, <2>1, <2>2 DEF ToldBy
  <2>3. CASE /\ call[t] = "ok" /\ op[t].step = LastStep(op[t].ask)
             /\ Goes(t, "done") \/ Goes(t, "render")
    <3>1. op'[t].pc \in {"done", "render"}
      BY <1>2, <2>3
    <3> QED
      BY <1>1, <2>1, <2>3, <3>1 DEF ToldBy
  <2>4. CASE call[t] = "ok" /\ op[t].step < LastStep(op[t].ask) /\ op'[t].pc = "call"
    <3>1. op[t].step # LastStep(op[t].ask)
      BY <1>1, <2>4, LastStepType DEF Op
    <3> QED
      BY <1>1, <2>1, <2>4, <3>1 DEF ToldBy
  <2> QED
    BY <1>6, <2>2, <2>3, <2>4, Answers
<1>7. CASE FormatStatus(t)
  <2>1. op'[t].pc \in {"panicked", "done"} /\ call' = call
    BY <1>2, <1>7 DEF FormatStatus
  <2> QED
    BY <1>1, <1>7, <2>1 DEF FormatStatus, ToldBy
<1>8. CASE LoseAnswer(t)
  BY <1>1, <1>2, <1>8 DEF LoseAnswer, ToldBy
<1> QED
  BY <1>3, <1>4, <1>5, <1>6, <1>7, <1>8 DEF Handler

LEMMA ToldKept ==
    ASSUME Typed, Told, [Next]_vars
    PROVE  Told'
<1> USE DEF Typed, TypeOK, Pc
<1>1. ASSUME NEW t \in Thread, Handler(t)
      PROVE  Told'
  <2>1. ASSUME NEW u \in Thread \ {t}
        PROVE  ToldBy(u)'
    BY <1>1, <2>1, HandlerLeaves DEF Told, ToldBy, chainVars
  <2> QED
    BY <1>1, <2>1, ToldByHandler DEF Told
<1>2. ASSUME NEW t \in Thread, Execute(t)
      PROVE  Told'
  <2>1. call[t] = "sent" /\ op' = op /\ call' = [call EXCEPT ![t] = VerdictOf(t)]
    BY <1>2 DEF Execute
  <2>2. ToldBy(t) /\ VerdictOf(t) \in Verdict
    BY VerdictType DEF Told
  <2>3. CASE VerdictOf(t) = "ok"
    <3>1. did' = [did EXCEPT ![t] = op[t].step = LastStep(op[t].ask)]
      BY <1>2, <2>3 DEF Execute
    <3>2. ToldBy(t)'
      BY <2>1, <2>2, <2>3, <3>1 DEF ToldBy
    <3>3. \A u \in Thread \ {t} : ToldBy(u)'
      BY <2>1, <3>1 DEF Told, ToldBy
    <3> QED
      BY <3>2, <3>3 DEF Told
  <2>4. CASE VerdictOf(t) # "ok"
    <3>1. did' = did
      BY <1>2, <2>4 DEF Execute, chainVars
    <3>2. ToldBy(t)'
      BY <2>1, <2>2, <2>4, <3>1 DEF ToldBy, Verdict
    <3>3. \A u \in Thread \ {t} : ToldBy(u)'
      BY <2>1, <3>1 DEF Told, ToldBy
    <3> QED
      BY <3>2, <3>3 DEF Told
  <2> QED
    BY <2>3, <2>4
<1>3. ASSUME NEW t \in Thread, Reject(t)
      PROVE  Told'
  <2>1. ToldBy(t)'
    BY <1>3 DEF Reject, chainVars, Told, ToldBy
  <2>2. \A u \in Thread \ {t} : ToldBy(u)'
    BY <1>3 DEF Reject, chainVars, Told, ToldBy
  <2> QED
    BY <2>1, <2>2 DEF Told
<1>4. CASE UNCHANGED <<opVars, chainVars>>
  BY <1>4 DEF opVars, chainVars, Told, ToldBy
<1> QED
  BY <1>1, <1>2, <1>3, <1>4 DEF Next, InSection, Wakes, Finished, vars

(* What the user is told is what happened: a tool that reports success has   *)
(* had its last call run, and one that reports an error has not, unless the *)
(* answer was lost (mgmt_call and the lifecycle tools of management.rs).    *)
THEOREM ReportedTruly == Spec => []AsReported
<1>1. Init => Told
  BY DEF Init, Told, ToldBy, Pc
<1>2. Typed /\ Told /\ [Next]_vars => Told'
  BY ToldKept
<1>3. Told => AsReported
  BY DEF Told, ToldBy, AsReported, Pc
<1>4. Spec => []Typed
  BY TypedAlways
<1> QED
  BY <1>1, <1>2, <1>3, <1>4, PTL DEF Spec

-----------------------------------------------------------------------------
(* The chunk store.                                                         *)

(* The hashes a chunked install has collected are those of the first chunks *)
(* of its module, which the store holds unless another call emptied it; the *)
(* same is true of the chunk whose upload has just been answered.           *)
UploadedBy(t) ==
    Chunked(op[t].ask) =>
        /\ Len(op[t].hashes) = IF op[t].step = 1 THEN 0 ELSE op[t].step - 2
        /\ \A n \in 1..Len(op[t].hashes) :
              /\ op[t].hashes[n] = op[t].ask.wasm[n]
              /\ rival[t] \/ op[t].hashes[n] \in store[Target(t)]
        /\ Pc(t, "wait") /\ call[t] = "ok" /\ Method(t) = "upload_chunk"
              => rival[t] \/ ChunkOf(t) \in store[Target(t)]
Verdicts(t) == call[t] # "mismatch" /\ (call[t] = "missing" => rival[t])
Uploads == \A t \in Thread : UploadedBy(t) /\ Verdicts(t)

LEMMA MethodOfChunked ==
    ASSUME Typed, NEW t \in Thread, Chunked(op[t].ask)
    PROVE  \/ Method(t) = "clear_chunk_store" /\ op[t].step = 1
           \/ Method(t) = "upload_chunk" /\ op[t].step > 1 /\ op[t].step < LastStep(op[t].ask)
           \/ /\ Method(t) = "install_chunked_code"
              /\ op[t].step = Len(op[t].ask.wasm) + 2 /\ op[t].step # 1
<1>1. op[t].ask \in Ask /\ op[t].step \in 1..LastStep(op[t].ask)
  BY DEF Typed, TypeOK, Indexed, Op
<1>2. LastStep(op[t].ask) = Len(op[t].ask.wasm) + 2 /\ Len(op[t].ask.wasm) \in Nat
  BY <1>1, LastStepType
<1> QED
  BY <1>1, <1>2 DEF Method

(* The list of hashes is the module when it is installed.                   *)
LEMMA WholeModule ==
    ASSUME Typed, NEW t \in Thread, UploadedBy(t), Chunked(op[t].ask),
           Method(t) = "install_chunked_code"
    PROVE  op[t].hashes = op[t].ask.wasm
<1>1. op[t].hashes \in Seq(Chunk) /\ op[t].ask \in Ask
  BY DEF Typed, TypeOK, Op
<1>2. op[t].ask.wasm \in Seq(Chunk)
  BY <1>1, LastStepType
<1>3. Len(op[t].hashes) = Len(op[t].ask.wasm)
  BY <1>2, MethodOfChunked DEF UploadedBy
<1>4. \A n \in 1..Len(op[t].hashes) : op[t].hashes[n] = op[t].ask.wasm[n]
  BY DEF UploadedBy
<1> QED
  BY <1>1, <1>2, <1>3, <1>4, SeqEqual

LEMMA UploadsByHandler ==
    ASSUME Typed, Uploads, NEW t \in Thread, Handler(t)
    PROVE  UploadedBy(t)' /\ Verdicts(t)'
<1> USE DEF Pc, Target
<1>1. /\ UploadedBy(t) /\ Verdicts(t) /\ rival' = rival /\ store' = store
      /\ op[t].hashes \in Seq(Chunk) /\ op[t].ask \in Ask
      /\ op[t].step \in 1..LastStep(op[t].ask)
  BY HandlerLeaves DEF Uploads, chainVars, Typed, TypeOK, Op, Indexed
<1>2. Verdicts(t)'
  BY <1>1 DEF Handler, Begin, EncodeTextualArg, ManagementAgent, MgmtCall, Answered,
              FormatStatus, LoseAnswer, Verdicts, Typed, TypeOK
<1>3. ASSUME NEW pc, Goes(t, pc), pc = "wait" => call'[t] = "sent"
      PROVE  UploadedBy(t)'
  <2>1. /\ op'[t].hashes = op[t].hashes /\ op'[t].ask = op[t].ask
        /\ op'[t].step = op[t].step /\ op'[t].pc = pc
    BY <1>3, GoesOnly DEF Typed, TypeOK
  <2> QED
    BY <1>1, <1>3, <2>1 DEF UploadedBy
<1>4. CASE /\ call[t] = "ok" /\ op[t].step < LastStep(op[t].ask)
           /\ op' = [op EXCEPT ![t] =
                   [pc |-> "call", ask |-> op[t].ask, step |-> op[t].step + 1,
                    hashes |-> IF Method(t) = "upload_chunk"
                               THEN Append(op[t].hashes, ChunkOf(t)) ELSE op[t].hashes]]
           /\ Pc(t, "wait")
  <2>1. /\ op'[t].pc = "call" /\ op'[t].ask = op[t].ask /\ op'[t].step = op[t].step + 1
        /\ op'[t].hashes = IF Method(t) = "upload_chunk"
                           THEN Append(op[t].hashes, ChunkOf(t)) ELSE op[t].hashes
    BY <1>4 DEF Typed, TypeOK
  <2> SUFFICES ASSUME Chunked(op[t].ask) PROVE UploadedBy(t)'
    BY <1>2, <2>1 DEF UploadedBy
  <2>2. CASE Method(t) = "clear_chunk_store"
    <3>1. op[t].step = 1 /\ op'[t].step = 2 /\ op'[t].hashes = op[t].hashes
      BY <2>1, <2>2, MethodOfChunked
    <3>2. Len(op'[t].hashes) = 0
      BY <1>1, <3>1 DEF UploadedBy
    <3> QED
      BY <2>1, <3>1, <3>2 DEF UploadedBy
  <2>3. CASE Method(t) = "upload_chunk"
    <3> DEFINE h == op[t].hashes
               k == op[t].step - 1
    <3>1. /\ op[t].step > 1 /\ ChunkOf(t) = op[t].ask.wasm[k] /\ ChunkOf(t) \in Chunk
          /\ rival[t] \/ ChunkOf(t) \in store[Target(t)]
      BY <1>1, <1>4, <2>3, ChunkType DEF UploadedBy, ChunkOf
    <3>2. Len(h) + 1 = k /\ Len(h) \in Nat
      BY <1>1, <3>1 DEF UploadedBy
    <3>3. Len(Append(h, ChunkOf(t))) = k /\ op'[t].step - 2 = k /\ op'[t].step # 1
      BY <1>1, <2>1, <3>1, <3>2
    <3>4. ASSUME NEW n \in 1..k
          PROVE  Append(h, ChunkOf(t))[n] = IF n = k THEN op[t].ask.wasm[k] ELSE h[n]
      BY <1>1, <3>1, <3>2
    <3>5. \A n \in 1..k : n = k \/ n \in 1..Len(h)
      BY <3>2
    <3> QED
      BY <1>1, <2>1, <2>3, <3>1, <3>3, <3>4, <3>5 DEF UploadedBy
  <2>4. CASE Method(t) = "install_chunked_code"
    BY <1>1, <1>4, <2>4, MethodOfChunked, LastStepType
  <2> QED
    BY <2>2, <2>3, <2>4, MethodOfChunked
<1>5. CASE Answered(t)
  <2>1. Pc(t, "wait")
    BY <1>5 DEF Answered
  <2>2. CASE \E pc \in {"failed", "done", "render"} : Goes(t, pc)
    BY <1>2, <1>3, <2>2
  <2> QED
    BY <1>4, <1>5, <2>1, <2>2, Answers
<1>6. CASE ~Answered(t)
  <2>1. \E pc \in Over \cup {"arg", "sign", "call", "wait", "render"} :
          Goes(t, pc) /\ (pc = "wait" => call'[t] = "sent")
    <3>1. CASE MgmtCall(t)
      BY <3>1 DEF MgmtCall, Typed, TypeOK
    <3>2. CASE ~MgmtCall(t)
      BY <1>6, <3>2 DEF Handler, Begin, EncodeTextualArg, ManagementAgent, FormatStatus,
                        LoseAnswer, Over
    <3> QED
      BY <3>1, <3>2
  <2> QED
    BY <1>2, <1>3, <2>1
<1> QED
  BY <1>5, <1>6

(* An install is told "mismatch" never, and "missing" only after a rival.   *)
LEMMA VerdictOfInstall ==
    ASSUME Typed, Uploads, NEW t \in Thread
    PROVE  VerdictOf(t) # "mismatch" /\ (VerdictOf(t) = "missing" => rival[t])
<1>1. UploadedBy(t)
  BY DEF Uploads
<1>2. CASE VerdictOf(t) # InstallVerdict(t)
  BY <1>2 DEF VerdictOf
<1>3. CASE ~Chunked(op[t].ask)
  BY <1>2, <1>3 DEF InstallVerdict
<1>4. CASE Chunked(op[t].ask) /\ Method(t) # "install_chunked_code"
  BY <1>4, MethodOfChunked DEF VerdictOf
<1>5. CASE Chunked(op[t].ask) /\ Method(t) = "install_chunked_code"
  <2> DEFINE h == op[t].hashes
  <2>1. h = op[t].ask.wasm
    BY <1>1, <1>5, WholeModule
  <2>2. h \in Seq(Chunk) /\ DOMAIN h = 1..Len(h)
    BY DEF Typed, TypeOK, Op
  <2>3. rival[t] \/ {h[i] : i \in DOMAIN h} \subseteq store[op[t].ask.canister]
    BY <1>1, <1>5, <2>2 DEF UploadedBy, Target
  <2> QED
    BY <1>5, <2>1, <2>3 DEF VerdictOf, InstallVerdict
<1> QED
  BY <1>2, <1>3, <1>4, <1>5

(* A call that runs empties the store of other installs only as their rival. *)
LEMMA UploadsByCall ==
    ASSUME Typed, Uploads, NEW t \in Thread, Execute(t)
    PROVE  Uploads'
<1> USE DEF Pc, Target
<1>1. /\ op' = op /\ call' = [call EXCEPT ![t] = VerdictOf(t)] /\ VerdictOf(t) \in Verdict
      /\ call \in [Thread -> {"none", "sent"} \cup Verdict]
  BY VerdictType DEF Execute, Typed, TypeOK
<1>2. \A u \in Thread : op[u].ask.canister \in Canister
  BY DEF Typed, TypeOK, Op, Ask
<1>3. CASE VerdictOf(t) # "ok"
  <2>1. rival' = rival /\ store' = store
    BY <1>3 DEF Execute, chainVars
  <2>2. \A u \in Thread : Verdicts(u)'
    BY <1>1, <2>1, VerdictOfInstall DEF Uploads, Verdicts
  <2>3. ASSUME NEW u \in Thread
        PROVE  UploadedBy(u)'
    <3>1. UploadedBy(u) /\ (call'[u] = "ok" => call[u] = "ok")
      BY <1>1, <1>3 DEF Uploads
    <3> QED
      BY <1>1, <2>1, <3>1 DEF UploadedBy, Method, ChunkOf
  <2> QED
    BY <2>2, <2>3 DEF Uploads
<1>4. CASE VerdictOf(t) = "ok"
  <2> DEFINE c == op[t].ask.canister
             cleared == Method(t) \in {"clear_chunk_store", "delete_canister"}
  <2>1. /\ store' = [store EXCEPT ![c] = IF cleared THEN {}
                        ELSE IF Method(t) = "upload_chunk" THEN @ \cup {ChunkOf(t)} ELSE @]
        /\ rival' = [u \in Thread |->
                        IF ~cleared \/ op[u].ask.canister # c THEN rival[u] ELSE u # t]
    BY <1>4 DEF Execute, Effect
  <2>2. \A u \in Thread : Verdicts(u)'
    <3>1. Verdicts(t)'
      BY <1>1, <1>4 DEF Verdicts
    <3>2. ASSUME NEW u \in Thread \ {t}
          PROVE  Verdicts(u)'
      <4>1. Verdicts(u) /\ call'[u] = call[u] /\ (rival[u] => rival'[u])
        BY <1>1, <2>1 DEF Uploads
      <4> QED
        BY <4>1 DEF Verdicts
    <3> QED
      BY <3>1, <3>2
  <2>3. ASSUME NEW u \in Thread \ {t}
        PROVE  UploadedBy(u)'
    <3>1. UploadedBy(u) /\ call'[u] = call[u]
      BY <1>1 DEF Uploads
    <3>2. \A x : rival[u] \/ x \in store[op[u].ask.canister]
                  => rival'[u] \/ x \in store'[op[u].ask.canister]
      BY <1>2, <2>1 DEF Typed, TypeOK
    <3> QED
      BY <1>1, <3>1, <3>2 DEF UploadedBy, Method, ChunkOf
  <2>4. UploadedBy(t)'
    <3> SUFFICES ASSUME Chunked(op[t].ask) PROVE UploadedBy(t)'
      BY <1>1 DEF UploadedBy
    <3>1. UploadedBy(t)
      BY DEF Uploads
    <3>2. Method(t)' = Method(t) /\ ChunkOf(t)' = ChunkOf(t)
      BY <1>1 DEF Method, ChunkOf
    <3>3. CASE Method(t) = "clear_chunk_store"
      <4>1. op[t].step = 1 /\ Len(op[t].hashes) = 0
        BY <3>1, <3>3, MethodOfChunked DEF UploadedBy
      <4> QED
        BY <1>1, <3>2, <3>3, <4>1 DEF UploadedBy
    <3>4. CASE Method(t) \in {"upload_chunk", "install_chunked_code"}
      <4>1. /\ rival'[t] = rival[t]
            /\ \A x : x \in store[c] => x \in store'[c]
            /\ Method(t) = "upload_chunk" => ChunkOf(t) \in store'[c]
        BY <1>2, <2>1, <3>4 DEF Typed, TypeOK
      <4> QED
        BY <1>1, <3>1, <3>2, <4>1 DEF UploadedBy
    <3> QED
      BY <3>3, <3>4, MethodOfChunked
  <2> QED
    BY <2>2, <2>3, <2>4 DEF Uploads
<1> QED
  BY <1>3, <1>4

LEMMA UploadsKept ==
    ASSUME Typed, Uploads, [Next]_vars
    PROVE  Uploads'
<1> USE DEF Pc, Target
<1>1. ASSUME NEW t \in Thread, Handler(t)
      PROVE  Uploads'
  <2>1. UNCHANGED <<store, rival>>
    BY <1>1, HandlerLeaves DEF chainVars
  <2>2. ASSUME NEW u \in Thread \ {t}
        PROVE  UploadedBy(u)' /\ Verdicts(u)'
    <3>1. op'[u] = op[u] /\ call'[u] = call[u] /\ UploadedBy(u) /\ Verdicts(u)
      BY <1>1, HandlerLeaves DEF Uploads
    <3> QED
      BY <2>1, <3>1 DEF UploadedBy, Verdicts, Method, ChunkOf
  <2> QED
    BY <1>1, <2>2, UploadsByHandler DEF Uploads
<1>2. ASSUME NEW t \in Thread, Reject(t)
      PROVE  Uploads'
  <2>1. UNCHANGED <<op, store, rival>> /\ call' = [call EXCEPT ![t] = "rejected"]
    BY <1>2 DEF Reject, chainVars
  <2>2. \A u \in Thread : call'[u] = call[u] \/ call'[u] = "rejected"
    BY <2>1 DEF Typed, TypeOK
  <2>3. ASSUME NEW u \in Thread
        PROVE  UploadedBy(u)' /\ Verdicts(u)'
    BY <2>1, <2>2 DEF Uploads, UploadedBy, Verdicts, Method, ChunkOf
  <2> QED
    BY <2>3 DEF Uploads
<1>3. CASE UNCHANGED <<opVars, chainVars>>
  BY <1>3 DEF opVars, chainVars, Uploads, UploadedBy, Verdicts, Method, ChunkOf
<1> QED
  BY <1>1, <1>2, <1>3, UploadsByCall DEF Next, InSection, Wakes, Finished, vars

(* A chunked install never fails for its own doing: its list of hashes is   *)
(* the module, and a chunk is missing only when another tool call emptied   *)
(* the chunk store after it did (install_chunked of management.rs).         *)
THEOREM FailsOnlyByRivals == Spec => []FailsOnlyByRival
<1>1. Init => Uploads
  <2> SUFFICES ASSUME Init PROVE Uploads
    OBVIOUS
  <2>1. \A t \in Thread : /\ op[t].pc = "new" /\ op[t].step = 1 /\ op[t].hashes = <<>>
                          /\ call[t] = "none"
    BY DEF Init
  <2> QED
    BY <2>1 DEF Uploads, UploadedBy, Verdicts, Pc
<1>2. Typed /\ Uploads /\ [Next]_vars => Uploads'
  BY UploadsKept
<1>3. Uploads => FailsOnlyByRival
  BY DEF Uploads, Verdicts, FailsOnlyByRival
<1>4. Spec => []Typed
  BY TypedAlways
<1> QED
  BY <1>1, <1>2, <1>3, <1>4, PTL DEF Spec
=============================================================================
