-------------------------- MODULE LifecycleProofs ---------------------------
(***************************************************************************)
(* The accounting of hooks and the order of shutdown, for any number of    *)
(* requests and any list of plugins.  A step of a request changes one call *)
(* and one request record: StepOf says so, Fits says what the new records  *)
(* must satisfy, and one lemma shows that LifecycleInv then holds again.   *)
(***************************************************************************)
EXTENDS Lifecycle, FiniteSetTheorems, TLAPS

CallRecords ==
    [pc : {"off", "entry", "instance", "run", "teardown", "returned", "panic"},
     ctx : {"live", "timeout", "canceled"}, res : Results \cup {"none"}]
RequestRecords ==
    [pc : {"idle", "engine", "done"} \cup Hooks, kind : Kinds, gone : BOOLEAN,
     trace : {"none", "pending", "exported", "lost"},
     record : {"none", "pending", "counted", "saved", "missed"}]

StepOf(r, h, q) ==
    /\ h \in CallRecords /\ q \in RequestRecords
    /\ hook' = [hook EXCEPT ![r] = h]
    /\ rq' = [rq EXCEPT ![r] = q]
    /\ UNCHANGED <<compiled, main, next, tracing, drained>>

\* The new call agrees with the new request.
FitsCall(h, q) ==
    /\ (h.pc # "off") <=> (q.pc \in Hooks)
    /\ h.ctx = "canceled" => q.gone
    /\ h.pc \in {"entry", "instance", "run"} => h.res = "none"
    /\ h.res = "canceled" => h.ctx = "canceled"
    /\ h.ctx = "timeout" => Bounded
    /\ h.res = "timeout" => Bounded /\ h.ctx # "canceled"
    /\ h.pc = "panic" => compiled = "nil"

\* The new request agrees with the phase of main.
FitsPhase(q) ==
    /\ main = "init" => q.pc = "idle"
    /\ drained => q.pc \in {"idle", "done"}
    /\ main \in {"closing", "exited"} /\ drained => q.record \in {"none", "saved", "missed"}
    /\ q.trace = "lost" => main \in {"closing", "exited"}

\* active follows the instances.
FitsActive(r, h) ==
    LET held == {"run", "teardown"} IN
    \/ active' = active /\ ((h.pc \in held) <=> (hook[r].pc \in held))
    \/ active' = active + 1 /\ h.pc \in held /\ hook[r].pc \notin held
    \/ active' = active - 1 /\ h.pc \notin held /\ hook[r].pc \in held

\* A step of a request that fits preserves the invariant.
LEMMA RequestStep ==
    ASSUME LifecycleInv, NEW r \in Requests, NEW h, NEW q,
           StepOf(r, h, q), FitsCall(h, q), FitsPhase(q), FitsActive(r, h)
    PROVE  LifecycleInv'
<1>0. /\ hook \in [Requests -> CallRecords] /\ rq \in [Requests -> RequestRecords]
      /\ active \in Nat
    BY Zenon DEF LifecycleInv, TypeOK, WasmTypeOK, Requests, CallRecords, RequestRecords
<1>1. /\ hook' \in [Requests -> CallRecords] /\ rq' \in [Requests -> RequestRecords]
      /\ \A s \in Requests : hook'[s] = IF s = r THEN h ELSE hook[s]
      /\ \A s \in Requests : rq'[s] = IF s = r THEN q ELSE rq[s]
    BY <1>0, Zenon DEF StepOf
<1>2. active' = Cardinality(Holding') /\ active' \in Nat
    <2>1. IsFiniteSet(Holding) /\ active = Cardinality(Holding) /\ Cardinality(Holding) \in Nat
        <3>1. Holding \subseteq Callers
            BY Zenon DEF Holding, Requests
        <3> QED BY <3>1, WasmAssumption, FS_Subset, FS_CardinalityType DEF LifecycleInv
    <2>2. r \in Holding <=> hook[r].pc \in {"run", "teardown"}
        BY Zenon DEF Holding
    <2>3. CASE active' = active /\ ((h.pc \in {"run", "teardown"}) <=> (hook[r].pc \in {"run", "teardown"}))
        <3>1. Holding' = Holding
            BY <1>1, <2>3, Zenon DEF Holding, Requests
        <3> QED BY <2>1, <2>3, <3>1
    <2>4. CASE active' = active + 1 /\ h.pc \in {"run", "teardown"} /\ hook[r].pc \notin {"run", "teardown"}
        <3>1. Holding' = Holding \cup {r}
            BY <1>1, <2>4, Zenon DEF Holding, Requests
        <3>2. Cardinality(Holding \cup {r}) = Cardinality(Holding) + 1
            BY <2>1, <2>2, <2>4, FS_AddElement, Zenon
        <3> QED BY <2>1, <2>4, <3>1, <3>2
    <2>5. CASE active' = active - 1 /\ h.pc \notin {"run", "teardown"} /\ hook[r].pc \in {"run", "teardown"}
        <3>1. Holding' = Holding \ {r}
            BY <1>1, <2>5, Zenon DEF Holding, Requests
        <3>2. Cardinality(Holding \ {r}) = Cardinality(Holding) - 1
            BY <2>1, <2>2, <2>5, FS_RemoveElement, Zenon
        <3>3. IsFiniteSet(Holding \ {r})
            BY <2>1, FS_RemoveElement, Zenon
        <3> QED BY <2>1, <2>5, <3>1, <3>2, <3>3, FS_CardinalityType
    <2> QED BY <2>3, <2>4, <2>5 DEF FitsActive
<1>3. TypeOK'
    BY <1>1, <1>2, Zenon DEF LifecycleInv, TypeOK, WasmTypeOK, StepOf, Requests, CallRecords, RequestRecords
<1>4. CallsMatch'
    BY <1>1, Zenon DEF LifecycleInv, CallsMatch, InCall, FitsCall, StepOf, Requests
<1>5. PhasesHold'
    BY <1>1, Zenon DEF LifecycleInv, PhasesHold, Idle, FitsPhase, StepOf, Requests
<1>6. FlushIsLast'
    BY <1>1 DEF LifecycleInv, FlushIsLast, FitsPhase, StepOf, Requests
<1> QED BY <1>2, <1>3, <1>4, <1>5, <1>6 DEF LifecycleInv

\* Everything holds in the initial states.
LEMMA InitHolds == Init => LifecycleInv
<1> SUFFICES ASSUME Init PROVE LifecycleInv
    BY Zenon
<1>0. Len(Plugins) \in Nat
    BY PluginsAssumption
<1>1. TypeOK
    <2>1. WasmTypeOK
        BY Zenon DEF Init, WasmInit, NoCall, WasmTypeOK, Results, Aborts
    <2>2. rq \in [Requests -> RequestRecords]
        BY Zenon DEF Init, RequestRecords, Kinds
    <2>3. 1 \in 0..(Len(Plugins) + 1)
        BY <1>0
    <2> QED BY <2>1, <2>2, <2>3, Zenon DEF Init, TypeOK, RequestRecords
<1>2. active = Cardinality(Holding)
    <2>1. Holding = {}
        BY Zenon DEF Init, WasmInit, NoCall, Holding, Requests
    <2> QED BY <2>1, FS_EmptySet DEF Init, WasmInit
<1>3. CallsMatch
    BY Zenon DEF Init, WasmInit, NoCall, CallsMatch, InCall, Requests, Hooks
<1>4. PhasesHold
    <2>1. \A i \in 1..Len(Plugins) : ~(i < 1)
        BY <1>0
    <2> QED BY <2>1 DEF Init, PhasesHold
<1>5. FlushIsLast
    BY Zenon DEF Init, FlushIsLast
<1> QED BY <1>1, <1>2, <1>3, <1>4, <1>5 DEF LifecycleInv

\* What the invariant says of one request, in one place.
AboutRequest(r) ==
    /\ hook \in [Requests -> CallRecords] /\ rq \in [Requests -> RequestRecords]
    /\ hook[r] \in CallRecords /\ rq[r] \in RequestRecords
    /\ FitsCall(hook[r], rq[r]) /\ FitsPhase(rq[r])
    /\ tracing = "closed" => main \in {"closing", "exited"}
    /\ hook = [hook EXCEPT ![r] = hook[r]] /\ rq = [rq EXCEPT ![r] = rq[r]]

\* Which is what it says.
LEMMA OneRequest ==
    ASSUME LifecycleInv, NEW r \in Requests
    PROVE  AboutRequest(r)
<1>1. hook \in [Requests -> CallRecords] /\ rq \in [Requests -> RequestRecords]
    BY Zenon DEF LifecycleInv, TypeOK, WasmTypeOK, Requests, CallRecords, RequestRecords
<1>2. FitsCall(hook[r], rq[r])
    BY Zenon DEF LifecycleInv, CallsMatch, InCall, FitsCall
<1>3. FitsPhase(rq[r])
    BY Zenon DEF LifecycleInv, PhasesHold, FlushIsLast, Idle, FitsPhase
<1> QED BY <1>1, <1>2, <1>3 DEF LifecycleInv, PhasesHold, AboutRequest

\* RunHook and Finish, from a request that is in a hook or at the engine.
LEMMA RunHookStep ==
    ASSUME LifecycleInv, NEW r \in Requests, NEW k \in Hooks, RunHook(r, k),
           UNCHANGED <<main, next, tracing, drained>>,
           hook[r].pc \notin {"run", "teardown"},
           ~drained, main # "init"
    PROVE  LifecycleInv'
<1> USE DEF AboutRequest
<1>one. AboutRequest(r)
    BY OneRequest, Zenon
<1> DEFINE h == [pc |-> "entry", ctx |-> IF rq[r].gone THEN "canceled" ELSE "live", res |-> "none"]
           q == [rq[r] EXCEPT !.pc = k]
<1>1. StepOf(r, h, q)
    <2>1. rq' = [rq EXCEPT ![r] = q]
        BY <1>one, Zenon DEF RunHook
    <2>2. hook' = [hook EXCEPT ![r] = h] /\ UNCHANGED compiled
        BY <1>one, Zenon DEF RunHook, Enter
    <2>3. h \in CallRecords
        BY Zenon DEF CallRecords
    <2>4. q \in RequestRecords
        BY <1>one, Zenon DEF RequestRecords
    <2> QED BY <2>1, <2>2, <2>3, <2>4 DEF StepOf
<1>2. FitsCall(h, q)
    BY <1>one, Zenon DEF FitsCall, RequestRecords, Aborts
<1>3. FitsPhase(q)
    BY <1>one, Zenon DEF FitsPhase, RequestRecords
<1>4. FitsActive(r, h)
    BY Zenon DEF FitsActive, RunHook
<1> QED BY <1>1, <1>2, <1>3, <1>4, RequestStep

LEMMA FinishStep ==
    ASSUME LifecycleInv, NEW r \in Requests, NEW t \in {"none", "pending"}, NEW c \in {"none", "pending"},
           Finish(r, t, c), UNCHANGED <<main, next, tracing, drained>>,
           hook[r].pc \notin {"run", "teardown"},
           ~drained, main # "init"
    PROVE  LifecycleInv'
<1> USE DEF AboutRequest
<1>one. AboutRequest(r)
    BY OneRequest, Zenon
<1> DEFINE q == [pc |-> "done", kind |-> "chat", gone |-> TRUE, trace |-> t, record |-> c]
<1>1. StepOf(r, NoCall, q)
    <2>1. rq' = [rq EXCEPT ![r] = q]
        BY <1>one, Zenon DEF Finish
    <2>2. hook' = [hook EXCEPT ![r] = NoCall] /\ UNCHANGED compiled
        BY Zenon DEF Finish
    <2>3. NoCall \in CallRecords
        BY Zenon DEF CallRecords, NoCall
    <2>4. q \in RequestRecords
        BY <1>one, Zenon DEF RequestRecords, Kinds
    <2> QED BY <2>1, <2>2, <2>3, <2>4 DEF StepOf
<1>2. FitsCall(NoCall, q)
    BY <1>one, Zenon DEF FitsCall, RequestRecords, Aborts, NoCall, Hooks
<1>3. FitsPhase(q)
    BY <1>one, Zenon DEF FitsPhase, RequestRecords
<1>4. FitsActive(r, NoCall)
    BY Zenon DEF FitsActive, Finish, NoCall
<1> QED BY <1>1, <1>2, <1>3, <1>4, RequestStep

\* A request that is in a hook or at the engine: the server has started, and has not
\* drained.
LEMMA UnderWay ==
    ASSUME LifecycleInv, NEW r \in Requests, hook[r].pc # "off" \/ rq[r].pc \in Hooks \cup {"engine"}
    PROVE  ~drained /\ main # "init"
BY OneRequest DEF AboutRequest, FitsCall, FitsPhase, Hooks

\* A step of call, by the host or by the guest.
LEMMA CallStep ==
    ASSUME LifecycleInv, NEW r \in Requests,
           HostStep(r) \/ CallReturns(r) \/ Deadline(r) \/ GuestDeadline(r),
           UNCHANGED <<main, next, tracing, drained, rq>>
    PROVE  LifecycleInv'
<1> DEFINE h == hook'[r]
<1>0. hook[r] \in CallRecords /\ hook \in [Requests -> CallRecords] /\ FitsCall(hook[r], rq[r])
    BY OneRequest, Zenon DEF AboutRequest
<1>1. SUFFICES h \in CallRecords /\ hook' = [hook EXCEPT ![r] = h] /\ FitsCall(h, rq[r])
               /\ FitsActive(r, h) /\ UNCHANGED compiled
    <2>1. StepOf(r, h, rq[r])
        BY <1>1, OneRequest, Zenon DEF StepOf, AboutRequest
    <2> QED BY <1>1, <2>1, OneRequest, RequestStep DEF AboutRequest
<1> USE <1>0 DEF CallRecords, Results, Aborts
<1>2. CASE CallEntry(r)
    BY <1>2 DEF CallEntry, Return, FitsCall, FitsActive
<1>3. CASE CallInstance(r)
    BY <1>3 DEF CallInstance, Return, FitsCall, FitsActive
<1>4. CASE CallAborts(r)
    BY <1>4 DEF CallAborts, Unwind, FitsCall, FitsActive
<1>5. CASE CallTeardown(r)
    BY <1>5, Zenon DEF CallTeardown, FitsCall, FitsActive
<1>6. CASE CallReturns(r)
    <2>1. PICK res \in Results \ Aborts : Unwind(r, res)
        BY <1>6, Zenon DEF CallReturns
    <2>2. hook[r].pc = "run" /\ UNCHANGED <<compiled, active>>
        BY <1>6, Zenon DEF CallReturns
    <2>3. h = [hook[r] EXCEPT !.pc = "teardown", !.res = res] /\ hook' = [hook EXCEPT ![r] = h]
        BY <2>1, Zenon DEF Unwind
    <2>4. h \in CallRecords /\ h.pc = "teardown" /\ h.ctx = hook[r].ctx /\ h.res = res
        BY <2>3, Zenon
    <2> QED BY <2>2, <2>3, <2>4 DEF FitsCall, FitsActive
<1>7. CASE Deadline(r)
    BY <1>7 DEF Deadline, InCall, FitsCall, FitsActive
<1>8. CASE GuestDeadline(r)
    BY <1>8 DEF GuestDeadline, Unwind, FitsCall, FitsActive
<1> QED BY <1>2, <1>3, <1>4, <1>5, <1>6, <1>7, <1>8 DEF HostStep

\* The goroutines that a handler leaves behind.
LEMMA AsyncStep ==
    ASSUME LifecycleInv, NEW r \in Requests, Async(r)
    PROVE  LifecycleInv'
<1> USE DEF AboutRequest
<1>one. AboutRequest(r)
    BY OneRequest, Zenon
<1>0. UNCHANGED <<main, next, tracing, drained, compiled, active, hook>>
    BY Zenon DEF Async, OnTrace, RecordRequest, wasmVars
<1> DEFINE q == rq'[r]
<1>1. /\ rq' = [rq EXCEPT ![r] = q] /\ q \in RequestRecords
      /\ q.pc = rq[r].pc /\ q.gone = rq[r].gone
    <2>1. CASE OnTrace(r)
        <3>1. PICK v \in {"exported", "lost"} : rq' = [rq EXCEPT ![r].trace = v]
            BY <2>1, Zenon DEF OnTrace
        <3>2. q = [rq[r] EXCEPT !.trace = v] /\ rq' = [rq EXCEPT ![r] = q]
            BY <3>1, <1>one, Zenon
        <3> QED BY <3>2, <1>one DEF RequestRecords
    <2>2. CASE RecordRequest(r)
        <3>1. q = [rq[r] EXCEPT !.record = "counted"] /\ rq' = [rq EXCEPT ![r] = q]
            BY <2>2, <1>one, Zenon DEF RecordRequest
        <3> QED BY <3>1, <1>one DEF RequestRecords
    <2> QED BY <2>1, <2>2 DEF Async
<1>2. FitsPhase(q)
    <2>1. CASE OnTrace(r)
        <3>1. q.record = rq[r].record /\ (q.trace = "lost" => tracing = "closed")
            BY <2>1, <1>one, Zenon DEF OnTrace, RequestRecords
        <3> QED BY <1>1, <3>1, <1>one DEF FitsPhase
    <2>2. CASE RecordRequest(r)
        <3>1. q.trace = rq[r].trace /\ rq[r].record = "pending"
            BY <2>2, <1>one, Zenon DEF RecordRequest, RequestRecords
        <3> QED BY <1>1, <3>1, <1>one DEF FitsPhase
    <2> QED BY <2>1, <2>2 DEF Async
<1>3. StepOf(r, hook[r], q)
    BY <1>0, <1>1, <1>one, Zenon DEF StepOf
<1>4. FitsCall(hook[r], q)
    BY <1>1, <1>one, Zenon DEF FitsCall
<1>5. FitsActive(r, hook[r])
    BY <1>0, Zenon DEF FitsActive
<1> QED BY <1>2, <1>3, <1>4, <1>5, RequestStep

\* What a handler leaves behind.
LEMMA ObservedType == \A kind : Observed(kind) \in {"none", "pending"}
BY Zenon DEF Observed

\* The handler goes to the engine, without a call.
LEMMA EngineStep ==
    ASSUME LifecycleInv, NEW r \in Requests, NEW kind \in Kinds,
           rq' = [rq EXCEPT ![r] = [rq[r] EXCEPT !.pc = "engine", !.kind = kind]],
           hook' = [hook EXCEPT ![r] = NoCall],
           UNCHANGED <<compiled, active, main, next, tracing, drained>>,
           hook[r].pc \notin {"run", "teardown"}, ~drained, main # "init"
    PROVE  LifecycleInv'
<1> USE DEF AboutRequest
<1>one. AboutRequest(r)
    BY OneRequest, Zenon
<1> DEFINE q == [rq[r] EXCEPT !.pc = "engine", !.kind = kind]
<1>1. StepOf(r, NoCall, q)
    <2>1. q \in RequestRecords
        BY <1>one, Zenon DEF RequestRecords
    <2>2. NoCall \in CallRecords
        BY Zenon DEF CallRecords, NoCall
    <2> QED BY <2>1, <2>2, Zenon DEF StepOf
<1>2. FitsCall(NoCall, q)
    BY <1>one, Zenon DEF FitsCall, RequestRecords, NoCall, Hooks
<1>3. FitsPhase(q)
    BY <1>one, Zenon DEF FitsPhase, RequestRecords
<1>4. FitsActive(r, NoCall)
    BY Zenon DEF FitsActive, NoCall
<1> QED BY <1>1, <1>2, <1>3, <1>4, RequestStep, Zenon

\* The handler goes to the engine by way of pre_llm.
LEMMA PreLLMStep ==
    ASSUME LifecycleInv, NEW r \in Requests, NEW kind \in Kinds,
           rq' = [rq EXCEPT ![r] = [rq[r] EXCEPT !.pc = "pre_llm", !.kind = kind]],
           hook' = Enter(r, rq[r].gone),
           UNCHANGED <<compiled, active, main, next, tracing, drained>>,
           hook[r].pc \notin {"run", "teardown"}, ~drained, main # "init"
    PROVE  LifecycleInv'
<1> USE DEF AboutRequest
<1>one. AboutRequest(r)
    BY OneRequest, Zenon
<1> DEFINE h == [pc |-> "entry", ctx |-> IF rq[r].gone THEN "canceled" ELSE "live", res |-> "none"]
           q == [rq[r] EXCEPT !.pc = "pre_llm", !.kind = kind]
<1>1. StepOf(r, h, q)
    <2>1. q \in RequestRecords
        BY <1>one, Zenon DEF RequestRecords, Hooks
    <2>2. h \in CallRecords
        BY Zenon DEF CallRecords
    <2> QED BY <2>1, <2>2, Zenon DEF StepOf, Enter
<1>2. FitsCall(h, q)
    BY <1>one, Zenon DEF FitsCall, RequestRecords, Hooks
<1>3. FitsPhase(q)
    BY <1>one, Zenon DEF FitsPhase, RequestRecords
<1>4. FitsActive(r, h)
    BY Zenon DEF FitsActive
<1> QED BY <1>1, <1>2, <1>3, <1>4, RequestStep, Zenon

\* The hook is back, or has panicked.
LEMMA HandlerStep ==
    ASSUME LifecycleInv, NEW r \in Requests, HookBack(r) \/ Panicked(r),
           UNCHANGED <<main, next, tracing, drained>>
    PROVE  LifecycleInv'
<1> USE DEF AboutRequest
<1>one. AboutRequest(r)
    BY OneRequest, Zenon
<1>0. /\ hook[r].pc \notin {"run", "teardown", "off"}
      /\ ~drained /\ main # "init"
    BY UnderWay, Zenon DEF HookBack, Panicked
<1>1. ASSUME NEW t \in {"none", "pending"}, NEW c \in {"none", "pending"}, Finish(r, t, c) PROVE LifecycleInv'
    BY <1>0, <1>1, FinishStep, Zenon
<1>2. CASE Panicked(r)
    BY <1>1, <1>2, Zenon DEF Panicked
<1>3. ASSUME NEW kind \in Kinds, EnterEngine(r, kind) PROVE LifecycleInv'
    <2>1. CASE Finish(r, Observed(kind), "none")
        BY <1>1, <2>1, ObservedType, Zenon
    <2>2. CASE ~Finish(r, Observed(kind), "none") /\ kind \in {"chat", "stream"}
        <3>1. /\ rq' = [rq EXCEPT ![r] = [rq[r] EXCEPT !.pc = "pre_llm", !.kind = kind]]
              /\ hook' = Enter(r, rq[r].gone) /\ UNCHANGED <<compiled, active>>
            BY <1>3, <1>one, <2>2, Zenon DEF EnterEngine
        <3> QED BY <1>0, <3>1, PreLLMStep, Zenon
    <2>3. CASE ~Finish(r, Observed(kind), "none") /\ kind \notin {"chat", "stream"}
        <3>1. /\ rq' = [rq EXCEPT ![r] = [rq[r] EXCEPT !.pc = "engine", !.kind = kind]]
              /\ hook' = [hook EXCEPT ![r] = NoCall] /\ UNCHANGED <<compiled, active>>
            BY <1>3, <1>one, <2>3, Zenon DEF EnterEngine
        <3> QED BY <1>0, <3>1, EngineStep, Zenon
    <2> QED BY <2>1, <2>2, <2>3, Zenon
<1>4. CASE RunHook(r, "post_http")
    BY <1>0, <1>4, RunHookStep, Zenon DEF Hooks
<1>5. CASE /\ rq' = [rq EXCEPT ![r].pc = "engine"]
           /\ hook' = [hook EXCEPT ![r] = NoCall]
           /\ UNCHANGED <<compiled, active>>
    <2>1. rq[r].kind \in Kinds /\ rq' = [rq EXCEPT ![r] = [rq[r] EXCEPT !.pc = "engine", !.kind = rq[r].kind]]
        BY <1>5, <1>one, Zenon DEF RequestRecords
    <2> QED BY <1>0, <1>5, <2>1, EngineStep, Zenon
<1>6. CASE Finish(r, "none", "none") \/ Finish(r, Observed(rq[r].kind), Observed(rq[r].kind))
    BY <1>1, <1>6, ObservedType, Zenon
<1>7. \A kind \in Asks[r] : kind \in Kinds
    BY AsksAssumption, Zenon DEF Requests
<1> QED BY <1>2, <1>3, <1>4, <1>5, <1>6, <1>7, Zenon DEF HookBack

\* A request arrives, its engine answers, or its client leaves.
LEMMA OutsideStep ==
    ASSUME LifecycleInv, NEW r \in Requests, Arrive(r) \/ Dispatch(r) \/ ClientLeaves(r),
           UNCHANGED <<main, next, tracing, drained>>
    PROVE  LifecycleInv'
<1> USE DEF AboutRequest
<1>one. AboutRequest(r)
    BY OneRequest, Zenon
<1>1. CASE Arrive(r)
    <2>1. hook[r].pc = "off" /\ ~drained /\ main # "init"
        BY <1>1, <1>one, Zenon DEF Arrive, FitsCall, Hooks
    <2> QED BY <1>1, <2>1, RunHookStep DEF Arrive, Hooks
<1>2. CASE Dispatch(r)
    <2>1. hook[r].pc = "off" /\ ~drained /\ main # "init"
        BY <1>2, <1>one, UnderWay, Zenon DEF Dispatch, FitsCall, Hooks
    <2>2. CASE RunHook(r, "post_llm") \/ RunHook(r, "post_http")
        BY <2>1, <2>2, RunHookStep, Zenon DEF Hooks
    <2>3. CASE Finish(r, Observed(rq[r].kind), "none") \/ Finish(r, Observed(rq[r].kind), Observed(rq[r].kind))
        BY <2>1, <2>3, FinishStep, ObservedType, Zenon
    <2> QED BY <1>2, <2>2, <2>3 DEF Dispatch
<1>3. CASE ClientLeaves(r)
    <2> DEFINE h == hook'[r]
               q == [rq[r] EXCEPT !.gone = TRUE]
    <2>0. ~drained /\ main # "init"
        BY <1>3, UnderWay, Zenon DEF ClientLeaves
    <2>1. rq' = [rq EXCEPT ![r] = q] /\ q \in RequestRecords
        BY <1>3, <1>one, Zenon DEF ClientLeaves, RequestRecords
    <2>2. /\ h \in CallRecords /\ hook' = [hook EXCEPT ![r] = h]
          /\ h.pc = hook[r].pc /\ h.res = hook[r].res
          /\ h.ctx = hook[r].ctx \/ (h.ctx = "canceled" /\ hook[r].pc \in {"entry", "instance", "run"})
        BY <1>3, <1>one, Zenon DEF ClientLeaves, Abandoned, InCall, CallRecords
    <2>3. StepOf(r, h, q)
        BY <1>3, <2>1, <2>2, Zenon DEF StepOf, ClientLeaves
    <2>4. FitsCall(h, q)
        BY <2>2, <1>one, Zenon DEF FitsCall, RequestRecords, Aborts
    <2>5. FitsPhase(q)
        BY <2>0, <1>one, Zenon DEF FitsPhase, RequestRecords
    <2>6. FitsActive(r, h)
        BY <1>3, <2>2, Zenon DEF FitsActive, ClientLeaves
    <2> QED BY <2>3, <2>4, <2>5, <2>6, RequestStep
<1> QED BY <1>1, <1>2, <1>3

(***************************************************************************)
(* The steps of main                                                       *)
(***************************************************************************)

\* The part of the invariant that main can disturb.
LEMMA MainStep ==
    ASSUME LifecycleInv, UNCHANGED <<active, hook, rq>>,
           compiled' \in {"none", "loaded", "closed", "nil"},
           next' \in 0..Len(Plugins) + 1, tracing' \in {"new", "open", "closed"},
           main' \in {"init", "serving", "draining", "flushing", "closing", "exited"}, drained' \in BOOLEAN,
           \A r \in Requests : hook[r].pc = "panic" => compiled' = "nil",
           PhasesHold', FlushIsLast'
    PROVE  LifecycleInv'
<1>1. TypeOK'
    BY Zenon DEF LifecycleInv, TypeOK, WasmTypeOK, Requests
<1>2. active' = Cardinality(Holding')
    BY Zenon DEF LifecycleInv, Holding, Requests
<1>3. CallsMatch'
    BY DEF LifecycleInv, CallsMatch, InCall, Requests
<1> QED BY <1>1, <1>2, <1>3 DEF LifecycleInv

LEMMA StartStep ==
    ASSUME LifecycleInv, InitPlugin \/ Serve \/ ListenFails
    PROVE  LifecycleInv'
<1> USE DEF LifecycleInv, TypeOK, WasmTypeOK
<1>0. Len(Plugins) \in Nat /\ next \in Nat
    BY PluginsAssumption
<1>1. CASE InitPlugin /\ main' = "exited"
    BY <1>1, MainStep DEF InitPlugin, wasmVars, PhasesHold, FlushIsLast, Idle, CallsMatch, Requests
<1>2. CASE InitPlugin /\ main' = main
    <2>1. /\ next <= Len(Plugins) /\ next' = next + 1 /\ main = "init" /\ UNCHANGED <<active, hook, rq, main, drained>>
          /\ compiled' = IF Plugins[next] = "wasm" THEN "loaded" ELSE compiled
          /\ tracing' = IF Plugins[next] = "tracing" THEN "open" ELSE tracing
        BY <1>2, Zenon DEF InitPlugin, WasmLoad, wasmVars
    <2>2. \A r \in Requests : hook[r].pc = "off"
        BY <2>1, Zenon DEF PhasesHold, CallsMatch, Hooks
    <2>3. \A i \in 1..Len(Plugins) : i < next' /\ Plugins[i] = "wasm" => compiled' = "loaded"
        <3>1. \A i \in 1..Len(Plugins) : i < next' => i < next \/ i = next
            BY <1>0, <2>1
        <3> QED BY <2>1, <3>1 DEF PhasesHold
    <2>4. PhasesHold'
        BY <2>1, <2>3, Zenon DEF PhasesHold, Requests
    <2>5. FlushIsLast'
        BY <2>1, Zenon DEF FlushIsLast, Requests
    <2>6. next' \in 0..Len(Plugins) + 1
        BY <1>0, <2>1
    <2> QED BY <2>1, <2>2, <2>4, <2>5, <2>6, MainStep
<1>3. CASE Serve
    <2>1. compiled = "loaded"
        <3>1. PICK i \in 1..Len(Plugins) : Plugins[i] = "wasm"
            BY PluginsAssumption, Zenon
        <3>2. i < next
            BY <1>0, <1>3 DEF Serve
        <3> QED BY <1>3, <3>1, <3>2 DEF Serve, PhasesHold
    <2> QED BY <1>3, <2>1, MainStep DEF Serve, wasmVars, PhasesHold, FlushIsLast, Idle, CallsMatch, Requests
<1>4. CASE ListenFails
    BY <1>4, MainStep, Zenon DEF ListenFails, wasmVars, PhasesHold, FlushIsLast, Idle, CallsMatch, Requests
<1> QED BY <1>1, <1>2, <1>3, <1>4 DEF InitPlugin

LEMMA StopStep ==
    ASSUME LifecycleInv, Signal \/ Shutdown \/ ClosePlugin \/ Exit
    PROVE  LifecycleInv'
<1> USE DEF LifecycleInv, TypeOK, WasmTypeOK
<1>0. Len(Plugins) \in Nat /\ next \in Nat
    BY PluginsAssumption
<1>1. CASE Signal
    BY <1>1, MainStep, Zenon DEF Signal, wasmVars, PhasesHold, FlushIsLast, Idle, CallsMatch, Requests
<1>2. CASE Shutdown
    <2>1. Idle \in BOOLEAN
        BY Zenon DEF Idle
    <2>2. PhasesHold' /\ FlushIsLast'
        BY <1>2 DEF Shutdown, wasmVars, PhasesHold, FlushIsLast, Idle, Requests
    <2> QED BY <1>2, <2>1, <2>2, MainStep DEF Shutdown, wasmVars, CallsMatch
<1>3. CASE ClosePlugin
    <2>1. /\ main = "closing" /\ next > 0 /\ next' \in {next, next - 1}
          /\ UNCHANGED <<active, hook, rq, main, drained>>
          /\ tracing' \in {tracing, "closed"}
          /\ compiled' = compiled \/ (compiled # "nil" /\ compiled' \in {"closed", "nil"})
        BY <1>3, Zenon DEF ClosePlugin, WasmClose, wasmVars
    <2>2. next' \in 0..Len(Plugins) + 1
        BY <1>0, <2>1
    <2>3. PhasesHold'
        BY <2>1, Zenon DEF PhasesHold, Idle, Requests
    <2>4. FlushIsLast'
        BY <2>1, Zenon DEF FlushIsLast, Requests
    <2>5. \A r \in Requests : hook[r].pc = "panic" => compiled' = "nil"
        BY <2>1, Zenon DEF CallsMatch
    <2> QED BY <2>1, <2>2, <2>3, <2>4, <2>5, MainStep
<1>4. CASE Exit
    BY <1>4, MainStep DEF Exit, wasmVars, PhasesHold, FlushIsLast, Idle, CallsMatch, Requests
<1> QED BY <1>1, <1>2, <1>3, <1>4

\* The last flush leaves no record that is counted or may still be.
LEMMA FlushStep ==
    ASSUME LifecycleInv, FinalFlush
    PROVE  LifecycleInv'
<1>0. /\ hook \in [Requests -> CallRecords] /\ rq \in [Requests -> RequestRecords]
      /\ main = "flushing" /\ main' = "closing" /\ next' = Len(Plugins)
      /\ UNCHANGED <<compiled, active, hook, tracing, drained>>
    BY Zenon DEF LifecycleInv, TypeOK, WasmTypeOK, Requests, CallRecords, RequestRecords, FinalFlush, wasmVars
<1>1. \A r \in Requests :
          /\ rq'[r] \in RequestRecords
          /\ rq'[r].pc = rq[r].pc /\ rq'[r].gone = rq[r].gone /\ rq'[r].trace = rq[r].trace
          /\ rq'[r].record \in {"none", "saved", "missed"}
    <2> SUFFICES ASSUME NEW r \in Requests
                 PROVE  /\ rq'[r] \in RequestRecords
                        /\ rq'[r].pc = rq[r].pc /\ rq'[r].gone = rq[r].gone /\ rq'[r].trace = rq[r].trace
                        /\ rq'[r].record \in {"none", "saved", "missed"}
        BY Zenon
    <2> DEFINE v == CASE rq[r].record = "counted" -> "saved" [] rq[r].record = "pending" -> "missed"
                      [] OTHER -> rq[r].record
    <2>1. rq'[r] = [rq[r] EXCEPT !.record = v]
        BY Zenon DEF FinalFlush, Requests
    <2>2. rq[r] \in RequestRecords
        BY <1>0, Zenon
    <2>3. v \in {"none", "saved", "missed"}
        BY <2>2, Zenon DEF RequestRecords
    <2> HIDE DEF v
    <2> QED BY <2>1, <2>2, <2>3 DEF RequestRecords
<1>2. rq' \in [Requests -> RequestRecords]
    <2>1. rq' = [r \in Requests |-> rq'[r]]
        BY Zenon DEF FinalFlush, Requests
    <2> QED BY <1>1, <2>1 DEF Requests
<1>3. TypeOK'
    <2>1. Len(Plugins) \in 0..Len(Plugins) + 1
        BY PluginsAssumption
    <2> QED BY <1>0, <1>2, <2>1 DEF LifecycleInv, TypeOK, WasmTypeOK, RequestRecords
<1>4. active' = Cardinality(Holding')
    BY <1>0, Zenon DEF LifecycleInv, Holding, Requests
<1>5. CallsMatch'
    BY <1>0, <1>1, Zenon DEF LifecycleInv, CallsMatch, InCall, Requests
<1>6. PhasesHold'
    BY <1>0, <1>1 DEF LifecycleInv, PhasesHold, Idle, Requests
<1>7. FlushIsLast'
    BY <1>0, <1>1, Zenon DEF LifecycleInv, FlushIsLast, Requests
<1> QED BY <1>3, <1>4, <1>5, <1>6, <1>7 DEF LifecycleInv

\* Every step of the system preserves the invariant.
LEMMA NextHolds == LifecycleInv /\ [Next]_vars => LifecycleInv'
<1> SUFFICES ASSUME LifecycleInv, [Next]_vars PROVE LifecycleInv'
    BY Zenon
<1>1. CASE Main \/ ListenFails \/ Signal
    BY <1>1, StartStep, StopStep, FlushStep, Zenon DEF Main
<1>2. ASSUME NEW r \in Requests, Handler(r) PROVE LifecycleInv'
    BY <1>2, HandlerStep, CallStep, Zenon DEF Handler
<1>3. ASSUME NEW r \in Requests, Async(r) PROVE LifecycleInv'
    BY <1>3, AsyncStep, Zenon
<1>4. ASSUME NEW r \in Requests, Timer(r) PROVE LifecycleInv'
    BY <1>4, CallStep, Zenon DEF Timer
<1>5. ASSUME NEW r \in Requests, Environment(r) PROVE LifecycleInv'
    BY <1>5, OutsideStep, CallStep DEF Environment
<1>6. CASE UNCHANGED vars
    BY <1>6, MainStep DEF vars, wasmVars, LifecycleInv, TypeOK, WasmTypeOK, PhasesHold, FlushIsLast, Idle,
                          CallsMatch, Requests
<1> QED BY <1>1, <1>2, <1>3, <1>4, <1>5, <1>6 DEF Next, Exited

\* The invariant holds in every reachable state.
LEMMA Invariance == Spec => []LifecycleInv
<1> QED BY InitHolds, NextHolds, PTL DEF Spec

\* For any finite set of requests and any plugin list with one WASM plugin: active
\* counts the instances that call holds, an abort is blamed on the client only if it
\* has left and on the timeout only if it had not, and only a shutdown that ran out of time lets CloseAll meet a hook.
THEOREM HooksAccounted == Spec => []HooksAreAccounted
<1>1. LifecycleInv => HooksAreAccounted
    <2> SUFFICES ASSUME LifecycleInv PROVE HooksAreAccounted
        BY Zenon
    <2>1. ASSUME NEW r \in Requests, hook[r].pc # "off", compiled # "loaded" \/ hook[r].pc = "panic"
          PROVE  main \in {"closing", "exited"} /\ ~drained
        <3>1. compiled # "loaded"
            BY <2>1, Zenon DEF LifecycleInv, CallsMatch
        <3> QED BY <2>1, <3>1, UnderWay DEF LifecycleInv, TypeOK, PhasesHold
    <2>2. ASSUME NEW r \in Requests
          PROVE  /\ hook[r].res = "canceled" => rq[r].gone
                 /\ hook[r].res = "timeout" => Bounded /\ hook[r].ctx # "canceled"
        BY <2>2, Zenon DEF LifecycleInv, CallsMatch
    <2> QED BY <2>1, <2>2 DEF LifecycleInv, HooksAreAccounted
<1> QED BY <1>1, Invariance, PTL

\* For the same instances: after the flush of a drained shutdown no answer is counted
\* any more, and a trace gets lost only to CloseAll.
THEOREM FlushLast == Spec => []FlushIsLast
<1>1. LifecycleInv => FlushIsLast
    BY Zenon DEF LifecycleInv
<1> QED BY <1>1, Invariance, PTL
=============================================================================
