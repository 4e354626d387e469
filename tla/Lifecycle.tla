------------------------------ MODULE Lifecycle -----------------------------
(***************************************************************************)
(* The life of the process (cmd/butter/main.go): the plugins are           *)
(* initialised (internal/plugin/manager.go), the server serves, and after  *)
(* a signal it drains for at most ten seconds, the application keys are    *)
(* flushed and the plugins are closed.  Under this run the handlers, which *)
(* call the hooks of a WASM plugin (module WasmHost) around the engine,    *)
(* and the goroutines that they start and nobody waits for.                *)
(***************************************************************************)
EXTENDS WasmHost, Sequences

CONSTANTS
    Plugins,     \* the plugins, in order of registration
    Asks         \* Asks[r]: the entry points that the client of r may call

\* The entry points; the native passthrough is messages without the count.
Kinds == {"chat", "stream", "embeddings", "messages"}

ASSUME AsksAssumption == Asks \in [Callers -> SUBSET Kinds]

ASSUME PluginsAssumption ==
    /\ Plugins \in Seq({"tracing", "wasm"})
    /\ \E i \in 1..Len(Plugins) : \A j \in 1..Len(Plugins) : Plugins[j] = "wasm" <=> i = j

VARIABLES
    main,        \* where main is
    next,        \* the plugin that the loop of InitAll or CloseAll is at
    tracing,     \* the tracing plugin: "new", "open" or "closed"
    drained,     \* Shutdown saw every connection idle
    rq           \* the requests: handler, whether the context has ended, goroutines started

vars == <<wasmVars, main, next, tracing, drained, rq>>

Requests == Callers

\* The hooks of a request, in order; the engine is at work before "post_llm".
Hooks == {"pre_http", "pre_llm", "post_llm", "post_http"}

TypeOK ==
    /\ WasmTypeOK
    /\ main \in {"init", "serving", "draining", "flushing", "closing", "exited"}
    /\ next \in 0..Len(Plugins) + 1
    /\ tracing \in {"new", "open", "closed"}
    /\ drained \in BOOLEAN
    /\ rq \in [Requests -> [pc : {"idle", "engine", "done"} \cup Hooks, kind : Kinds, gone : BOOLEAN,
                            trace : {"none", "pending", "exported", "lost"},
                            record : {"none", "pending", "counted", "saved", "missed"}]]

Init ==
    /\ WasmInit
    /\ main = "init" /\ next = 1
    /\ tracing = "new" /\ drained = FALSE
    /\ rq = [r \in Requests |-> [pc |-> "idle", kind |-> "chat", gone |-> FALSE, trace |-> "none", record |-> "none"]]

(***************************************************************************)
(* main                                                                    *)
(***************************************************************************)

\* One plugin of InitAll; the first that fails ends the process.
InitPlugin ==
    /\ main = "init" /\ next <= Len(Plugins)
    /\ \/ /\ main' = "exited" /\ UNCHANGED <<wasmVars, next, tracing>>
       \/ /\ next' = next + 1
          /\ IF Plugins[next] = "wasm" THEN WasmLoad ELSE UNCHANGED wasmVars
          /\ tracing' = IF Plugins[next] = "tracing" THEN "open" ELSE tracing
          /\ UNCHANGED main
    /\ UNCHANGED <<drained, rq>>

\* All plugins are there: the server listens.
Serve ==
    /\ main = "init" /\ next > Len(Plugins)
    /\ main' = "serving"
    /\ UNCHANGED <<wasmVars, next, tracing, drained, rq>>

\* The address cannot be listened on: os.Exit.
ListenFails ==
    /\ main = "serving" /\ \A r \in Requests : rq[r].pc = "idle"
    /\ main' = "exited"
    /\ UNCHANGED <<wasmVars, next, tracing, drained, rq>>

\* SIGINT or SIGTERM: the watcher is stopped (module Watcher), and Shutdown
\* closes the listeners.
Signal ==
    /\ main = "serving"
    /\ main' = "draining"
    /\ UNCHANGED <<wasmVars, next, tracing, drained, rq>>

Idle == \A r \in Requests : rq[r].pc \in {"idle", "done"}

\* Variant: Shutdown is given a context without a timeout.
ShutdownUnbounded ==
    /\ main = "draining" /\ Idle
    /\ main' = "flushing" /\ drained' = TRUE
    /\ UNCHANGED <<wasmVars, next, tracing, rq>>

\* Variant: the flush does not wait for Shutdown.
ShutdownInBackground ==
    /\ main = "draining"
    /\ main' = "flushing" /\ drained' = TRUE
    /\ UNCHANGED <<wasmVars, next, tracing, rq>>

\* Shutdown returns: no handler is left and the idle connections are closed, or the ten
\* seconds are over.
Shutdown ==
    /\ main = "draining"
    /\ main' = "flushing" /\ drained' \in {FALSE, Idle}
    /\ UNCHANGED <<wasmVars, next, tracing, rq>>

\* appKeyPersister.Close: what is counted by now is saved, the rest is not.
FinalFlush ==
    /\ main = "flushing"
    /\ main' = "closing" /\ next' = Len(Plugins)
    /\ rq' = [r \in Requests |->
                 [rq[r] EXCEPT !.record = CASE @ = "counted" -> "saved" [] @ = "pending" -> "missed" [] OTHER -> @]]
    /\ UNCHANGED <<wasmVars, tracing, drained>>

\* One step of CloseAll, last registered first.  Closing the WASM plugin is two
\* steps; when the first fails the second is left out.
ClosePlugin ==
    /\ main = "closing" /\ next > 0
    /\ \/ /\ Plugins[next] = "wasm" /\ WasmClose
          /\ next' \in IF compiled = "loaded" THEN {next, next - 1} ELSE {next - 1}
          /\ UNCHANGED tracing
       \/ /\ Plugins[next] = "tracing" /\ tracing' = "closed"
          /\ next' = next - 1
          /\ UNCHANGED wasmVars
    /\ UNCHANGED <<main, drained, rq>>

\* main returns, and every goroutine ends with it.
Exit ==
    /\ main = "closing" /\ next = 0
    /\ main' = "exited"
    /\ UNCHANGED <<wasmVars, next, tracing, drained, rq>>

Main == InitPlugin \/ Serve \/ Shutdown \/ FinalFlush \/ ClosePlugin \/ Exit

(***************************************************************************)
(* The handlers                                                            *)
(***************************************************************************)

\* The handler of r runs the chain with hook h.
RunHook(r, h) ==
    /\ rq' = [rq EXCEPT ![r].pc = h]
    /\ hook' = Enter(r, rq[r].gone)
    /\ UNCHANGED <<compiled, active>>

\* The handler returns, which ends the request's context; it has started the
\* goroutines that trace and record tell of.  The kind has no meaning any more.
Finish(r, trace, record) ==
    /\ rq' = [rq EXCEPT ![r] = [pc |-> "done", kind |-> "chat", gone |-> TRUE, trace |-> trace, record |-> record]]
    /\ hook' = [hook EXCEPT ![r] = NoCall]
    /\ UNCHANGED <<compiled, active>>

\* A request is accepted while the server listens; on a connection that was accepted
\* before a signal it may also come later, until Shutdown has seen every one idle.
Arrive(r) ==
    /\ main \notin {"init", "exited"} /\ ~drained /\ rq[r].pc = "idle"
    /\ RunHook(r, "pre_http")

\* What follows an answer in every handler but handleEmbeddings: emitTrace, and (with
\* the application key that every request here has) RecordRequest.
Observed(kind) == IF kind = "embeddings" THEN "none" ELSE "pending"

\* The handler goes on to the engine (up to here the kinds do not differ), which
\* begins with the hook pre_llm for chat and streams, or fails for want of a route.
EnterEngine(r, kind) ==
    \/ /\ rq' = [rq EXCEPT ![r].pc = IF kind \in {"chat", "stream"} THEN "pre_llm" ELSE "engine",
                          ![r].kind = kind]
       /\ hook' = IF kind \in {"chat", "stream"} THEN Enter(r, rq[r].gone) ELSE [hook EXCEPT ![r] = NoCall]
       /\ UNCHANGED <<compiled, active>>
    \/ Finish(r, Observed(kind), "none")

\* The hook is back.  A short circuit of pre_http is the answer, one of pre_llm is
\* stored in the request context and nobody looks at it; an error is
\* logged and the request goes on.
HookBack(r) ==
    /\ hook[r].pc = "returned"
    /\ \/ /\ rq[r].pc = "pre_http" /\ hook[r].res = "stop"
          /\ Finish(r, "none", "none")
       \/ /\ rq[r].pc = "pre_http" /\ hook[r].res # "stop"
          /\ \E kind \in Asks[r] : EnterEngine(r, kind)
       \/ /\ rq[r].pc = "pre_llm"
          /\ rq' = [rq EXCEPT ![r].pc = "engine"]
          /\ hook' = [hook EXCEPT ![r] = NoCall]
          /\ UNCHANGED <<compiled, active>>
       \/ /\ rq[r].pc = "post_llm"
          /\ RunHook(r, "post_http")
       \/ /\ rq[r].pc = "post_http"
          /\ Finish(r, Observed(rq[r].kind), Observed(rq[r].kind))

\* The engine has an answer (of a provider, or for chat of the cache), has relayed a
\* stream to its end, for which no hook runs, or has an error.
Dispatch(r) ==
    /\ rq[r].pc = "engine"
    /\ \/ rq[r].kind = "chat" /\ RunHook(r, "post_llm")
       \/ rq[r].kind # "stream" /\ RunHook(r, "post_http")
       \/ rq[r].kind = "stream" /\ Finish(r, Observed(rq[r].kind), Observed(rq[r].kind))
       \/ Finish(r, Observed(rq[r].kind), "none")

\* net/http recovers a handler that panics.
Panicked(r) ==
    /\ hook[r].pc = "panic"
    /\ Finish(r, "none", "none")

ClientLeaves(r) ==
    /\ rq[r].pc \in Hooks \cup {"engine"} /\ ~rq[r].gone
    /\ rq' = [rq EXCEPT ![r].gone = TRUE]
    /\ hook' = Abandoned(r)
    /\ UNCHANGED <<compiled, active>>

\* The goroutines: the trace ends the span, which a closed provider does not
\* export; the count goes to memory, where after the last flush nobody reads it.
OnTrace(r) ==
    /\ rq[r].trace = "pending"
    /\ rq' = [rq EXCEPT ![r].trace = IF tracing = "closed" THEN "lost" ELSE "exported"]
    /\ UNCHANGED wasmVars

RecordRequest(r) ==
    /\ rq[r].record = "pending"
    /\ rq' = [rq EXCEPT ![r].record = "counted"]
    /\ UNCHANGED wasmVars

\* What a handler does by itself.
Handler(r) ==
    /\ main # "exited"
    /\ HookBack(r) \/ Panicked(r) \/ (HostStep(r) /\ UNCHANGED rq)
    /\ UNCHANGED <<main, next, tracing, drained>>

Async(r) ==
    /\ main # "exited"
    /\ OnTrace(r) \/ RecordRequest(r)
    /\ UNCHANGED <<main, next, tracing, drained>>

Timer(r) ==
    /\ main # "exited"
    /\ Deadline(r) \/ GuestDeadline(r)
    /\ UNCHANGED <<main, next, tracing, drained, rq>>

Environment(r) ==
    /\ main # "exited"
    /\ Arrive(r) \/ Dispatch(r) \/ ClientLeaves(r) \/ (CallReturns(r) /\ UNCHANGED rq)
    /\ UNCHANGED <<main, next, tracing, drained>>

Exited == main = "exited" /\ UNCHANGED vars

Next ==
    \/ Main \/ ListenFails \/ Signal \/ Exited
    \/ \E r \in Requests : Handler(r) \/ Async(r) \/ Timer(r) \/ Environment(r)

Spec == Init /\ [][Next]_vars

FairSpec ==
    /\ Spec /\ WF_vars(Main)
    /\ \A r \in Requests : WF_vars(Handler(r) \/ Timer(r))

(***************************************************************************)
(* Properties, and the inductive invariant of their proofs in              *)
(* LifecycleProofs                                                         *)
(***************************************************************************)

\* The calls that hold an instance.
Holding == {r \in Requests : hook[r].pc \in {"run", "teardown"}}

\* Every instance that call created is counted in active and given back on every
\* path, aborts included; a hook is said to be cancelled only when its client has left,
\* and to have timed out only when it has a timeout and its client had not left
\* before.  A hook finds the
\* module loaded until CloseAll, and CloseAll finds no hook unless Shutdown ran out
\* of time: only then can a handler panic on the module that Close has forgotten.
HooksAreAccounted ==
    /\ TypeOK
    /\ active = Cardinality(Holding)
    /\ \A r \in Requests :
           /\ hook[r].res = "canceled" => rq[r].gone
           /\ hook[r].res = "timeout" => Bounded /\ hook[r].ctx # "canceled"
           /\ hook[r].pc # "off" /\ (compiled # "loaded" \/ hook[r].pc = "panic") =>
                  main \in {"closing", "exited"} /\ ~drained

\* "Final flush ... (after HTTP drains, before plugins)": once a drained shutdown
\* has flushed, no answer is counted any more.  The only answers it does not save
\* are those whose RecordRequest goroutine, for which nobody waits, had not run.
\* A trace gets lost only when its goroutine is overtaken by CloseAll.
FlushIsLast ==
    /\ main \in {"closing", "exited"} /\ drained =>
           \A r \in Requests : rq[r].record \in {"none", "saved", "missed"}
    /\ \A r \in Requests : rq[r].trace = "lost" => main \in {"closing", "exited"}

\* A handler is in a hook when its call is, and its call's context tells the truth
\* about the client.
CallsMatch ==
    \A r \in Requests :
        /\ (hook[r].pc # "off") <=> (rq[r].pc \in Hooks)
        /\ hook[r].ctx = "canceled" => rq[r].gone
        /\ InCall(r) => hook[r].res = "none"
        /\ hook[r].res = "canceled" => hook[r].ctx = "canceled"
        /\ hook[r].ctx = "timeout" => Bounded
        /\ hook[r].res = "timeout" => Bounded /\ hook[r].ctx # "canceled"
        /\ hook[r].pc = "panic" => compiled = "nil"

\* What each phase of main may rely on.
PhasesHold ==
    /\ main = "init" => /\ \A r \in Requests : rq[r].pc = "idle"
                        /\ \A i \in 1..Len(Plugins) : i < next /\ Plugins[i] = "wasm" => compiled = "loaded"
    /\ main \in {"serving", "draining", "flushing"} => compiled = "loaded"
    /\ tracing = "closed" => main \in {"closing", "exited"}
    /\ drained => main \in {"flushing", "closing", "exited"} /\ Idle

LifecycleInv == TypeOK /\ active = Cardinality(Holding) /\ CallsMatch /\ PhasesHold /\ FlushIsLast

\* A signal ends the process within the bound of Shutdown, whatever providers,
\* guests and clients do; and as long as there is no signal a hook with a timeout
\* ends, also when the guest does not return and the client stays.
ShutdownEnds ==
    \A r \in Requests :
        main = "draining" \/ (Bounded /\ InCall(r)) ~> main = "exited" \/ (main = "serving" /\ ~InCall(r))
=============================================================================
