------------------------------ MODULE WasmHost ------------------------------
(***************************************************************************)
(* The host of a WASM plugin (internal/plugin/wasm/plugin.go): a compiled  *)
(* module, and hook calls that each run in an instance of their own under  *)
(* a context that ends with the client's connection or the plugin's        *)
(* timeout.  What the guest computes is any of the outcomes that callers   *)
(* tell apart; it may also run for ever.                                   *)
(***************************************************************************)
EXTENDS Naturals, FiniteSets

CONSTANTS
    Callers,     \* the requests whose handlers call hooks
    Bounded      \* the plugin has a timeout (p.timeout > 0)

ASSUME WasmAssumption == IsFiniteSet(Callers) /\ Bounded \in BOOLEAN

VARIABLES
    compiled,    \* p.compiled: "none", "loaded", "closed" or "nil"
    active,      \* p.active
    hook         \* hook[r]: the call that the handler of r is in

wasmVars == <<compiled, active, hook>>

\* No call; ctx is the first reason for which the call's context ended.
NoCall == [pc |-> "off", ctx |-> "live", res |-> "none"]

Aborts == {"timeout", "canceled"}
Results == {"ok", "stop", "failed"} \cup Aborts

WasmTypeOK ==
    /\ compiled \in {"none", "loaded", "closed", "nil"}
    /\ active \in Nat
    /\ hook \in [Callers -> [pc : {"off", "entry", "instance", "run", "teardown", "returned", "panic"},
                             ctx : {"live", "timeout", "canceled"}, res : Results \cup {"none"}]]

WasmInit ==
    /\ compiled = "none" /\ active = 0
    /\ hook = [r \in Callers |-> NoCall]

\* Init compiles the module.
WasmLoad == compiled' = "loaded" /\ UNCHANGED <<active, hook>>

\* Close: the compiled module is closed, then forgotten.
WasmClose ==
    /\ compiled \in {"loaded", "closed"}
    /\ compiled' = IF compiled = "loaded" THEN "closed" ELSE "nil"
    /\ UNCHANGED <<active, hook>>

\* callContext: the call's context is derived from that of the request.
Enter(r, gone) ==
    [hook EXCEPT ![r] = [pc |-> "entry", ctx |-> IF gone THEN "canceled" ELSE "live", res |-> "none"]]

InCall(r) == hook[r].pc \in {"entry", "instance", "run"}

\* The context ends by the plugin's timeout.
Deadline(r) ==
    /\ Bounded /\ InCall(r) /\ hook[r].ctx = "live"
    /\ hook' = [hook EXCEPT ![r].ctx = "timeout"]
    /\ UNCHANGED <<compiled, active>>

\* The context ends because the client has left.
Abandoned(r) == [hook EXCEPT ![r].ctx = IF InCall(r) /\ @ = "live" THEN "canceled" ELSE @]

\* call returns without an instance, or with one that is to be torn down.
Return(r, res) == hook' = [hook EXCEPT ![r].pc = "returned", ![r].res = res]
Unwind(r, res) == hook' = [hook EXCEPT ![r].pc = "teardown", ![r].res = res]

\* Is the context still alive?  If not, boundsError names the reason.
CallEntry(r) ==
    /\ hook[r].pc = "entry"
    /\ IF hook[r].ctx = "live" THEN hook' = [hook EXCEPT ![r].pc = "instance"] ELSE Return(r, hook[r].ctx)
    /\ UNCHANGED <<compiled, active>>

\* p.compiled.Instance: fails on a closed module, or for a reason of its own; a
\* context that ends now is not told apart.  Without a module it panics.
CallInstance(r) ==
    /\ hook[r].pc = "instance"
    /\ \/ /\ compiled = "loaded"
          /\ hook' = [hook EXCEPT ![r].pc = "run"]
          /\ active' = active + 1
       \/ /\ compiled \in {"loaded", "closed"}
          /\ Return(r, "failed") /\ UNCHANGED active
       \/ /\ compiled = "nil"
          /\ hook' = [hook EXCEPT ![r].pc = "panic"] /\ UNCHANGED active
    /\ UNCHANGED compiled

\* The hook is not exported, or it returns: nothing or a reply ("ok"), a short
\* circuit, or what call reports as an error.
CallReturns(r) ==
    /\ hook[r].pc = "run"
    /\ \E res \in Results \ Aborts : Unwind(r, res)
    /\ UNCHANGED <<compiled, active>>

\* extism's own timer, which counts the plugin's timeout in whole milliseconds, may
\* stop the guest while the context is alive: boundsError goes by the exit code.
GuestDeadline(r) ==
    /\ Bounded /\ hook[r].pc = "run" /\ hook[r].ctx = "live"
    /\ Unwind(r, "timeout")
    /\ UNCHANGED <<compiled, active>>

\* Variant: an abort is reported as a timeout, whatever ended the context.
CallAbortsAsTimeout(r) ==
    /\ hook[r].pc = "run"
    /\ hook[r].ctx # "live" /\ Unwind(r, "timeout")
    /\ UNCHANGED <<compiled, active>>

\* wazero stops the guest: the context has ended, or its module was closed.
CallAborts(r) ==
    /\ hook[r].pc = "run"
    /\ \/ hook[r].ctx # "live" /\ Unwind(r, hook[r].ctx)
       \/ hook[r].ctx = "live" /\ compiled # "loaded" /\ Unwind(r, "failed")
    /\ UNCHANGED <<compiled, active>>

\* The deferred release of the instance.
CallTeardown(r) ==
    /\ hook[r].pc = "teardown"
    /\ hook' = [hook EXCEPT ![r].pc = "returned"]
    /\ active' = active - 1
    /\ UNCHANGED compiled

\* What the host does by itself; a guest that returns does so when it likes.
HostStep(r) == CallEntry(r) \/ CallInstance(r) \/ CallAborts(r) \/ CallTeardown(r)
=============================================================================
