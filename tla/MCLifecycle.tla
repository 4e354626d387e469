---------------------------- MODULE MCLifecycle -----------------------------
(***************************************************************************)
(* Two requests, a chat completion and a stream or embeddings (messages    *)
(* end as chat after a cache hit does); tracing is registered before the   *)
(* WASM plugin.                                                            *)
(***************************************************************************)
EXTENDS Lifecycle

CONSTANTS r1, r2

MCAsks == [r \in Callers |-> IF r = r1 THEN {"chat"} ELSE {"stream", "embeddings"}]
MCPlugins == <<"tracing", "wasm">>
=============================================================================
