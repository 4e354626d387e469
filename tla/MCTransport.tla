---------------------------- MODULE MCTransport -----------------------------
(***************************************************************************)
(* A small instance of Transport for TLC.                                  *)
(***************************************************************************)
EXTENDS Transport, TLC

\* Plugins in the order in which main registers them; the rate limiter, which acts
\* like a WASM plugin that comes first, is left out.
Registered == <<"requestlog", "tracing", "wasm">>

Counts == {[prompt |-> 0, completion |-> 0], [prompt |-> 1, completion |-> 2]}

\* Requests are interchangeable, and so are buffers.
TransportSymmetry == Permutations(Workers) \cup Permutations(Buffers)
=============================================================================
