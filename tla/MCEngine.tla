------------------------------ MODULE MCEngine ------------------------------
(***************************************************************************)
(* Small instances of Engine for TLC: three providers, one of them not     *)
(* registered and one without Anthropic support, three configs             *)
(* that differ in routes, keys and failover.                               *)
(***************************************************************************)
EXTENDS Engine, TLC

Body(m, p, o, det) == [model |-> m, provider |-> p, hashed |-> "h1", other |-> o, det |-> det]
Free == [models |-> {}, providers |-> {}]
OnlyP2 == [models |-> {}, providers |-> {"p2"}]
OnlyP3 == [models |-> {}, providers |-> {"p3"}]
OnlyM2 == [models |-> {"m2"}, providers |-> {}]
In(kind, b, scope) == [kind |-> kind, body |-> b, scope |-> scope]

Plain == Body("m1", None, "o1", TRUE)
Routed == Body("m2", None, "o1", FALSE)
Direct == Body("m2", "p1", "o1", TRUE)
Unknown == Body("m2", "p3", "o1", TRUE)
Empty == Body(None, None, "o1", TRUE)
MCBodies == {Plain, Routed, Direct, Unknown, Empty}

\* The pre-hooks rewrite one body to another.
Rewrite == [b \in Bodies |-> IF b = Routed THEN Plain ELSE b]

AllInputs == {In("chat", Plain, Free), In("chat", Routed, Free),
              In("chat", Empty, Free), In("chat", Plain, OnlyM2), In("chat", Plain, OnlyP3),
              In("stream", Plain, Free), In("embeddings", Plain, Free), In("anthropic", Plain, Free),
              In("passthrough", Direct, Free), In("passthrough", Unknown, Free)}

CONSTANTS r1, r2

\* One client may send anything; the other shares the cache with it.
ClientInputs == [r \in Requests |-> IF r = r1 THEN AllInputs ELSE {In("chat", Plain, OnlyP2)}]
EmbeddingInputs == [r \in Requests |-> {In("embeddings", Plain, Free)}]

Key(k, ms) == [key |-> k, models |-> ms]
On == [routes |-> [m1 |-> <<"p3", "p1", "p2">>, m2 |-> <<>>], default |-> "p2", enabled |-> TRUE,
       retries |-> 1, retryOn |-> {"429"},
       keys |-> [p1 |-> {Key("a", {"m1"})}, p2 |-> {Key("b", {}), Key("c", {"m2"})}, p3 |-> {}],
       stored |-> {"p1", "p2", "p3"}]
Off == [routes |-> [m1 |-> <<"p1", "p2">>, m2 |-> <<>>], default |-> None, enabled |-> FALSE,
        retries |-> 3, retryOn |-> {"429"},
        keys |-> [p1 |-> {Key("d", {})}, p2 |-> {Key("e", {"m2"})}, p3 |-> {}],
        stored |-> {"p2", "p3"}]
\* applyDefaults leaves a negative max_retries alone: the attempt loop is empty.
Negative == [On EXCEPT !.retries = -1]
Three == {On, Off, Negative}
OnlyOff == {Off}
=============================================================================
