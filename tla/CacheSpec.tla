----------------------------- MODULE CacheSpec ------------------------------
(***************************************************************************)
(* What the engine expects of a response cache (internal/cache/cache.go,   *)
(* and its use in proxy.Engine.Dispatch): a Get returns nothing, or the    *)
(* value of the last Set of that key if its lifetime has not passed.  A    *)
(* cache may forget any entry at any Set, and holds at most Capacity of    *)
(* them.                                                                   *)
(***************************************************************************)
EXTENDS Integers, FiniteSets

CONSTANTS Keys, Values, TTLs, Capacity, Nil

VARIABLES
    now,     \* the clock
    store,   \* a function from the keys held to [value, expires]
    reply    \* what the last call returned

specVars == <<now, store, reply>>

Only(f, D) == [k \in D |-> f[k]]

Init ==
    /\ now = 0
    /\ store = Only([k \in Keys |-> Nil], {})
    /\ reply = Nil

Get(k) ==
    \/ /\ k \in DOMAIN store
       /\ now <= store[k].expires
       /\ reply' = store[k].value
       /\ UNCHANGED <<now, store>>
    \/ /\ k \in DOMAIN store => store[k].expires < now
       /\ reply' = Nil
       /\ store' = Only(store, DOMAIN store \ {k})
       /\ UNCHANGED now

Set(k, v, ttl) ==
    LET full == [x \in DOMAIN store \cup {k} |->
                    IF x = k THEN [value |-> v, expires |-> now + ttl] ELSE store[x]]
    IN  /\ \E D \in SUBSET DOMAIN full : Cardinality(D) <= Capacity /\ store' = Only(full, D)
        /\ reply' = Nil
        /\ UNCHANGED now

Tick ==
    /\ now' = now + 1
    /\ UNCHANGED <<store, reply>>

Next ==
    \/ \E k \in Keys : Get(k)
    \/ \E k \in Keys, v \in Values, ttl \in TTLs : Set(k, v, ttl)
    \/ Tick

Spec == Init /\ [][Next]_specVars
=============================================================================
