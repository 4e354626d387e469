---------------------------- MODULE MemoryCache -----------------------------
(***************************************************************************)
(* The in-memory LRU cache (internal/cache/memory.go): a map of keys to    *)
(* list elements and a list of entries, most recently used first.  Every   *)
(* method runs under Memory.mu and is one step.                            *)
(***************************************************************************)
EXTENDS Integers, Sequences, FiniteSets

CONSTANTS
    Keys,        \* cache keys (DeriveKey results)
    Values,      \* response bodies
    TTLs,        \* lifetimes
    maxEntries,  \* cache.max_entries
    Nil,         \* no value
    MaxTime      \* bound on the clock

ASSUME CacheAssumption ==
    /\ Nil \notin Values
    /\ TTLs \subseteq Nat
    /\ maxEntries \in Nat
    /\ MaxTime \in Nat

VARIABLES
    now,        \* the injected clock
    items,      \* the keys of Memory.items
    evictList,  \* the entries, front first
    reply,      \* what the last call returned
    later       \* history: <<x, y>> if x was used after y was, last

vars == <<now, items, evictList, reply, later>>

Entries == [key : Keys, value : Values, expiresAt : Nat]

TypeOK ==
    /\ now \in 0..MaxTime
    /\ items \subseteq Keys
    /\ evictList \in Seq(Entries)
    /\ reply \in Values \cup {Nil}
    /\ later \subseteq Keys \X Keys

Init ==
    /\ now = 0
    /\ items = {}
    /\ evictList = <<>>
    /\ reply = Nil
    /\ later = {}

\* The list element that Memory.items has for key k, and its entry.
At(list, k) == CHOOSE n \in 1..Len(list) : list[n].key = k
Element(k) == evictList[At(evictList, k)]

\* The list without that element, and with it in front.
Without(list, k) == LET n == At(list, k) IN SubSeq(list, 1, n - 1) \o SubSeq(list, n + 1, Len(list))

\* Variant: the element stays where it is.
MoveToFrontNot(e) == evictList

MoveToFront(e) == <<e>> \o Without(evictList, e.key)

\* Key k is used now: after every other key, and none after it.
Use(k) == {p \in later : p[2] # k} \cup {<<k, y>> : y \in Keys \ {k}}

\* Variant: expiry is checked but the expired entry's value is returned.
GetExpired(k) ==
    /\ k \in items
    /\ Element(k).expiresAt < now
    /\ evictList' = Without(evictList, k)
    /\ items' = items \ {k}
    /\ reply' = Element(k).value
    /\ UNCHANGED <<now, later>>

\* An expired entry is removed on the way.
GetStale(k) ==
    /\ k \in items
    /\ Element(k).expiresAt < now
    /\ evictList' = Without(evictList, k)
    /\ items' = items \ {k}
    /\ reply' = Nil
    /\ UNCHANGED <<now, later>>

GetHit(k) ==
    /\ k \in items
    /\ now <= Element(k).expiresAt
    /\ evictList' = MoveToFront(Element(k))
    /\ reply' = Element(k).value
    /\ later' = Use(k)
    /\ UNCHANGED <<now, items>>

GetMiss(k) ==
    /\ k \notin items
    /\ reply' = Nil
    /\ UNCHANGED <<now, items, evictList, later>>

SetExisting(k, v, ttl) ==
    /\ k \in items
    /\ evictList' = MoveToFront([key |-> k, value |-> v, expiresAt |-> now + ttl])
    /\ reply' = Nil
    /\ later' = Use(k)
    /\ UNCHANGED <<now, items>>

\* Variant: room is made only once the list is longer than the limit.
removeOldestLate(list) == IF Len(list) > maxEntries + 1 THEN SubSeq(list, 1, Len(list) - 1) ELSE list

\* removeOldest, if the list has grown past the limit.
removeOldest(list) == IF Len(list) > maxEntries THEN SubSeq(list, 1, Len(list) - 1) ELSE list

SetNew(k, v, ttl) ==
    LET list == <<[key |-> k, value |-> v, expiresAt |-> now + ttl]>> \o evictList
        kept == removeOldest(list)
    IN  /\ k \notin items
        /\ evictList' = kept
        /\ items' = IF kept = list THEN items \cup {k}
                    ELSE (items \cup {k}) \ {list[Len(list)].key}
        /\ reply' = Nil
        /\ later' = Use(k)
        /\ UNCHANGED now

Tick ==
    /\ now < MaxTime
    /\ now' = now + 1
    /\ UNCHANGED <<items, evictList, reply, later>>

Next ==
    \/ \E k \in Keys : GetStale(k) \/ GetHit(k) \/ GetMiss(k)
    \/ \E k \in Keys, v \in Values, ttl \in TTLs : SetExisting(k, v, ttl) \/ SetNew(k, v, ttl)
    \/ Tick

Spec == Init /\ [][Next]_vars

(***************************************************************************)
(* Properties                                                              *)
(***************************************************************************)

Held == {evictList[n].key : n \in 1..Len(evictList)}

\* The map and the list hold the same keys, no key twice, and never more than
\* max_entries of them, expired ones included.
MapAndListAgree ==
    /\ TypeOK
    /\ items = Held
    /\ Cardinality(Held) = Len(evictList)
    /\ Len(evictList) <= maxEntries

\* The list is in order of last use, so what removeOldest takes is the least
\* recently used entry; a Get counts as a use.
ListInOrderOfUse ==
    \A m, n \in 1..Len(evictList) :
        m < n => /\ <<evictList[m].key, evictList[n].key>> \in later
                 /\ <<evictList[n].key, evictList[m].key>> \notin later

\* The cache does what Dispatch relies on: the held entries, seen as a function.
Store == [k \in Held |-> [value |-> Element(k).value, expires |-> Element(k).expiresAt]]
Abstract == INSTANCE CacheSpec WITH store <- Store, Capacity <- maxEntries

\* memory.go implements the contract of CacheSpec: no stale and no expired value
\* is ever returned, and the limit holds.
ImplementsCache == Abstract!Spec
=============================================================================
