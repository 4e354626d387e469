----------------------------- MODULE RateLimit ------------------------------
(***************************************************************************)
(* The rate limiter (internal/plugin/builtin/ratelimit/ratelimit.go):      *)
(* token buckets per app key, per client address or for everybody, filled  *)
(* at rpm tokens a minute, and the cleanup goroutine that drops buckets    *)
(* nobody has used for a while.  PreHTTP and a cleanup sweep each run      *)
(* under Plugin.mu and are one step.                                       *)
(*                                                                         *)
(* Time is counted in ticks, Minute of them a minute, and tokens in parts: *)
(* a token is Minute parts, so a bucket gains exactly rpm parts a tick and *)
(* the arithmetic stays in the integers.                                   *)
(***************************************************************************)
EXTENDS Integers

CONSTANTS
    AppKeys,       \* app keys that requests carry
    Addresses,     \* client addresses, as clientIP returns them
    NoAppKey,      \* a request without a key
    rpm,           \* requests_per_minute
    appKeyRPM,     \* per_app_key_rpm, 0 if unset
    appKeyLimits,  \* app_key_limits: a function on some of AppKeys
    Minute,        \* ticks per minute
    StaleAfter,    \* ticks after which cleanup drops an idle bucket
    Absent,        \* no bucket
    MaxTime        \* bound on the clock

\* The names of the buckets.
KeyBucket(k) == <<"appkey", k>>
AddressBucket(a) == <<"ip", a>>
Global == <<"global", NoAppKey>>
Buckets == {KeyBucket(k) : k \in AppKeys} \cup {AddressBucket(a) : a \in Addresses} \cup {Global}

ASSUME LimitAssumption ==
    /\ NoAppKey \notin AppKeys
    /\ rpm \in Nat \ {0} /\ appKeyRPM \in Nat
    /\ DOMAIN appKeyLimits \subseteq AppKeys /\ \A k \in DOMAIN appKeyLimits : appKeyLimits[k] \in Nat \ {0}
    /\ Minute \in Nat \ {0}
    /\ StaleAfter \in Nat /\ StaleAfter >= Minute
    /\ Absent \notin [tokens : Int, lastFill : Int]
    /\ MaxTime \in Nat

VARIABLES
    perAppKey,  \* per_app_key, read once by Init
    perIP,      \* per_ip, read once by Init
    now,        \* the clock
    buckets,    \* buckets[b]: parts in b and when they were counted, or Absent
    kept,       \* history: the buckets as they would be without cleanup
    window      \* history: per bucket, requests admitted since a chosen moment

config == <<perAppKey, perIP>>

vars == <<config, now, buckets, kept, window>>

resolveAppKeyRPM(k) ==
    IF k \in DOMAIN appKeyLimits THEN appKeyLimits[k]
    ELSE IF appKeyRPM > 0 THEN appKeyRPM
    ELSE rpm

Limit == [b \in Buckets |->
            IF \E k \in AppKeys : b = KeyBucket(k)
            THEN resolveAppKeyRPM(CHOOSE k \in AppKeys : b = KeyBucket(k))
            ELSE rpm]

\* A bucket's parts lie between none and the burst it allows.
Bucket(b) == [tokens : 0..Limit[b] * Minute, lastFill : 0..now] \cup {Absent}

TypeOK ==
    /\ perAppKey \in BOOLEAN /\ perIP \in BOOLEAN
    /\ now \in Nat
    /\ DOMAIN buckets = Buckets /\ DOMAIN kept = Buckets
    /\ \A b \in Buckets : buckets[b] \in Bucket(b) /\ kept[b] \in Bucket(b)
    /\ window \in [Buckets -> [start : 0..now, admitted : Nat]]

newBucket(b) == [tokens |-> Limit[b] * Minute, lastFill |-> now]

\* The plugin's Init creates the global bucket; the others, and the global one
\* of a plugin without configuration, are created full by their first request.
Init ==
    /\ perAppKey \in BOOLEAN /\ perIP \in BOOLEAN
    /\ now = 0
    /\ \E g \in IF perAppKey \/ perIP THEN {newBucket(Global)} ELSE {newBucket(Global), Absent} :
           buckets = [b \in Buckets |-> IF b = Global THEN g ELSE Absent]
    /\ kept = buckets
    /\ window = [b \in Buckets |-> [start |-> 0, admitted |-> 0]]

\* Priority: app key, then address, then the global bucket.
getBucket(k, a) ==
    IF perAppKey /\ k # NoAppKey THEN KeyBucket(k)
    ELSE IF perIP THEN AddressBucket(a)
    ELSE Global

\* Variant: the bucket is refilled without the cap.
filledUncapped(s, b, t) ==
    IF s = Absent THEN Limit[b] * Minute ELSE s.tokens + (t - s.lastFill) * Limit[b]

\* The parts in a bucket at time t; one that is absent would be created full.
filled(s, b, t) ==
    IF s = Absent THEN Limit[b] * Minute
    ELSE IF s.tokens + (t - s.lastFill) * Limit[b] > Limit[b] * Minute THEN Limit[b] * Minute
    ELSE s.tokens + (t - s.lastFill) * Limit[b]

\* Variant: a request is admitted as long as any part of a token is left.
allowPart(s, b) == filled(s, b, now) > 0

allow(s, b) == filled(s, b, now) >= Minute

\* The bucket after allow: refilled, and one token taken if it was admitted.
spend(s, b) ==
    [tokens |-> IF allow(s, b) THEN filled(s, b, now) - Minute ELSE filled(s, b, now),
     lastFill |-> now]

\* A request with app key k from address a is admitted or answered 429.
PreHTTP(k, a) ==
    LET b == getBucket(k, a) IN
    /\ buckets' = [buckets EXCEPT ![b] = spend(buckets[b], b)]
    /\ kept' = [kept EXCEPT ![b] = spend(kept[b], b)]
    /\ window' = IF allow(buckets[b], b)
                 THEN [window EXCEPT ![b].admitted = window[b].admitted + 1]
                 ELSE window
    /\ UNCHANGED <<config, now>>

\* Variant: a sweep drops whatever was not used in this very tick.
CleanupEager ==
    /\ perAppKey \/ perIP
    /\ buckets' = [b \in Buckets |->
                     IF b # Global /\ buckets[b] # Absent /\ now > buckets[b].lastFill
                     THEN Absent ELSE buckets[b]]
    /\ UNCHANGED <<config, now, kept, window>>

\* A sweep of the cleanup goroutine; the global bucket is not in the map.
Cleanup ==
    /\ perAppKey \/ perIP
    /\ buckets' = [b \in Buckets |->
                     IF b # Global /\ buckets[b] # Absent /\ now - buckets[b].lastFill > StaleAfter
                     THEN Absent ELSE buckets[b]]
    /\ UNCHANGED <<config, now, kept, window>>

Tick ==
    /\ now < MaxTime
    /\ now' = now + 1
    /\ UNCHANGED <<config, buckets, kept, window>>

\* An observer starts to count the admissions of the bucket of k and a.
Observe(k, a) ==
    LET b == getBucket(k, a) IN
    /\ window' = [window EXCEPT ![b] = [start |-> now, admitted |-> 0]]
    /\ UNCHANGED <<config, now, buckets, kept>>

Next ==
    \/ \E k \in AppKeys \cup {NoAppKey}, a \in Addresses : PreHTTP(k, a) \/ Observe(k, a)
    \/ Cleanup
    \/ Tick

Spec == Init /\ [][Next]_vars

(***************************************************************************)
(* Properties                                                              *)
(***************************************************************************)

\* In every stretch of time a bucket admits at most its burst of rpm requests
\* and rpm more per minute, whoever shares it and however often it is dropped
\* and created again.
RateBound ==
    \A b \in Buckets :
        window[b].admitted * Minute <= Limit[b] * Minute + (now - window[b].start) * Limit[b]

\* Dropping a bucket cannot be noticed: it would be full by now, and a new one
\* starts full, so every later request is decided as if nothing was dropped.
CleanupUnnoticed ==
    \A b \in Buckets : filled(buckets[b], b, now) = filled(kept[b], b, now)
=============================================================================
