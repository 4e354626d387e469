--------------------------- MODULE BackgroundProofs ---------------------------
(***************************************************************************)
(* What runs in goroutines beside the handlers.                            *)
(*                                                                         *)
(* RateLimit, for every limit, every key set and every time: the buckets   *)
(* keep their type, the rate they admit is bounded, and the cleanup        *)
(* goroutine changes no decision.                                          *)
(*                                                                         *)
(* Watcher, for every number of writes of the file: between two checks, a  *)
(* file that check would not look at again is the one in force.            *)
(*                                                                         *)
(* Usage, for any number of goroutines of RecordRequest and any            *)
(* surroundings that start each of them once: every request is counted     *)
(* once, in the totals and in its model, and a Snapshot never shows more   *)
(* in its models than in its totals.                                       *)
(***************************************************************************)
EXTENDS RateLimit, Watcher, Usage, FiniteSetTheorems, TLAPS

\* What keeps the rate bounded: admissions and remaining parts together never
\* exceed the burst and what was filled in since the window opened.
Potential ==
    \A b \in Buckets :
        window[b].admitted * Minute + filled(buckets[b], b, now)
            <= Limit[b] * Minute + (now - window[b].start) * Limit[b]

\* From now on the bucket and its uncleaned twin hold the same number of parts.
SameFuture ==
    \A b \in Buckets, t \in Nat :
        t >= now => filled(buckets[b], b, t) = filled(kept[b], b, t)

\* Every limit that resolveAppKeyRPM can return is positive.
LEMMA LimitPositive == \A b \in Buckets : Limit[b] \in Nat \ {0}
<1> SUFFICES ASSUME NEW b \in Buckets PROVE Limit[b] \in Nat \ {0}
    BY Zenon
<1>1. CASE \E k \in AppKeys : b = KeyBucket(k)
  <2> DEFINE c == CHOOSE k \in AppKeys : b = KeyBucket(k)
  <2>1. c \in AppKeys
    BY <1>1, Zenon
  <2>2. Limit[b] = resolveAppKeyRPM(c)
    BY <1>1, Zenon DEF Limit
  <2> HIDE DEF c
  <2> QED
    BY <2>1, <2>2, LimitAssumption DEF resolveAppKeyRPM
<1>2. CASE ~ \E k \in AppKeys : b = KeyBucket(k)
  BY <1>2, LimitAssumption, Zenon DEF Limit
<1> QED
    BY <1>1, <1>2, Zenon

\* getBucket names a bucket (of this plugin, whatever its mode).
LEMMA GetBucketType ==
    \A k \in AppKeys \cup {NoAppKey}, a \in Addresses : getBucket(k, a) \in Buckets
BY Zenon DEF getBucket, Buckets

\* A product of naturals is a natural.
LEMMA ProductNat == \A x, y \in Nat : x * y \in Nat
OBVIOUS

\* Multiplication distributes over a step of the clock.
LEMMA Distribute == \A x, r \in Nat : (x + 1) * r = x * r + r
OBVIOUS

\* Multiplication of integers commutes.
LEMMA Commute == \A x, y \in Int : x * y = y * x /\ x * y \in Int
OBVIOUS

\* Multiplication by a natural is monotone.
LEMMA Monotone == \A x, y \in Int, r \in Nat : x <= y => x * r <= y * r
OBVIOUS

\* A bucket filled at any later time holds between no parts and its burst.
LEMMA FilledType ==
    ASSUME TypeOK, NEW b \in Buckets, NEW s \in Bucket(b), NEW t \in Nat, t >= now
    PROVE  filled(s, b, t) \in 0..Limit[b] * Minute
<1>1. Limit[b] \in Nat /\ Minute \in Nat /\ Limit[b] * Minute \in Nat
  BY LimitPositive, LimitAssumption, ProductNat, Zenon
<1>2. CASE s = Absent
  BY <1>1, <1>2 DEF filled
<1>3. CASE s # Absent
  <2>1. s.tokens \in 0..Limit[b] * Minute /\ s.lastFill \in 0..now /\ now \in Nat
    BY <1>3, Zenon DEF Bucket, TypeOK
  <2>2. t - s.lastFill \in Nat
    BY <2>1
  <2>3. (t - s.lastFill) * Limit[b] \in Nat
    BY <2>2, <1>1, ProductNat, Zenon
  <2> QED
    BY <1>1, <1>3, <2>1, <2>3 DEF filled
<1> QED
    BY <1>2, <1>3, Zenon

\* One tick adds at most Limit[b] parts.
LEMMA FilledTick ==
    ASSUME TypeOK, NEW b \in Buckets, NEW s \in Bucket(b), NEW t \in Nat, t >= now
    PROVE  filled(s, b, t + 1) <= filled(s, b, t) + Limit[b]
<1>1. Limit[b] \in Nat /\ Minute \in Nat /\ Limit[b] * Minute \in Nat
  BY LimitPositive, LimitAssumption, ProductNat, Zenon
<1>2. CASE s = Absent
  BY <1>1, <1>2 DEF filled
<1>3. CASE s # Absent
  <2>1. s.tokens \in 0..Limit[b] * Minute /\ s.lastFill \in 0..now /\ now \in Nat
    BY <1>3, Zenon DEF Bucket, TypeOK
  <2>2. PICK e \in Nat : e = t - s.lastFill
    BY <2>1
  <2>3. (t + 1 - s.lastFill) * Limit[b] = e * Limit[b] + Limit[b]
    <3>1. t + 1 - s.lastFill = e + 1
      BY <2>1, <2>2
    <3>2. (e + 1) * Limit[b] = e * Limit[b] + Limit[b]
      BY <1>1, Distribute, Zenon
    <3> QED
      BY <3>1, <3>2, Zenon
  <2>4. e * Limit[b] \in Nat
    BY <1>1, ProductNat, Zenon
  <2> QED
    BY <1>1, <1>3, <2>1, <2>2, <2>3, <2>4 DEF filled
<1> QED
    BY <1>2, <1>3, Zenon

\* allow leaves a well-formed bucket counted at this moment.
LEMMA SpendType ==
    ASSUME TypeOK, NEW b \in Buckets, NEW s \in Bucket(b)
    PROVE  /\ spend(s, b) \in Bucket(b)
           /\ spend(s, b) # Absent
           /\ filled(spend(s, b), b, now) =
                IF allow(s, b) THEN filled(s, b, now) - Minute ELSE filled(s, b, now)
<1>1. Limit[b] \in Nat /\ Minute \in Nat /\ Limit[b] * Minute \in Nat /\ now \in Nat
  BY LimitPositive, LimitAssumption, ProductNat, Zenon DEF TypeOK
<1>2. filled(s, b, now) \in 0..Limit[b] * Minute
  BY FilledType, <1>1
<1> DEFINE left == IF allow(s, b) THEN filled(s, b, now) - Minute ELSE filled(s, b, now)
<1>3. left \in 0..Limit[b] * Minute
  BY <1>1, <1>2 DEF allow
<1>4. spend(s, b) = [tokens |-> left, lastFill |-> now]
  BY Zenon DEF spend
<1> HIDE DEF left
<1>5. spend(s, b) \in [tokens : 0..Limit[b] * Minute, lastFill : 0..now]
  BY <1>1, <1>3, <1>4
<1>6. spend(s, b) # Absent
  <2>1. left \in Int /\ now \in Int
    BY <1>1, <1>3
  <2>2. [tokens |-> left, lastFill |-> now] \in [tokens : Int, lastFill : Int]
    BY <2>1, Zenon
  <2> QED
    BY <1>4, <2>2, LimitAssumption, Zenon
<1>7. filled(spend(s, b), b, now) = left
  <2>1. (now - now) * Limit[b] = 0
    BY <1>1
  <2>2. spend(s, b).tokens = left /\ spend(s, b).lastFill = now
    BY <1>4
  <2> QED
    BY <1>1, <1>3, <1>6, <2>1, <2>2 DEF filled
<1> QED
    BY <1>5, <1>6, <1>7, Zenon DEF Bucket, left

\* A bucket untouched for longer than StaleAfter is full now and stays so.
LEMMA StaleIsFull ==
    ASSUME TypeOK, NEW b \in Buckets, buckets[b] # Absent, now - buckets[b].lastFill > StaleAfter,
           NEW t \in Nat, t >= now
    PROVE  filled(buckets[b], b, t) = Limit[b] * Minute
<1>1. Limit[b] \in Nat /\ Minute \in Nat /\ Limit[b] * Minute \in Nat /\ now \in Nat
  BY LimitPositive, LimitAssumption, ProductNat, Zenon DEF TypeOK
<1>2. buckets[b].tokens \in Nat /\ buckets[b].lastFill \in Nat
  BY <1>1 DEF TypeOK, Bucket
<1>3. PICK e \in Int : e = t - buckets[b].lastFill
  BY <1>2
<1>4. Minute <= e
  BY <1>1, <1>2, <1>3, LimitAssumption
<1>5. Minute * Limit[b] <= e * Limit[b]
  BY <1>1, <1>4, Monotone
<1>6. Minute * Limit[b] = Limit[b] * Minute /\ e * Limit[b] \in Int
  BY <1>1, Commute
<1> QED
    BY <1>1, <1>2, <1>3, <1>5, <1>6 DEF filled

\* The invariant holds at the start.
LEMMA InvInit == Init => TypeOK /\ Potential /\ SameFuture
<1> SUFFICES ASSUME Init PROVE TypeOK /\ Potential /\ SameFuture
    BY Zenon
<1>1. now = 0 /\ kept = buckets
  BY Zenon DEF Init
<1>2. \A b \in Buckets : Limit[b] \in Nat /\ Minute \in Nat /\ Limit[b] * Minute \in Nat
  BY LimitPositive, LimitAssumption, ProductNat, Zenon
<1>3. \A b \in Buckets : newBucket(b) \in Bucket(b)
  BY <1>1, <1>2 DEF newBucket, Bucket
<1>4. /\ DOMAIN buckets = Buckets
      /\ \A b \in Buckets : buckets[b] \in Bucket(b)
  BY <1>3, Zenon DEF Init, Bucket
<1>5. window = [b \in Buckets |-> [start |-> 0, admitted |-> 0]]
  BY Zenon DEF Init
<1>6. window \in [Buckets -> [start : 0..now, admitted : Nat]]
  BY <1>1, <1>5
<1>7. TypeOK
  BY <1>1, <1>4, <1>6 DEF TypeOK, Init
<1>8. Potential
  <2> SUFFICES ASSUME NEW b \in Buckets
               PROVE  window[b].admitted * Minute + filled(buckets[b], b, now)
                        <= Limit[b] * Minute + (now - window[b].start) * Limit[b]
      BY Zenon DEF Potential
  <2>1. filled(buckets[b], b, now) \in 0..Limit[b] * Minute
    BY <1>1, <1>4, <1>7, FilledType
  <2>2. window[b].admitted * Minute = 0 /\ (now - window[b].start) * Limit[b] = 0
    BY <1>1, <1>2, <1>5
  <2> QED
    BY <1>2, <2>1, <2>2
<1> QED
    BY <1>1, <1>7, <1>8, Zenon DEF SameFuture

\* A request keeps the invariant: what it spends it is charged for, and the two
\* copies of its bucket are spent alike.
LEMMA StepPreHTTP ==
    ASSUME TypeOK, Potential, SameFuture,
           NEW k \in AppKeys \cup {NoAppKey}, NEW a \in Addresses, PreHTTP(k, a)
    PROVE  TypeOK' /\ Potential' /\ SameFuture'
<1>1. PICK c \in Buckets : c = getBucket(k, a)
  BY GetBucketType, Zenon
<1>2. /\ buckets' = [buckets EXCEPT ![c] = spend(buckets[c], c)]
      /\ kept' = [kept EXCEPT ![c] = spend(kept[c], c)]
      /\ window' = IF allow(buckets[c], c)
                   THEN [window EXCEPT ![c].admitted = window[c].admitted + 1]
                   ELSE window
      /\ now' = now /\ perAppKey' = perAppKey /\ perIP' = perIP
  BY <1>1, Zenon DEF PreHTTP, config
<1>3. /\ DOMAIN buckets = Buckets /\ DOMAIN kept = Buckets /\ now \in Nat
      /\ \A b \in Buckets : buckets[b] \in Bucket(b) /\ kept[b] \in Bucket(b)
      /\ window \in [Buckets -> [start : 0..now, admitted : Nat]]
  BY Zenon DEF TypeOK
<1>4. \A b \in Buckets : Bucket(b)' = Bucket(b)
  BY <1>2, Zenon DEF Bucket
<1>5. \A b \in Buckets : Limit[b] \in Nat /\ Limit[b] * Minute \in Nat
  BY LimitPositive, LimitAssumption, ProductNat, Zenon
<1>6. TypeOK'
  <2>1. spend(buckets[c], c) \in Bucket(c) /\ spend(kept[c], c) \in Bucket(c)
    BY <1>3, SpendType, Zenon
  <2>2. /\ DOMAIN buckets' = Buckets /\ DOMAIN kept' = Buckets
        /\ \A b \in Buckets : buckets'[b] \in Bucket(b) /\ kept'[b] \in Bucket(b)
    BY <1>2, <1>3, <2>1, Zenon
  <2>3. window' \in [Buckets -> [start : 0..now, admitted : Nat]]
    BY <1>2, <1>3
  <2> QED
    BY <1>2, <1>3, <1>4, <2>2, <2>3 DEF TypeOK
<1>7. Potential'
  <2> SUFFICES ASSUME NEW b \in Buckets
               PROVE  window'[b].admitted * Minute + filled(buckets'[b], b, now)
                        <= Limit[b] * Minute + (now - window'[b].start) * Limit[b]
      BY <1>2 DEF Potential, filled
  <2>1. window[b].admitted * Minute + filled(buckets[b], b, now)
          <= Limit[b] * Minute + (now - window[b].start) * Limit[b]
    BY Zenon DEF Potential
  <2>2. CASE b = c
    <3>1. filled(buckets'[c], c, now) =
            IF allow(buckets[c], c) THEN filled(buckets[c], c, now) - Minute
            ELSE filled(buckets[c], c, now)
      BY <1>2, <1>3, SpendType, Zenon
    <3>2. window'[c].start = window[c].start
      BY <1>2, <1>3, Zenon
    <3>3. CASE allow(buckets[c], c)
      <4>1. window'[c].admitted = window[c].admitted + 1
        BY <1>2, <1>3, <3>3, Zenon
      <4>2. window[c].admitted \in Nat /\ Minute \in Nat
        BY <1>3, LimitAssumption, Zenon
      <4>3. window'[c].admitted * Minute = window[c].admitted * Minute + Minute
        BY <4>1, <4>2, Distribute, Zenon
      <4>4. filled(buckets[c], c, now) \in Int /\ window[c].admitted * Minute \in Int
        BY <1>3, <1>5, <4>2, FilledType, ProductNat
      <4>5. window'[c].admitted * Minute + filled(buckets'[c], c, now)
              = window[c].admitted * Minute + filled(buckets[c], c, now)
        BY <3>1, <3>3, <4>2, <4>3, <4>4
      <4> QED
        BY <2>1, <2>2, <3>2, <4>5, Zenon
    <3>4. CASE ~ allow(buckets[c], c)
      BY <1>2, <2>1, <2>2, <3>1, <3>4, Zenon
    <3> QED
      BY <3>3, <3>4, Zenon
  <2>3. CASE b # c
    <3>1. buckets'[b] = buckets[b] /\ window'[b] = window[b]
      BY <1>2, <1>3, <2>3, Zenon
    <3> QED
      BY <2>1, <3>1, Zenon
  <2> QED
    BY <2>2, <2>3, Zenon
<1>8. SameFuture'
  <2>1. filled(buckets[c], c, now) = filled(kept[c], c, now)
    BY <1>3 DEF SameFuture
  <2>2. spend(buckets[c], c) = spend(kept[c], c)
    BY <2>1, Zenon DEF spend, allow
  <2>3. \A b \in Buckets : \/ buckets'[b] = buckets[b] /\ kept'[b] = kept[b]
                          \/ buckets'[b] = kept'[b]
    BY <1>2, <1>3, <2>2, Zenon
  <2> SUFFICES ASSUME NEW b \in Buckets, NEW t \in Nat, t >= now
               PROVE  filled(buckets'[b], b, t) = filled(kept'[b], b, t)
      BY <1>2 DEF SameFuture, filled
  <2> QED
    BY <2>3, Zenon DEF SameFuture
<1> QED
    BY <1>6, <1>7, <1>8, Zenon

\* A sweep keeps the invariant: what it drops was full and would have stayed full.
LEMMA StepCleanup ==
    ASSUME TypeOK, Potential, SameFuture, Cleanup
    PROVE  TypeOK' /\ Potential' /\ SameFuture'
<1>1. /\ now' = now /\ kept' = kept /\ window' = window
      /\ perAppKey' = perAppKey /\ perIP' = perIP
      /\ DOMAIN buckets' = Buckets
  BY Zenon DEF Cleanup, config
<1>2. now \in Nat /\ \A b \in Buckets : buckets[b] \in Bucket(b)
  BY Zenon DEF TypeOK
<1>3. \A b \in Buckets : buckets'[b] \in {buckets[b], Absent}
  BY Zenon DEF Cleanup
<1>4. ASSUME NEW b \in Buckets, NEW t \in Nat, t >= now
      PROVE  filled(buckets'[b], b, t) = filled(buckets[b], b, t)
  <2>1. CASE b # Global /\ buckets[b] # Absent /\ now - buckets[b].lastFill > StaleAfter
    <3>1. buckets'[b] = Absent
      BY <2>1, Zenon DEF Cleanup
    <3>2. filled(buckets[b], b, t) = Limit[b] * Minute
      BY <1>4, <2>1, StaleIsFull, Zenon
    <3> QED
      BY <3>1, <3>2, Zenon DEF filled
  <2>2. CASE ~(b # Global /\ buckets[b] # Absent /\ now - buckets[b].lastFill > StaleAfter)
    BY <2>2, Zenon DEF Cleanup
  <2> QED
    BY <2>1, <2>2, Zenon
<1>5. TypeOK'
  <2>1. \A b \in Buckets : Bucket(b)' = Bucket(b) /\ Absent \in Bucket(b)
    BY <1>1, Zenon DEF Bucket
  <2>2. \A b \in Buckets : buckets'[b] \in Bucket(b)
    BY <1>2, <1>3, <2>1, Zenon
  <2> QED
    BY <1>1, <2>1, <2>2, Zenon DEF TypeOK
<1>6. Potential'
  <2> SUFFICES ASSUME NEW b \in Buckets
               PROVE  window[b].admitted * Minute + filled(buckets'[b], b, now)
                        <= Limit[b] * Minute + (now - window[b].start) * Limit[b]
      BY <1>1, Zenon DEF Potential, filled
  <2>1. filled(buckets'[b], b, now) = filled(buckets[b], b, now)
    BY <1>2, <1>4
  <2> QED
    BY <2>1, Zenon DEF Potential
<1>7. SameFuture'
  <2> SUFFICES ASSUME NEW b \in Buckets, NEW t \in Nat, t >= now
               PROVE  filled(buckets'[b], b, t) = filled(kept[b], b, t)
      BY <1>1 DEF SameFuture, filled
  <2> QED
    BY <1>4, Zenon DEF SameFuture
<1> QED
    BY <1>5, <1>6, <1>7, Zenon

\* A tick keeps the invariant: both sides of the potential grow by the limit.
LEMMA StepTick ==
    ASSUME TypeOK, Potential, SameFuture, Tick
    PROVE  TypeOK' /\ Potential' /\ SameFuture'
<1>1. /\ now' = now + 1 /\ buckets' = buckets /\ kept' = kept /\ window' = window
      /\ perAppKey' = perAppKey /\ perIP' = perIP
  BY Zenon DEF Tick, config
<1>2. /\ now \in Nat
      /\ \A b \in Buckets : buckets[b] \in Bucket(b)
      /\ window \in [Buckets -> [start : 0..now, admitted : Nat]]
  BY Zenon DEF TypeOK
<1>3. TypeOK'
  <2>1. 0..now \subseteq 0..now'
    BY <1>1, <1>2
  <2>2. \A b \in Buckets : Bucket(b) \subseteq Bucket(b)'
    <3> SUFFICES ASSUME NEW b \in Buckets, NEW s \in Bucket(b) PROVE s \in Bucket(b)'
        BY Zenon
    <3> QED
      BY <2>1, Zenon DEF Bucket
  <2>3. window' \in [Buckets -> [start : 0..now', admitted : Nat]]
    BY <1>1, <1>2, <2>1, Zenon
  <2>4. \A b \in Buckets : buckets'[b] \in Bucket(b)' /\ kept'[b] \in Bucket(b)'
    BY <1>1, <2>2, Zenon DEF TypeOK
  <2>5. now' \in Nat
    BY <1>1, <1>2
  <2> QED
    BY <1>1, <2>3, <2>4, <2>5, Zenon DEF TypeOK
<1>4. Potential'
  <2> SUFFICES ASSUME NEW b \in Buckets
               PROVE  (window[b].admitted * Minute + filled(buckets[b], b, now)
                        <= Limit[b] * Minute + (now - window[b].start) * Limit[b])'
      BY Zenon DEF Potential
  <2>1. Limit[b] \in Nat /\ Minute \in Nat /\ Limit[b] * Minute \in Nat
    BY LimitPositive, LimitAssumption, ProductNat, Zenon
  <2>2. PICK e \in Nat : e = now - window[b].start
    BY <1>2
  <2>3. (now' - window'[b].start) * Limit[b] = e * Limit[b] + Limit[b]
    <3>1. now' - window'[b].start = e + 1
      BY <1>1, <1>2, <2>2
    <3>2. (e + 1) * Limit[b] = e * Limit[b] + Limit[b]
      BY <2>1, Distribute, Zenon
    <3> QED
      BY <3>1, <3>2, Zenon
  <2>4. filled(buckets[b], b, now + 1) <= filled(buckets[b], b, now) + Limit[b]
    BY <1>2, FilledTick
  <2>5. /\ filled(buckets[b], b, now) \in Int /\ filled(buckets[b], b, now + 1) \in Int
        /\ window[b].admitted * Minute \in Int /\ e * Limit[b] \in Int
    <3>1. filled(buckets[b], b, now) \in 0..Limit[b] * Minute
      BY <1>2, FilledType
    <3>2. filled(buckets[b], b, now + 1) \in 0..Limit[b] * Minute
      BY <1>2, FilledType
    <3>3. window[b].admitted \in Nat
      BY <1>2, Zenon
    <3> QED
      BY <2>1, <3>1, <3>2, <3>3, ProductNat
  <2>6. window[b].admitted * Minute + filled(buckets[b], b, now) <= Limit[b] * Minute + e * Limit[b]
    BY <2>2, Zenon DEF Potential
  <2>7. window[b].admitted * Minute + filled(buckets[b], b, now + 1)
          <= Limit[b] * Minute + (e * Limit[b] + Limit[b])
    BY <2>1, <2>4, <2>5, <2>6
  <2>8. filled(buckets[b], b, now)' = filled(buckets[b], b, now + 1)
    BY <1>1, Zenon DEF filled
  <2> QED
    BY <1>1, <2>3, <2>7, <2>8, Zenon
<1>5. SameFuture'
  <2> SUFFICES ASSUME NEW b \in Buckets, NEW t \in Nat, t >= now + 1
               PROVE  filled(buckets[b], b, t) = filled(kept[b], b, t)
      BY <1>1 DEF SameFuture, filled
  <2>1. t >= now
    BY <1>2
  <2> QED
    BY <2>1, Zenon DEF SameFuture
<1> QED
    BY <1>3, <1>4, <1>5, Zenon

\* Opening a window keeps the invariant: a bucket holds no more than its burst.
LEMMA StepObserve ==
    ASSUME TypeOK, Potential, SameFuture,
           NEW k \in AppKeys \cup {NoAppKey}, NEW a \in Addresses, Observe(k, a)
    PROVE  TypeOK' /\ Potential' /\ SameFuture'
<1>1. PICK c \in Buckets : c = getBucket(k, a)
  BY GetBucketType, Zenon
<1>2. /\ window' = [window EXCEPT ![c] = [start |-> now, admitted |-> 0]]
      /\ now' = now /\ buckets' = buckets /\ kept' = kept
      /\ perAppKey' = perAppKey /\ perIP' = perIP
  BY <1>1, Zenon DEF Observe, config
<1>3. /\ now \in Nat
      /\ \A b \in Buckets : buckets[b] \in Bucket(b)
      /\ window \in [Buckets -> [start : 0..now, admitted : Nat]]
  BY Zenon DEF TypeOK
<1>4. TypeOK'
  <2>1. \A b \in Buckets : Bucket(b)' = Bucket(b)
    BY <1>2, Zenon DEF Bucket
  <2>2. window' \in [Buckets -> [start : 0..now, admitted : Nat]]
    BY <1>2, <1>3
  <2> QED
    BY <1>2, <2>1, <2>2 DEF TypeOK
<1>5. Potential'
  <2> SUFFICES ASSUME NEW b \in Buckets
               PROVE  window'[b].admitted * Minute + filled(buckets[b], b, now)
                        <= Limit[b] * Minute + (now - window'[b].start) * Limit[b]
      BY <1>2, Zenon DEF Potential, filled
  <2>1. CASE b = c
    <3>1. window'[b].admitted = 0 /\ window'[b].start = now
      BY <1>2, <1>3, <2>1, Zenon
    <3>2. Limit[b] \in Nat /\ Minute \in Nat /\ Limit[b] * Minute \in Nat
      BY LimitPositive, LimitAssumption, ProductNat, Zenon
    <3>3. filled(buckets[b], b, now) \in 0..Limit[b] * Minute
      BY <1>3, FilledType
    <3>4. 0 * Minute = 0 /\ (now - now) * Limit[b] = 0
      BY <1>3, <3>2
    <3> QED
      BY <3>1, <3>2, <3>3, <3>4
  <2>2. CASE b # c
    <3>1. window'[b] = window[b]
      BY <1>2, <1>3, <2>2, Zenon
    <3> QED
      BY <3>1, Zenon DEF Potential
  <2> QED
    BY <2>1, <2>2, Zenon
<1>6. SameFuture'
  BY <1>2 DEF SameFuture, filled
<1> QED
    BY <1>4, <1>5, <1>6, Zenon

\* The invariant holds for every value of the constants: the buckets are well
\* formed, the potential is bounded and cleanup has no effect on the future.
THEOREM LimiterInvariant == Spec => [](TypeOK /\ Potential /\ SameFuture)
<1>1. TypeOK /\ Potential /\ SameFuture /\ [Next]_vars => (TypeOK /\ Potential /\ SameFuture)'
  <2> SUFFICES ASSUME TypeOK, Potential, SameFuture, [Next]_vars
               PROVE  (TypeOK /\ Potential /\ SameFuture)'
      BY Zenon
  <2>1. ASSUME NEW k \in AppKeys \cup {NoAppKey}, NEW a \in Addresses, PreHTTP(k, a)
        PROVE  (TypeOK /\ Potential /\ SameFuture)'
    BY <2>1, StepPreHTTP, Zenon
  <2>2. ASSUME NEW k \in AppKeys \cup {NoAppKey}, NEW a \in Addresses, Observe(k, a)
        PROVE  (TypeOK /\ Potential /\ SameFuture)'
    BY <2>2, StepObserve, Zenon
  <2>3. CASE Cleanup
    BY <2>3, StepCleanup, Zenon
  <2>4. CASE Tick
    BY <2>4, StepTick, Zenon
  <2>5. CASE UNCHANGED vars
    <3>1. /\ now' = now /\ buckets' = buckets /\ kept' = kept /\ window' = window
          /\ perAppKey' = perAppKey /\ perIP' = perIP
      BY <2>5, Zenon DEF vars, config
    <3>2. TypeOK'
      BY <3>1, Zenon DEF TypeOK, Bucket
    <3>3. Potential' /\ SameFuture'
      BY <3>1 DEF Potential, SameFuture, filled
    <3> QED
      BY <3>2, <3>3, Zenon
  <2> QED
    BY <2>1, <2>2, <2>3, <2>4, <2>5, Zenon DEF Next
<1> QED
    BY <1>1, InvInit, PTL DEF Spec

\* The buckets keep their type: PreHTTP never leaves a bucket overdrawn or
\* overfull.
THEOREM LimiterTypeCorrect == Spec => []TypeOK
BY LimiterInvariant, PTL

\* Whatever the limits and however requests, sweeps and time interleave, PreHTTP
\* admits no more than the burst and the configured rate.
THEOREM RateIsBounded == Spec => []RateBound
<1>1. TypeOK /\ Potential => RateBound
  <2> SUFFICES ASSUME TypeOK, Potential, NEW b \in Buckets
               PROVE  window[b].admitted * Minute
                        <= Limit[b] * Minute + (now - window[b].start) * Limit[b]
      BY Zenon DEF RateBound
  <2>1. /\ now \in Nat /\ buckets[b] \in Bucket(b)
        /\ window[b].admitted \in Nat /\ window[b].start \in Nat
    BY DEF TypeOK
  <2>2. Limit[b] \in Nat /\ Minute \in Nat /\ Limit[b] * Minute \in Nat
    BY LimitPositive, LimitAssumption, ProductNat, Zenon
  <2>3. filled(buckets[b], b, now) \in 0..Limit[b] * Minute
    BY <2>1, FilledType
  <2>4. PICK e \in Int : e = now - window[b].start
    BY <2>1
  <2>5. e * Limit[b] \in Int /\ window[b].admitted * Minute \in Int
    BY <2>1, <2>2, Commute
  <2>6. window[b].admitted * Minute + filled(buckets[b], b, now)
          <= Limit[b] * Minute + e * Limit[b]
    BY <2>4, Zenon DEF Potential
  <2> QED
    BY <2>2, <2>3, <2>4, <2>5, <2>6
<1> QED
    BY <1>1, LimiterInvariant, PTL

\* Whatever the limits, no decision of PreHTTP depends on what the cleanup
\* goroutine dropped.
THEOREM CleanupIsUnnoticed == Spec => []CleanupUnnoticed
<1>1. TypeOK /\ SameFuture => CleanupUnnoticed
  BY DEF TypeOK, SameFuture, CleanupUnnoticed
<1> QED
    BY <1>1, LimiterInvariant, PTL

(***************************************************************************)
(* The config watcher.  InSync is not inductive: it speaks of the          *)
(* goroutine between two checks only, and says nothing of the write that   *)
(* comes between Stat and Load.  What is kept all along is that lastMod    *)
(* never runs ahead of the version in force, because check takes the mtime *)
(* before it reads the content.                                            *)
(***************************************************************************)

\* The version in force is at least as new as the mtime that check remembers, or
\* Stat has seen a newer one since, which check will look at again until it
\* loads.  The exception is the write between main's Load and Start, until Stat
\* has seen a later one (stat is 0 until then).
NotBehind ==
    pc # "none" =>
        \/ lastMod <= applied
        \/ lastMod < stat
        \/ gap /\ stat = 0

\* Between Stat and Load, what Load will remember is new, and not yet in the future.
StatIsNew == pc = "load" => lastMod < stat

\* Before the goroutine runs, nothing has been remembered.
BeforeStart ==
    /\ phase \in {"loading", "starting", "exited"} => pc = "none" /\ stat = 0 /\ lastMod = 0
    /\ phase = "starting" /\ ~gap => applied = file.content

\* A version is written with its mtime.
OneMtimePerVersion == file.mtime = file.content

ReloadInv == WatcherTypeOK /\ NotBehind /\ StatIsNew /\ BeforeStart /\ OneMtimePerVersion

LEMMA ReloadInvInit ==
    ASSUME WatcherInit
    PROVE  ReloadInv
<1>1. PICK ok \in BOOLEAN : file = [content |-> 1, mtime |-> 1, ok |-> ok]
  BY Zenon DEF WatcherInit
<1>2. file \in [content : 1..MaxWrites + 1, mtime : 1..MaxWrites + 1, ok : BOOLEAN]
  BY <1>1, WatcherAssumption
<1>3. file.mtime = 1 /\ file.content = 1
  BY <1>1, Zenon
<1>4. WatcherTypeOK
  <2>1. gap \in BOOLEAN
    BY Zenon DEF WatcherInit
  <2>2. stat = 0 /\ lastMod = 0 /\ applied = 0
    BY Zenon DEF WatcherInit
  <2>3. stat \in 0..file.mtime /\ lastMod \in 0..file.mtime /\ applied \in 0..file.content
    BY <1>3, <2>2
  <2> QED
    BY <1>2, <2>1, <2>3, Zenon DEF WatcherInit, WatcherTypeOK
<1> QED
  BY <1>3, <1>4, Zenon DEF WatcherInit, ReloadInv, NotBehind, StatIsNew, BeforeStart, OneMtimePerVersion

LEMMA ReloadInvStep ==
    ASSUME ReloadInv, [WatcherNext]_watcherVars
    PROVE  ReloadInv'
<1> USE WatcherAssumption DEF ReloadInv, WatcherTypeOK, NotBehind, StatIsNew, BeforeStart, OneMtimePerVersion
<1>1. CASE Write
  <2>1. PICK ok \in BOOLEAN :
            file' = [content |-> file.content + 1, mtime |-> file.mtime + 1, ok |-> ok]
    BY <1>1, Zenon DEF Write
  <2>2. file' \in [content : 1..MaxWrites + 1, mtime : 1..MaxWrites + 1, ok : BOOLEAN]
    BY <1>1, <2>1 DEF Write
  <2>3. file'.mtime = file.mtime + 1 /\ file'.content = file.content + 1
    BY <2>1, Zenon
  <2>4. WatcherTypeOK'
    BY <1>1, <2>2, <2>3 DEF Write
  <2>5. NotBehind' /\ StatIsNew' /\ OneMtimePerVersion'
    BY <1>1, <2>3, Zenon DEF Write
  <2>6. BeforeStart'
    BY <1>1, Zenon DEF Write
  <2> QED
    BY <2>4, <2>5, <2>6, Zenon
<1>2. CASE Permit
  BY <1>2 DEF Permit
<1>3. CASE LoadFirst
  BY <1>3 DEF LoadFirst
<1>4. CASE Start
  BY <1>4 DEF Start
<1>5. CASE Stop
  BY <1>5, Zenon DEF Stop
<1>6. CASE Stat
  BY <1>6 DEF Stat
<1>7. CASE Load
  BY <1>7 DEF Load
<1>8. CASE Leave
  BY <1>8, Zenon DEF Leave
<1>9. CASE UNCHANGED watcherVars
  BY <1>9 DEF watcherVars
<1> QED
  BY <1>1, <1>2, <1>3, <1>4, <1>5, <1>6, <1>7, <1>8, <1>9, Zenon DEF WatcherNext

\* Between two checks, a file that check would not look at again is the one the
\* engine runs with, however the writes fell between Load, Start, os.Stat and
\* the read of the file.
THEOREM InSyncAlways == WatcherSpec => []InSync
<1>0. (WatcherInit => ReloadInv) /\ (ReloadInv /\ [WatcherNext]_watcherVars => ReloadInv')
  BY ReloadInvInit, ReloadInvStep, Zenon
<1>1. ReloadInv => InSync
  BY DEF ReloadInv, InSync, WatcherTypeOK, NotBehind, OneMtimePerVersion
<1> QED
  BY <1>0, <1>1, PTL DEF WatcherSpec

(***************************************************************************)
(* The usage record                                                        *)
(***************************************************************************)

RecRecords == [pc : RecordPCs, stream : BOOLEAN, model : Models, tokens : Tokens, object : Workers \cup {NoObject}]

\* The goroutines that have raised the total, and the one for their kind, that hold
\* their model's counters, and that have raised its requests.
AfterTotal == {"kind", "find", "make", "requests", "tokens", "end"}
AfterKind == {"find", "make", "requests", "tokens", "end"}
AfterModel == {"requests", "tokens", "end"}
AfterRequest == {"tokens", "end"}

At(S) == {w \in Workers : rec[w].pc \in S}

\* A model's object was made by a request for it, and its requests use no other.
OneObject ==
    /\ \A m \in Models : modelUsage[m] # NoObject =>
           rec[modelUsage[m]].model = m /\ rec[modelUsage[m]].pc \in AfterModel
    /\ \A w \in At(AfterModel) : rec[w].object # NoObject /\ rec[w].object = modelUsage[rec[w].model]

\* Every counter of requests counts the goroutines that have passed it.
CountersCount ==
    /\ IsFiniteSet(Started)
    /\ totals.all = Cardinality(At(AfterTotal))
    /\ totals.stream + totals.nonStream = Cardinality(At(AfterKind))
    /\ \A o \in Workers : objects[o].requests = Cardinality({w \in At(AfterRequest) : rec[w].object = o})

\* The requests for models that the loop of Snapshot has behind it.
Seen(todo) == {w \in At(AfterRequest) : rec[w].model \notin todo}

\* What Snapshot has read stays below what it will read.
SnapshotBehind ==
    /\ snap.pc = "none" => snap.requests = 0
    /\ snap.pc = "models" => snap.todo \subseteq Used /\ snap.requests <= Cardinality(Seen(snap.todo))
    /\ snap.pc = "total" => snap.requests <= totals.all
    /\ snap.pc \in {"total", "stream"} => snap.requests <= totals.stream + totals.nonStream
    /\ snap.pc \in {"stream", "nonStream", "end"} => snap.requests <= snap.all
    /\ snap.pc = "nonStream" => snap.requests <= snap.stream + totals.nonStream
    /\ snap.pc = "end" => snap.requests <= snap.stream + snap.nonStream

UsageInv == UsageTypeOK /\ OneObject /\ CountersCount /\ SnapshotBehind

\* Goroutines that were started are finitely many, and so are any of them.
LEMMA FinitePart ==
    ASSUME NEW T, IsFiniteSet(T), NEW S, S \subseteq T
    PROVE  IsFiniteSet(S) /\ Cardinality(S) \in Nat /\ Cardinality(T) \in Nat /\ Cardinality(S) <= Cardinality(T)
BY FS_Subset, FS_CardinalityType, Zenon

LEMMA OneMore ==
    ASSUME NEW S, IsFiniteSet(S), NEW x, x \notin S, NEW T, T = S \cup {x}
    PROVE  Cardinality(T) = Cardinality(S) + 1
BY FS_AddElement, Zenon

LEMMA DisjointUnion ==
    ASSUME NEW S, IsFiniteSet(S), NEW T, IsFiniteSet(T), S \cap T = {}
    PROVE  Cardinality(S \cup T) = Cardinality(S) + Cardinality(T)
<1>1. Cardinality(S \cup T) = Cardinality(S) + Cardinality(T) - Cardinality(S \cap T)
  BY FS_Union, Zenon
<1>2. Cardinality(S) \in Nat /\ Cardinality(T) \in Nat /\ Cardinality(S \cap T) = 0
  BY FS_CardinalityType, FS_EmptySet, Zenon
<1> QED
  BY <1>1, <1>2

LEMMA StartedParts ==
    /\ At(AfterTotal) \subseteq Started /\ At(AfterKind) \subseteq At(AfterTotal)
    /\ At(AfterRequest) \subseteq At(AfterKind)
BY Zenon DEF At, AfterTotal, AfterKind, AfterRequest, Started

LEMMA UsageInitially ==
    ASSUME UsageInit
    PROVE  UsageInv
<1>1. (CHOOSE m \in Models : TRUE) \in Models
  BY UsageAssumption, Zenon
<1>2. UsageTypeOK
  BY <1>1, Zenon DEF UsageInit, UsageTypeOK, RecordPCs, SnapPCs, ModelUsage, Tokens, NoTokens
<1>3. \A w \in Workers : rec[w].pc = "none"
  BY Zenon DEF UsageInit
<1>4. At(AfterTotal) = {} /\ At(AfterKind) = {} /\ At(AfterModel) = {} /\ At(AfterRequest) = {} /\ Started = {}
  BY <1>3, Zenon DEF At, AfterTotal, AfterKind, AfterModel, AfterRequest, Started
<1>5. OneObject
  BY <1>4, Zenon DEF UsageInit, OneObject
<1>6. CountersCount
  <2>1. \A o \in Workers : {w \in At(AfterRequest) : rec[w].object = o} = {}
    BY <1>4, Zenon
  <2>2. \A o \in Workers : objects[o].requests = 0
    BY Zenon DEF UsageInit, ModelUsage
  <2>3. totals.all = 0 /\ totals.stream + totals.nonStream = 0
    BY DEF UsageInit
  <2> QED
    BY <1>4, <2>1, <2>2, <2>3, FS_EmptySet, Zenon DEF CountersCount
<1>7. SnapshotBehind
  BY Zenon DEF UsageInit, SnapshotBehind
<1> QED
  BY <1>2, <1>5, <1>6, <1>7, Zenon DEF UsageInv

LEMMA UsageStutters ==
    ASSUME UsageInv, UNCHANGED usageVars
    PROVE  UsageInv'
BY DEF usageVars, UsageInv, UsageTypeOK, OneObject, CountersCount, SnapshotBehind, Seen, At, Started, Used

\* A goroutine is started.
LEMMA StartUsage ==
    ASSUME UsageInv, NEW w \in Workers, rec[w].pc = "none", NEW n \in RecRecords, n.pc = "total",
           rec' = [rec EXCEPT ![w] = n], UNCHANGED <<totals, modelUsage, objects, snap>>
    PROVE  UsageInv'
<1>0. rec \in [Workers -> RecRecords] /\ UsageTypeOK /\ OneObject /\ CountersCount /\ SnapshotBehind
  BY Zenon DEF UsageInv, UsageTypeOK, RecRecords
<1>1. rec' \in [Workers -> RecRecords] /\ rec'[w] = n /\ \A o \in Workers \ {w} : rec'[o] = rec[o]
  BY <1>0, Zenon
<1>2. /\ At(AfterTotal)' = At(AfterTotal) /\ At(AfterKind)' = At(AfterKind) /\ At(AfterModel)' = At(AfterModel)
      /\ At(AfterRequest)' = At(AfterRequest) /\ Started' = Started \cup {w}
      /\ w \notin At(AfterModel) /\ w \notin At(AfterRequest)
  BY <1>1, Zenon DEF At, AfterTotal, AfterKind, AfterModel, AfterRequest, Started
<1>3. UsageTypeOK'
  BY <1>0, <1>1, Zenon DEF UsageTypeOK, RecRecords
<1>4. OneObject'
  <2>1. \A m \in Models : modelUsage[m] # NoObject => modelUsage[m] \in Workers \ {w}
    BY <1>0 DEF OneObject, UsageTypeOK, AfterModel
  <2>2. \A o \in At(AfterModel) : o \in Workers \ {w}
    BY <1>2, Zenon DEF At
  <2> QED
    BY <1>0, <1>1, <1>2, <2>1, <2>2 DEF OneObject
<1>5. CountersCount'
  <2>1. \A o \in Workers : {v \in At(AfterRequest)' : rec'[v].object = o} = {v \in At(AfterRequest) : rec[v].object = o}
    BY <1>1, <1>2 DEF At
  <2>2. IsFiniteSet(Started')
    BY <1>0, <1>2, FS_AddElement, Zenon DEF CountersCount
  <2> QED
    BY <1>0, <1>2, <2>1, <2>2, Zenon DEF CountersCount
<1>6. SnapshotBehind'
  <2>1. Seen(snap.todo)' = Seen(snap.todo)
    BY <1>1, <1>2, Zenon DEF Seen, At
  <2> QED
    BY <1>0, <2>1, Zenon DEF SnapshotBehind, Used
<1> QED
  BY <1>3, <1>4, <1>5, <1>6, Zenon DEF UsageInv

\* What a step of RecordRequest does to its goroutine.
LEMMA RecordFacts ==
    ASSUME UsageTypeOK, NEW w \in Workers, RecordRequest(w)
    PROVE  /\ rec' \in [Workers -> RecRecords] /\ \A o \in Workers \ {w} : rec'[o] = rec[o]
           /\ rec[w].pc # "none" /\ rec'[w].pc # "none"
           /\ rec'[w].tokens = rec[w].tokens /\ rec'[w].model = rec[w].model
           /\ snap' = snap
<1>0. rec \in [Workers -> RecRecords] /\ modelUsage \in [Models -> Workers \cup {NoObject}]
  BY Zenon DEF UsageTypeOK, RecRecords
<1>1. \A to \in RecordPCs, from \in RecordPCs \ {"none"} : Goto(w, from, to) /\ to # "none" =>
          /\ rec' \in [Workers -> RecRecords] /\ \A o \in Workers \ {w} : rec'[o] = rec[o]
          /\ rec[w].pc # "none" /\ rec'[w].pc # "none"
          /\ rec'[w].tokens = rec[w].tokens /\ rec'[w].model = rec[w].model
  BY <1>0 DEF Goto, RecRecords
<1>2. {"total", "kind", "find", "make", "requests", "tokens", "end"} = RecordPCs \ {"none"}
  BY Zenon DEF RecordPCs
<1>3. CASE AddTotal(w) \/ AddKind(w) \/ AddRequest(w) \/ AddTokens(w)
  BY <1>1, <1>2, <1>3, Zenon DEF AddTotal, AddKind, AddRequest, AddTokens
<1>4. CASE FindModel(w) \/ MakeModel(w)
  <2>1. PICK p \in {"make", "requests"}, o \in Workers \cup {NoObject} :
            rec' = [rec EXCEPT ![w].pc = p, ![w].object = o] /\ rec[w].pc # "none" /\ snap' = snap
    <3>1. modelUsage[rec[w].model] \in Workers \cup {NoObject}
      BY <1>0, Zenon DEF RecRecords
    <3> QED
      BY <1>4, <3>1, Zenon DEF FindModel, MakeModel
  <2> DEFINE n == [rec[w] EXCEPT !.pc = p, !.object = o]
  <2>2. n \in RecRecords /\ n.pc = p /\ n.tokens = rec[w].tokens /\ n.model = rec[w].model
    BY <1>0, <1>2, Zenon DEF RecRecords
  <2>3. rec' = [rec EXCEPT ![w] = n]
    BY <2>1, Zenon
  <2> HIDE DEF n
  <2> QED
    BY <1>0, <2>1, <2>2, <2>3, Zenon
<1> QED
  BY <1>3, <1>4, Zenon DEF RecordRequest

LEMMA RecordTypes ==
    ASSUME UsageTypeOK, NEW w \in Workers, RecordRequest(w)
    PROVE  UsageTypeOK'
<1>0. rec \in [Workers -> RecRecords] /\ modelUsage \in [Models -> Workers \cup {NoObject}]
  BY Zenon DEF UsageTypeOK, RecRecords
<1>1. totals' \in [all : Nat, stream : Nat, nonStream : Nat]
  BY DEF UsageTypeOK, RecordRequest, AddTotal, AddKind, FindModel, MakeModel, AddRequest, AddTokens
<1>2. modelUsage' \in [Models -> Workers \cup {NoObject}]
  BY <1>0 DEF RecordRequest, AddTotal, AddKind, FindModel, MakeModel, AddRequest, AddTokens
<1>3. objects' \in [Workers -> [requests : Nat, prompt : Nat, completion : Nat]]
  <2>0. objects \in [Workers -> [requests : Nat, prompt : Nat, completion : Nat]]
    BY Zenon DEF UsageTypeOK
  <2> DEFINE x == rec[w].object
  <2>1. CASE AddRequest(w)
    <3> DEFINE n == [objects[x] EXCEPT !.requests = objects[x].requests + 1]
    <3>1. objects' = [objects EXCEPT ![x] = n]
      BY <2>1, Zenon DEF AddRequest
    <3>2. x \in Workers => n \in [requests : Nat, prompt : Nat, completion : Nat]
      BY <2>0
    <3> HIDE DEF n
    <3> QED
      BY <2>0, <3>1, <3>2, Zenon
  <2>2. CASE AddTokens(w)
    <3> DEFINE n == [objects[x] EXCEPT !.prompt = objects[x].prompt + rec[w].tokens.prompt,
                                       !.completion = objects[x].completion + rec[w].tokens.completion]
    <3>1. objects' = [objects EXCEPT ![x] = n]
      BY <2>2, Zenon DEF AddTokens
    <3>2. rec[w].tokens.prompt \in Nat /\ rec[w].tokens.completion \in Nat
      BY <1>0, Zenon DEF Tokens, RecRecords
    <3>3. x \in Workers => n \in [requests : Nat, prompt : Nat, completion : Nat]
      <4> SUFFICES ASSUME x \in Workers PROVE n \in [requests : Nat, prompt : Nat, completion : Nat]
        BY Zenon
      <4>1. objects[x] \in [requests : Nat, prompt : Nat, completion : Nat]
        BY <2>0, Zenon
      <4>2. objects[x].prompt + rec[w].tokens.prompt \in Nat /\ objects[x].completion + rec[w].tokens.completion \in Nat
        BY <3>2, <4>1
      <4> QED
        BY <4>1, <4>2, Zenon
    <3> HIDE DEF n
    <3> QED
      BY <2>0, <3>1, <3>3, Zenon
  <2>3. CASE UNCHANGED objects
    BY <2>0, <2>3, Zenon
  <2> QED
    BY <2>1, <2>2, <2>3, Zenon DEF RecordRequest, AddTotal, AddKind, FindModel, MakeModel
<1>4. rec' \in [Workers -> RecRecords] /\ snap' = snap
  BY RecordFacts, Zenon
<1> QED
  BY <1>1, <1>2, <1>3, <1>4, Zenon DEF UsageTypeOK, RecRecords

LEMMA RecordOneObject ==
    ASSUME UsageInv, NEW w \in Workers, RecordRequest(w)
    PROVE  /\ OneObject'
           /\ \A m \in Models : modelUsage[m] # NoObject => modelUsage'[m] = modelUsage[m]
<1>0. /\ rec \in [Workers -> RecRecords] /\ modelUsage \in [Models -> Workers \cup {NoObject}]
      /\ OneObject /\ UsageTypeOK
  BY Zenon DEF UsageInv, UsageTypeOK, RecRecords
<1>1. /\ rec' \in [Workers -> RecRecords] /\ \A o \in Workers \ {w} : rec'[o] = rec[o]
      /\ rec'[w].model = rec[w].model
  BY <1>0, RecordFacts, Zenon
<1> DEFINE m == rec[w].model
<1>2. m \in Models
  BY <1>0, Zenon DEF RecRecords
<1>3. CASE MakeModel(w)
  <2> DEFINE o == IF modelUsage[m] = NoObject THEN w ELSE modelUsage[m]
  <2>1. /\ modelUsage' = [modelUsage EXCEPT ![m] = o] /\ rec[w].pc = "make"
        /\ rec'[w].pc = "requests" /\ rec'[w].object = o
    BY <1>0, <1>3 DEF MakeModel, RecRecords
  <2>2. o \in Workers /\ o # NoObject
    BY <1>0, <1>2, UsageAssumption, Zenon
  <2>3. rec'[o].model = m /\ rec'[o].pc \in AfterModel
    BY <1>0, <1>1, <1>2, <2>1 DEF OneObject, AfterModel
  <2>4. modelUsage'[m] = o /\ \A k \in Models \ {m} : modelUsage'[k] = modelUsage[k]
    BY <1>0, <1>2, <2>1, Zenon
  <2>5. \A k \in Models \ {m} : modelUsage[k] # NoObject => modelUsage[k] \in Workers \ {w}
    BY <1>0, <2>1 DEF OneObject, AfterModel
  <2>6. \A v \in At(AfterModel)' : v # w => v \in At(AfterModel)
    BY <1>1, Zenon DEF At
  <2>7. \A v \in At(AfterModel)' : v # w => rec[v].model \in Models /\ rec'[v] = rec[v]
    BY <1>0, <1>1, Zenon DEF At, RecRecords
  <2> HIDE DEF o
  <2>8. \A k \in Models : modelUsage[k] # NoObject => modelUsage'[k] = modelUsage[k]
    BY <1>0, <1>2, <2>4, Zenon DEF o
  <2>9. \A k \in Models : modelUsage'[k] # NoObject =>
            rec'[modelUsage'[k]].model = k /\ rec'[modelUsage'[k]].pc \in AfterModel
    BY <1>0, <1>1, <2>3, <2>4, <2>5 DEF OneObject
  <2>10. \A v \in At(AfterModel)' : rec'[v].object # NoObject /\ rec'[v].object = modelUsage'[rec'[v].model]
    <3> SUFFICES ASSUME NEW v \in At(AfterModel)'
                 PROVE  rec'[v].object # NoObject /\ rec'[v].object = modelUsage'[rec'[v].model]
      BY Zenon
    <3>1. CASE v = w
      BY <1>1, <2>1, <2>2, <2>4, <3>1, Zenon
    <3>2. CASE v # w
      BY <1>0, <2>6, <2>7, <2>8, <3>2 DEF OneObject
    <3> QED
      BY <3>1, <3>2, Zenon
  <2> QED
    BY <2>8, <2>9, <2>10, Zenon DEF OneObject
<1>4. CASE ~MakeModel(w)
  <2>1. modelUsage' = modelUsage
    BY <1>4, Zenon DEF RecordRequest, AddTotal, AddKind, FindModel, AddRequest, AddTokens
  <2>2. /\ rec[w].pc \in AfterModel => rec'[w].pc \in AfterModel /\ rec'[w].object = rec[w].object
        /\ rec'[w].pc \in AfterModel /\ rec[w].pc \notin AfterModel =>
               rec'[w].object = modelUsage[m] /\ modelUsage[m] # NoObject
    BY <1>0, <1>4
       DEF RecordRequest, AddTotal, AddKind, FindModel, AddRequest, AddTokens, Goto, AfterModel,
           RecRecords
  <2>3. \A k \in Models : modelUsage[k] # NoObject =>
            rec'[modelUsage[k]].model = k /\ rec'[modelUsage[k]].pc \in AfterModel
    BY <1>0, <1>1, <2>2 DEF OneObject
  <2>4. \A v \in At(AfterModel)' : rec'[v].object # NoObject /\ rec'[v].object = modelUsage[rec'[v].model]
    BY <1>0, <1>1, <2>2 DEF OneObject, At
  <2> QED
    BY <2>1, <2>3, <2>4, Zenon DEF OneObject
<1> QED
  BY <1>3, <1>4, Zenon

LEMMA RecordCounters ==
    ASSUME UsageInv, NEW w \in Workers, RecordRequest(w)
    PROVE  /\ CountersCount'
           /\ totals'.all >= totals.all /\ totals'.stream >= totals.stream /\ totals'.nonStream >= totals.nonStream
           /\ totals'.stream + totals'.nonStream >= totals.stream + totals.nonStream
           /\ At(AfterRequest) \subseteq At(AfterRequest)'
<1>0. /\ rec \in [Workers -> RecRecords] /\ UsageTypeOK /\ CountersCount /\ OneObject
      /\ totals \in [all : Nat, stream : Nat, nonStream : Nat]
      /\ objects \in [Workers -> [requests : Nat, prompt : Nat, completion : Nat]]
  BY Zenon DEF UsageInv, UsageTypeOK, RecRecords
<1>1. /\ rec' \in [Workers -> RecRecords] /\ \A o \in Workers \ {w} : rec'[o] = rec[o]
      /\ rec[w].pc # "none" /\ rec'[w].pc # "none"
  BY <1>0, RecordFacts, Zenon
<1>2. Started' = Started /\ IsFiniteSet(Started)
  BY <1>0, <1>1 DEF Started, CountersCount
<1>3. /\ IsFiniteSet(At(AfterTotal)) /\ IsFiniteSet(At(AfterKind)) /\ IsFiniteSet(At(AfterRequest))
      /\ \A o \in Workers : IsFiniteSet({v \in At(AfterRequest) : rec[v].object = o})
  <2>1. \A o \in Workers : {v \in At(AfterRequest) : rec[v].object = o} \subseteq At(AfterRequest)
    BY Zenon
  <2> QED
    BY <1>2, <2>1, StartedParts, FinitePart, Zenon
<1> DEFINE All == At(AfterTotal)
           Kind == At(AfterKind)
           Mine1(o) == {v \in At(AfterRequest) : rec[v].object = o}
<1>4. CASE AddTotal(w)
  <2>1. rec[w].pc = "total" /\ rec'[w].pc = "kind"
    BY <1>0, <1>4 DEF AddTotal, Goto, RecRecords
  <2>2. /\ At(AfterTotal)' = All \cup {w} /\ w \notin All /\ At(AfterKind)' = Kind
        /\ At(AfterRequest)' = At(AfterRequest) /\ w \notin At(AfterRequest)
    BY <1>1, <2>1, Zenon DEF At, AfterTotal, AfterKind, AfterRequest
  <2>3. \A o \in Workers : {v \in At(AfterRequest)' : rec'[v].object = o} = Mine1(o)
    BY <1>1, <2>2 DEF At
  <2>4. totals'.all = totals.all + 1 /\ totals'.stream = totals.stream /\ totals'.nonStream = totals.nonStream
        /\ objects' = objects
    BY <1>0, <1>4, Zenon DEF AddTotal
  <2>5. totals'.all = Cardinality(At(AfterTotal)')
    BY <1>0, <1>3, <2>2, <2>4, OneMore DEF CountersCount
  <2> QED
    BY <1>0, <1>2, <2>2, <2>3, <2>4, <2>5 DEF CountersCount
<1>5. CASE AddKind(w)
  <2>1. rec[w].pc = "kind" /\ rec'[w].pc = "find"
    BY <1>0, <1>5 DEF AddKind, Goto, RecRecords
  <2>2. /\ At(AfterTotal)' = All /\ At(AfterKind)' = Kind \cup {w} /\ w \notin Kind
        /\ At(AfterRequest)' = At(AfterRequest) /\ w \notin At(AfterRequest)
    BY <1>1, <2>1, Zenon DEF At, AfterTotal, AfterKind, AfterRequest
  <2>3. \A o \in Workers : {v \in At(AfterRequest)' : rec'[v].object = o} = Mine1(o)
    BY <1>1, <2>2 DEF At
  <2>4. /\ totals'.all = totals.all /\ totals'.stream >= totals.stream /\ totals'.nonStream >= totals.nonStream
        /\ totals'.stream + totals'.nonStream = totals.stream + totals.nonStream + 1
        /\ objects' = objects
    BY <1>0, <1>5 DEF AddKind
  <2>5. totals'.stream + totals'.nonStream = Cardinality(At(AfterKind)')
    BY <1>0, <1>3, <2>2, <2>4, OneMore DEF CountersCount
  <2> QED
    BY <1>0, <1>2, <2>2, <2>3, <2>4, <2>5 DEF CountersCount
<1>6. CASE FindModel(w) \/ MakeModel(w)
  <2>1. rec[w].pc \in {"find", "make"} /\ rec'[w].pc \in {"make", "requests"} /\ UNCHANGED <<totals, objects>>
    BY <1>0, <1>6 DEF FindModel, MakeModel, RecRecords
  <2>2. /\ At(AfterTotal)' = All /\ At(AfterKind)' = Kind
        /\ At(AfterRequest)' = At(AfterRequest) /\ w \notin At(AfterRequest)
    BY <1>1, <2>1, Zenon DEF At, AfterTotal, AfterKind, AfterRequest
  <2>3. \A o \in Workers : {v \in At(AfterRequest)' : rec'[v].object = o} = Mine1(o)
    BY <1>1, <2>2 DEF At
  <2> QED
    BY <1>0, <1>2, <2>1, <2>2, <2>3 DEF CountersCount
<1>7. CASE AddRequest(w)
  <2> DEFINE x == rec[w].object
  <2>1. rec[w].pc = "requests" /\ rec'[w].pc = "tokens" /\ rec'[w].object = x /\ UNCHANGED totals
    BY <1>0, <1>7 DEF AddRequest, Goto, RecRecords
  <2>2. /\ At(AfterTotal)' = All /\ At(AfterKind)' = Kind
        /\ At(AfterRequest)' = At(AfterRequest) \cup {w} /\ w \notin At(AfterRequest)
    BY <1>1, <2>1, Zenon DEF At, AfterTotal, AfterKind, AfterRequest
  <2>3. x \in Workers
    BY <1>0, <2>1 DEF OneObject, At, AfterModel, RecRecords
  <2>4. objects'[x].requests = objects[x].requests + 1 /\ \A o \in Workers \ {x} : objects'[o] = objects[o]
    BY <1>0, <1>7, <2>3, Zenon DEF AddRequest
  <2>5. /\ {v \in At(AfterRequest)' : rec'[v].object = x} = Mine1(x) \cup {w} /\ w \notin Mine1(x)
        /\ \A o \in Workers \ {x} : {v \in At(AfterRequest)' : rec'[v].object = o} = Mine1(o)
    BY <1>1, <2>1, <2>2 DEF At
  <2>6. objects'[x].requests = Cardinality({v \in At(AfterRequest)' : rec'[v].object = x})
    <3>1. objects[x].requests = Cardinality(Mine1(x)) /\ IsFiniteSet(Mine1(x))
      BY <1>0, <1>3, <2>3, Zenon DEF CountersCount
    <3> HIDE DEF Mine1
    <3> QED
      BY <2>4, <2>5, <3>1, OneMore
  <2>7. \A o \in Workers : objects'[o].requests = Cardinality({v \in At(AfterRequest)' : rec'[v].object = o})
    <3>1. \A o \in Workers : objects[o].requests = Cardinality(Mine1(o))
      BY <1>0, Zenon DEF CountersCount
    <3> HIDE DEF Mine1
    <3> QED
      BY <2>4, <2>5, <2>6, <3>1, Zenon
  <2>8. totals'.all = Cardinality(At(AfterTotal)') /\ totals'.stream + totals'.nonStream = Cardinality(At(AfterKind)')
    BY <1>0, <2>1, <2>2, Zenon DEF CountersCount
  <2>9. CountersCount'
    BY <1>2, <2>7, <2>8, Zenon DEF CountersCount
  <2> QED
    BY <1>0, <2>1, <2>2, <2>9
<1>8. CASE AddTokens(w)
  <2>1. rec[w].pc = "tokens" /\ rec'[w].pc = "end" /\ rec'[w].object = rec[w].object /\ UNCHANGED totals
    BY <1>0, <1>8 DEF AddTokens, Goto, RecRecords
  <2>2. At(AfterTotal)' = All /\ At(AfterKind)' = Kind /\ At(AfterRequest)' = At(AfterRequest)
    BY <1>1, <2>1, Zenon DEF At, AfterTotal, AfterKind, AfterRequest
  <2>3. \A o \in Workers : {v \in At(AfterRequest)' : rec'[v].object = o} = Mine1(o)
    BY <1>1, <2>1, <2>2, Zenon DEF At
  <2>4. \A o \in Workers : objects'[o].requests = objects[o].requests
    BY <1>0, <1>8, Zenon DEF AddTokens
  <2> QED
    BY <1>0, <1>2, <2>1, <2>2, <2>3, <2>4 DEF CountersCount
<1> QED
  BY <1>4, <1>5, <1>6, <1>7, <1>8, Zenon DEF RecordRequest

LEMMA RecordUsage ==
    ASSUME UsageInv, NEW w \in Workers, RecordRequest(w)
    PROVE  UsageInv'
<1>0. UsageTypeOK /\ SnapshotBehind
  BY Zenon DEF UsageInv
<1>1. UsageTypeOK' /\ OneObject' /\ CountersCount'
  BY <1>0, RecordTypes, RecordOneObject, RecordCounters, Zenon
<1>2. snap' = snap /\ \A v \in Workers : rec'[v].model = rec[v].model
  BY <1>0, RecordFacts, Zenon
<1>3. Used \subseteq Used'
  BY RecordOneObject, Zenon DEF Used
<1>4. Cardinality(Seen(snap.todo)) <= Cardinality(Seen(snap.todo)') /\ Cardinality(Seen(snap.todo)) \in Nat
      /\ Cardinality(Seen(snap.todo)') \in Nat
  <2>1. At(AfterRequest) \subseteq At(AfterRequest)'
    BY RecordCounters, Zenon
  <2>2. Seen(snap.todo) \subseteq Seen(snap.todo)'
    BY <1>2, <2>1, Zenon DEF Seen, At
  <2>3. Seen(snap.todo)' \subseteq Started'
    BY Zenon DEF Seen, At, AfterRequest, Started
  <2>4. IsFiniteSet(Seen(snap.todo)')
    BY <1>1, <2>3, FinitePart, Zenon DEF CountersCount
  <2> QED
    BY <2>2, <2>4, FinitePart, Zenon
<1>5. snap.requests \in Nat /\ snap.all \in Nat /\ snap.stream \in Nat /\ snap.nonStream \in Nat
      /\ totals.all \in Nat /\ totals.stream \in Nat /\ totals.nonStream \in Nat
      /\ totals'.all \in Nat /\ totals'.stream \in Nat /\ totals'.nonStream \in Nat
  BY <1>0, <1>1, Zenon DEF UsageTypeOK
<1>6. /\ totals'.all >= totals.all /\ totals'.nonStream >= totals.nonStream
      /\ totals'.stream + totals'.nonStream >= totals.stream + totals.nonStream
  BY RecordCounters, Zenon
<1>7. SnapshotBehind'
  BY <1>0, <1>2, <1>3, <1>4, <1>5, <1>6 DEF SnapshotBehind
<1> QED
  BY <1>1, <1>7, Zenon DEF UsageInv

\* The requests that a model's object has counted are the ones for that model.
LEMMA ObjectOfModel ==
    ASSUME UsageInv, NEW m \in Used
    PROVE  /\ modelUsage[m] \in Workers
           /\ {w \in At(AfterRequest) : rec[w].object = modelUsage[m]} = {w \in At(AfterRequest) : rec[w].model = m}
           /\ objects[modelUsage[m]].requests = Cardinality({w \in At(AfterRequest) : rec[w].model = m})
<1>0. /\ rec \in [Workers -> RecRecords] /\ modelUsage \in [Models -> Workers \cup {NoObject}]
      /\ OneObject /\ CountersCount
  BY Zenon DEF UsageInv, UsageTypeOK, RecRecords
<1>1. m \in Models /\ modelUsage[m] # NoObject /\ modelUsage[m] \in Workers /\ rec[modelUsage[m]].model = m
  BY <1>0, Zenon DEF Used, OneObject
<1>2. \A w \in At(AfterRequest) : /\ w \in Workers /\ rec[w].model \in Models
                                  /\ rec[w].object # NoObject /\ rec[w].object = modelUsage[rec[w].model]
                                  /\ rec[rec[w].object].model = rec[w].model
  <2>1. \A w \in At(AfterRequest) : w \in At(AfterModel) /\ w \in Workers /\ rec[w].model \in Models
    BY <1>0, Zenon DEF At, AfterRequest, AfterModel, RecRecords
  <2> QED
    BY <1>0, <2>1 DEF OneObject
<1>3. {w \in At(AfterRequest) : rec[w].object = modelUsage[m]} = {w \in At(AfterRequest) : rec[w].model = m}
  <2>1. \A w \in At(AfterRequest) : rec[w].object = modelUsage[m] <=> rec[w].model = m
    BY <1>1, <1>2, Zenon
  <2> QED
    BY <2>1, Zenon
<1>4. objects[modelUsage[m]].requests = Cardinality({w \in At(AfterRequest) : rec[w].object = modelUsage[m]})
  BY <1>0, <1>1, Zenon DEF CountersCount
<1> QED
  BY <1>1, <1>3, <1>4, Zenon

LEMMA SnapshotUsage ==
    ASSUME UsageInv, Snapshot
    PROVE  UsageInv'
<1>0. /\ UsageTypeOK /\ OneObject /\ CountersCount /\ SnapshotBehind
      /\ UNCHANGED <<totals, modelUsage, objects, rec>>
  BY Zenon DEF UsageInv, Snapshot, SnapBegin, SnapModel, SnapTotals
<1> DEFINE Snaps == [pc : SnapPCs, todo : SUBSET Models, requests : Nat, all : Nat, stream : Nat, nonStream : Nat]
<1>1. snap \in Snaps /\ totals.all \in Nat /\ totals.stream \in Nat /\ totals.nonStream \in Nat
  BY <1>0, Zenon DEF UsageTypeOK
<1>2. \A todo : IsFiniteSet(Seen(todo)) /\ Cardinality(Seen(todo)) \in Nat /\ Seen(todo) \subseteq At(AfterRequest)
  <2>1. \A todo : Seen(todo) \subseteq At(AfterRequest) /\ Seen(todo) \subseteq Started
    BY StartedParts, Zenon DEF Seen
  <2> QED
    BY <1>0, <2>1, FinitePart, Zenon DEF CountersCount
<1>3. snap' \in Snaps /\ SnapshotBehind'
  <2>1. CASE SnapBegin
    <3>1. snap.pc = "none" /\ snap' = [snap EXCEPT !.pc = "models", !.todo = Used]
      BY <2>1, Zenon DEF SnapBegin
    <3>2. snap' \in Snaps /\ snap'.pc = "models" /\ snap'.todo = Used /\ snap'.requests = 0
      BY <1>0, <1>1, <3>1, Zenon DEF SnapshotBehind, SnapPCs, Used
    <3>3. 0 <= Cardinality(Seen(Used))
      BY <1>2
    <3>4. Seen(snap.todo)' = Seen(Used) /\ Used' = Used
      BY <1>0, <3>2, Zenon DEF Seen, At, Used
    <3> QED
      BY <3>2, <3>3, <3>4, Zenon DEF SnapshotBehind
  <2>2. CASE snap.pc = "models" /\ \E m \in snap.todo :
                 snap' = [snap EXCEPT !.todo = @ \ {m}, !.requests = @ + objects[modelUsage[m]].requests]
    <3>1. PICK m \in snap.todo : snap' = [snap EXCEPT !.todo = @ \ {m},
                                                      !.requests = @ + objects[modelUsage[m]].requests]
      BY <2>2, Zenon
    <3>2. m \in Used /\ snap.todo \subseteq Used /\ snap.requests <= Cardinality(Seen(snap.todo))
      BY <1>0, <2>2, Zenon DEF SnapshotBehind
    <3> DEFINE A == Seen(snap.todo)
               B == {w \in At(AfterRequest) : rec[w].model = m}
               rest == snap.todo \ {m}
    <3>3. objects[modelUsage[m]].requests = Cardinality(B)
      BY <3>2, ObjectOfModel, Zenon
    <3>4. Seen(rest) = A \cup B /\ A \cap B = {}
      BY Zenon DEF Seen
    <3>5. Cardinality(Seen(rest)) = Cardinality(A) + Cardinality(B) /\ Cardinality(B) \in Nat
      <4>1. IsFiniteSet(A) /\ IsFiniteSet(At(AfterRequest)) /\ Cardinality(A) \in Nat
        BY <1>0, <1>2, StartedParts, FinitePart, Zenon DEF CountersCount
      <4>2. B \subseteq At(AfterRequest)
        BY Zenon
      <4>3. IsFiniteSet(B) /\ Cardinality(B) \in Nat
        BY <4>1, <4>2, FinitePart, Zenon
      <4> HIDE DEF A, B
      <4> QED
        BY <3>4, <4>1, <4>3, DisjointUnion, Zenon
    <3>6. /\ snap' \in Snaps /\ snap'.pc = "models" /\ snap'.todo = rest
          /\ snap'.requests = snap.requests + Cardinality(B)
      <4>1. snap' = [snap EXCEPT !.todo = rest, !.requests = snap.requests + Cardinality(B)]
        BY <3>1, <3>3, Zenon
      <4>2. snap.requests + Cardinality(B) \in Nat
        BY <1>1, <3>5
      <4> HIDE DEF B
      <4> QED
        BY <1>1, <2>2, <4>1, <4>2, Zenon
    <3>7. snap'.requests <= Cardinality(Seen(rest)) /\ rest \subseteq Used
      <4> HIDE DEF B
      <4> QED
        BY <1>1, <1>2, <3>2, <3>5, <3>6
    <3>8. Seen(snap.todo)' = Seen(rest) /\ Used' = Used
      BY <1>0, <3>6, Zenon DEF Seen, At, Used
    <3> HIDE DEF rest, Snaps
    <3> QED
      BY <3>6, <3>7, <3>8, Zenon DEF SnapshotBehind
  <2>3. CASE snap.pc = "models" /\ snap.todo = {} /\ snap' = [snap EXCEPT !.pc = "total"]
    <3>1. Cardinality(Seen({})) <= totals.all /\ Cardinality(Seen({})) <= totals.stream + totals.nonStream
      <4>1. Seen({}) \subseteq At(AfterKind) /\ Seen({}) \subseteq At(AfterTotal)
        BY <1>2, StartedParts, Zenon
      <4>2. IsFiniteSet(At(AfterKind)) /\ IsFiniteSet(At(AfterTotal))
        BY <1>0, StartedParts, FinitePart, Zenon DEF CountersCount
      <4> QED
        BY <1>0, <4>1, <4>2, FinitePart DEF CountersCount
    <3>2. snap.requests <= Cardinality(Seen({}))
      BY <1>0, <2>3, Zenon DEF SnapshotBehind
    <3>3. snap' \in Snaps /\ snap'.pc = "total" /\ snap'.requests = snap.requests
      BY <1>1, <2>3, Zenon DEF SnapPCs
    <3> QED
      BY <1>0, <1>1, <1>2, <3>1, <3>2, <3>3 DEF SnapshotBehind
  <2>4. CASE snap.pc = "total" /\ snap' = [snap EXCEPT !.pc = "stream", !.all = totals.all]
    <3>1. snap' \in Snaps /\ snap'.pc = "stream" /\ snap'.requests = snap.requests /\ snap'.all = totals.all
      BY <1>1, <2>4, Zenon DEF SnapPCs
    <3> QED
      BY <1>0, <2>4, <3>1, Zenon DEF SnapshotBehind
  <2>5. CASE snap.pc = "stream" /\ snap' = [snap EXCEPT !.pc = "nonStream", !.stream = totals.stream]
    <3>1. /\ snap' \in Snaps /\ snap'.pc = "nonStream" /\ snap'.requests = snap.requests
          /\ snap'.all = snap.all /\ snap'.stream = totals.stream
      BY <1>1, <2>5, Zenon DEF SnapPCs
    <3> QED
      BY <1>0, <2>5, <3>1, Zenon DEF SnapshotBehind
  <2>6. CASE snap.pc = "nonStream" /\ snap' = [snap EXCEPT !.pc = "end", !.nonStream = totals.nonStream]
    <3>1. /\ snap' \in Snaps /\ snap'.pc = "end" /\ snap'.requests = snap.requests
          /\ snap'.all = snap.all /\ snap'.stream = snap.stream /\ snap'.nonStream = totals.nonStream
      BY <1>1, <2>6, Zenon DEF SnapPCs
    <3> QED
      BY <1>0, <2>6, <3>1, Zenon DEF SnapshotBehind
  <2> QED
    BY <2>1, <2>2, <2>3, <2>4, <2>5, <2>6, Zenon DEF Snapshot, SnapModel, SnapTotals
<1>4. UsageTypeOK'
  BY <1>0, <1>3, Zenon DEF UsageTypeOK
<1>5. OneObject' /\ CountersCount'
  BY <1>0, Zenon DEF OneObject, CountersCount, At, Started
<1> QED
  BY <1>3, <1>4, <1>5, Zenon DEF UsageInv

LEMMA UsageImplies ==
    ASSUME UsageInv
    PROVE  SnapshotCovers /\ RequestsAddUp
<1>0. /\ rec \in [Workers -> RecRecords] /\ UsageTypeOK /\ OneObject /\ CountersCount /\ SnapshotBehind
      /\ modelUsage \in [Models -> Workers \cup {NoObject}]
  BY Zenon DEF UsageInv, UsageTypeOK, RecRecords
<1>1. SnapshotCovers
  BY <1>0, Zenon DEF SnapshotBehind, SnapshotCovers
<1>2. RequestsAddUp
  <2> SUFFICES ASSUME \A w \in Started : rec[w].pc = "end"
               PROVE  /\ totals.all = Cardinality(Started)
                      /\ totals.all = totals.stream + totals.nonStream
                      /\ \A m \in Models :
                             /\ m \in Used <=> Mine(m) # {}
                             /\ m \in Used => objects[modelUsage[m]].requests = Cardinality(Mine(m))
    BY <1>0, Zenon DEF RequestsAddUp
  <2>1. At(AfterTotal) = Started /\ At(AfterKind) = Started /\ At(AfterRequest) = Started /\ At(AfterModel) = Started
    BY Zenon DEF At, Started, AfterTotal, AfterKind, AfterRequest, AfterModel
  <2>2. totals.all = Cardinality(Started) /\ totals.all = totals.stream + totals.nonStream
    BY <1>0, <2>1, Zenon DEF CountersCount
  <2>3. ASSUME NEW m \in Models
        PROVE  /\ m \in Used <=> Mine(m) # {}
               /\ m \in Used => objects[modelUsage[m]].requests = Cardinality(Mine(m))
    <3>1. ASSUME m \in Used
          PROVE  modelUsage[m] \in Mine(m) /\ objects[modelUsage[m]].requests = Cardinality(Mine(m))
      <4>1. modelUsage[m] \in Workers /\ rec[modelUsage[m]].model = m /\ rec[modelUsage[m]].pc \in AfterModel
        BY <1>0, <3>1, Zenon DEF OneObject, Used
      <4>2. modelUsage[m] \in Mine(m)
        BY <4>1, Zenon DEF Mine, Started, AfterModel
      <4>3. {w \in At(AfterRequest) : rec[w].model = m} = Mine(m)
        BY <2>1, Zenon DEF Mine
      <4> QED
        BY <3>1, <4>2, <4>3, ObjectOfModel, Zenon
    <3>2. ASSUME NEW w \in Mine(m)
          PROVE  m \in Used
      BY <1>0, <2>1 DEF Mine, OneObject, Used
    <3> QED
      BY <3>1, <3>2, Zenon
  <2> QED
    BY <2>2, <2>3, Zenon
<1> QED
  BY <1>1, <1>2, Zenon

LEMMA UsageStep == UsageInv /\ [UsageNext]_usageVars => UsageInv'
<1> SUFFICES ASSUME UsageInv, [UsageNext]_usageVars
             PROVE  UsageInv'
  BY Zenon
<1>1. ASSUME NEW w \in Workers, NEW stream \in BOOLEAN, NEW m \in Models, NEW t \in Tokens,
             rec[w].pc = "none", StartRecord(w, stream, m, t)
      PROVE  UsageInv'
  <2> DEFINE n == Recorder(stream, m, t)
  <2>1. n \in RecRecords /\ n.pc = "total"
    BY Zenon DEF Recorder, RecRecords, RecordPCs
  <2>2. rec' = [rec EXCEPT ![w] = n] /\ UNCHANGED <<totals, modelUsage, objects, snap>>
    BY <1>1, Zenon DEF StartRecord
  <2> HIDE DEF n
  <2> QED
    BY <1>1, <2>1, <2>2, StartUsage, Zenon
<1> QED
  BY <1>1, UsageStutters, RecordUsage, SnapshotUsage, Zenon DEF UsageNext

LEMMA UsageAlways == UsageSpec => []UsageInv
<1>1. UsageInit => UsageInv
  BY UsageInitially, Zenon
<1> QED
  BY <1>1, UsageStep, PTL DEF UsageSpec

\* Whatever the order in which the goroutines of RecordRequest raise the counters, no
\* request is lost once they are done: the totals, the kinds and the models agree.
THEOREM RequestsAlwaysAddUp == UsageSpec => []RequestsAddUp
<1>1. UsageInv => RequestsAddUp
  BY UsageImplies, Zenon
<1> QED
  BY <1>1, UsageAlways, PTL

\* A Snapshot that is taken between any of their steps shows no model with requests that
\* its totals lack.
THEOREM SnapshotsCover == UsageSpec => []SnapshotCovers
<1>1. UsageInv => SnapshotCovers
  BY UsageImplies, Zenon
<1> QED
  BY <1>1, UsageAlways, PTL
=============================================================================
