------------------------- MODULE MemoryCacheProofs --------------------------
(***************************************************************************)
(* The LRU cache for any keys, values and limit: the map and the list      *)
(* agree, the list is in order of use, and memory.go implements CacheSpec. *)
(***************************************************************************)
EXTENDS MemoryCache, FiniteSetTheorems, TLAPS

(***************************************************************************)
(* Lists whose keys are distinct                                           *)
(***************************************************************************)

Distinct(list) == \A m, n \in 1..Len(list) : list[m].key = list[n].key => m = n

KeysOf(list) == {list[n].key : n \in 1..Len(list)}

\* Concatenation, and its use to take an element out.
LEMMA ConcatFacts ==
    ASSUME NEW S, NEW a \in Seq(S), NEW b \in Seq(S)
    PROVE  /\ a \o b \in Seq(S) /\ Len(a \o b) = Len(a) + Len(b)
           /\ \A i \in 1..Len(a) + Len(b) : (a \o b)[i] = IF i <= Len(a) THEN a[i] ELSE b[i - Len(a)]
OBVIOUS

LEMMA PrefixFacts ==
    ASSUME NEW S, NEW s \in Seq(S), NEW n \in 1..Len(s)
    PROVE  LET a == SubSeq(s, 1, n - 1) IN
           a \in Seq(S) /\ Len(a) = n - 1 /\ \A i \in 1..n - 1 : a[i] = s[i]
OBVIOUS

LEMMA RemoveFacts ==
    ASSUME NEW S, NEW s \in Seq(S), NEW n \in 1..Len(s)
    PROVE  LET w == SubSeq(s, 1, n - 1) \o SubSeq(s, n + 1, Len(s)) IN
           /\ w \in Seq(S) /\ Len(w) = Len(s) - 1
           /\ \A i \in 1..Len(s) - 1 : w[i] = IF i < n THEN s[i] ELSE s[i + 1]
<1> DEFINE a == SubSeq(s, 1, n - 1)
           b == SubSeq(s, n + 1, Len(s))
           w == a \o b
<1>0. Len(s) \in Nat /\ n \in Nat /\ 1 <= n /\ n <= Len(s)
  OBVIOUS
<1>1. a \in Seq(S) /\ Len(a) = n - 1 /\ \A i \in 1..n - 1 : a[i] = s[i]
  BY PrefixFacts, Zenon
<1>2. b \in Seq(S) /\ Len(b) = Len(s) - n /\ \A i \in 1..Len(s) - n : b[i] = s[n + i]
  OBVIOUS
<1> HIDE DEF a, b
<1>3. /\ w \in Seq(S) /\ Len(w) = Len(a) + Len(b)
      /\ \A i \in 1..Len(a) + Len(b) : w[i] = IF i <= Len(a) THEN a[i] ELSE b[i - Len(a)]
  BY <1>1, <1>2, ConcatFacts
<1> HIDE DEF w
<1>4. Len(w) = Len(s) - 1
  BY <1>0, <1>1, <1>2, <1>3
<1>5. ASSUME NEW i \in 1..Len(s) - 1 PROVE w[i] = IF i < n THEN s[i] ELSE s[i + 1]
  <2>1. CASE i < n
    <3>1. i \in 1..n - 1 /\ i <= n - 1 /\ i \in 1..(n - 1) + (Len(s) - n)
      BY <1>0, <2>1
    <3> QED
      BY <1>1, <1>2, <1>3, <2>1, <3>1, Zenon
  <2>2. CASE ~(i < n)
    <3>1. i - (n - 1) \in 1..Len(s) - n /\ n + (i - (n - 1)) = i + 1 /\ ~(i <= n - 1) /\ i \in 1..(n - 1) + (Len(s) - n)
      BY <1>0, <2>2
    <3> QED
      BY <1>1, <1>2, <1>3, <2>2, <3>1
  <2> QED
    BY <2>1, <2>2, Zenon
<1> QED
  BY <1>3, <1>4, <1>5, Zenon DEF w, a, b

LEMMA ConsFacts ==
    ASSUME NEW S, NEW e \in S, NEW s \in Seq(S)
    PROVE  /\ <<e>> \o s \in Seq(S) /\ Len(<<e>> \o s) = Len(s) + 1
           /\ \A i \in 1..Len(s) + 1 : (<<e>> \o s)[i] = IF i = 1 THEN e ELSE s[i - 1]
<1>1. <<e>> \in Seq(S) /\ Len(<<e>>) = 1 /\ <<e>>[1] = e
  OBVIOUS
<1> QED
  BY <1>1, ConcatFacts

\* A list with distinct keys is as long as it has keys.
LEMMA DistinctCount ==
    ASSUME NEW list \in Seq(Entries), Distinct(list)
    PROVE  IsFiniteSet(KeysOf(list)) /\ Cardinality(KeysOf(list)) = Len(list)
<1> DEFINE D == 1..Len(list)
           f == [n \in D |-> list[n].key]
<1>0. Len(list) \in Nat
  OBVIOUS
<1>1. f \in Bijection(D, KeysOf(list))
  <2>1. f \in [D -> KeysOf(list)]
    BY Zenon DEF KeysOf
  <2>2. \A m, n \in D : f[m] = f[n] => m = n
    BY Zenon DEF Distinct
  <2>3. \A k \in KeysOf(list) : \E n \in D : f[n] = k
    BY Zenon DEF KeysOf
  <2> HIDE DEF D, f
  <2> QED
    BY <2>1, <2>2, <2>3, Zenon DEF Bijection, Injection, IsInjective, Surjection
<1>2. IsFiniteSet(D) /\ Cardinality(D) = Len(list)
  <2>1. /\ IsFiniteSet(1..Len(list))
        /\ Cardinality(1..Len(list)) = IF 1 > Len(list) THEN 0 ELSE Len(list) - 1 + 1
    BY <1>0, FS_Interval
  <2> QED
    BY <1>0, <2>1
<1> HIDE DEF D, f
<1> QED
  BY <1>1, <1>2, FS_Bijection, Zenon DEF ExistsBijection

\* Where a key is.
LEMMA AtFacts ==
    ASSUME NEW list \in Seq(Entries), NEW k \in KeysOf(list)
    PROVE  At(list, k) \in 1..Len(list) /\ list[At(list, k)].key = k
BY Zenon DEF KeysOf, At

\* What a list holds, as a function of the key.
StoreOf(list) ==
    [k \in KeysOf(list) |-> [value |-> list[At(list, k)].value, expires |-> list[At(list, k)].expiresAt]]

\* A list of entries of another one holds what that one has for its keys.
LEMMA SameEntries ==
    ASSUME NEW list \in Seq(Entries), NEW w \in Seq(Entries), Distinct(list),
           \A i \in 1..Len(w) : \E j \in 1..Len(list) : w[i] = list[j]
    PROVE  /\ KeysOf(w) \subseteq KeysOf(list)
           /\ \A x \in KeysOf(w) : StoreOf(w)[x] = StoreOf(list)[x]
<1>1. KeysOf(w) \subseteq KeysOf(list)
  BY DEF KeysOf
<1>2. ASSUME NEW x \in KeysOf(w)
      PROVE  w[At(w, x)] = list[At(list, x)]
  <2>1. At(w, x) \in 1..Len(w) /\ w[At(w, x)].key = x
    BY AtFacts, Zenon
  <2>2. PICK j \in 1..Len(list) : w[At(w, x)] = list[j]
    BY <2>1, Zenon
  <2>3. At(list, x) \in 1..Len(list) /\ list[At(list, x)].key = x
    BY <1>1, AtFacts, Zenon
  <2>4. j = At(list, x)
    BY <2>1, <2>2, <2>3, Zenon DEF Distinct
  <2> QED
    BY <2>2, <2>4, Zenon
<1>3. \A x \in KeysOf(w) :
        StoreOf(list)[x] = [value |-> list[At(list, x)].value, expires |-> list[At(list, x)].expiresAt]
  BY <1>1, Zenon DEF StoreOf
<1> QED
  BY <1>1, <1>2, <1>3, Zenon DEF StoreOf

\* The keys of a list in the order of a relation.
Ordered(list, rel) ==
    \A m, n \in 1..Len(list) :
        m < n => /\ <<list[m].key, list[n].key>> \in rel
                 /\ <<list[n].key, list[m].key>> \notin rel

\* A list from which the n-th entry was taken.
LEMMA Removed ==
    ASSUME NEW list \in Seq(Entries), Distinct(list), NEW n \in 1..Len(list),
           NEW w \in Seq(Entries), Len(w) = Len(list) - 1,
           \A i \in 1..Len(list) - 1 : w[i] = IF i < n THEN list[i] ELSE list[i + 1]
    PROVE  /\ Distinct(w)
           /\ KeysOf(w) = KeysOf(list) \ {list[n].key}
           /\ \A x \in KeysOf(w) : StoreOf(w)[x] = StoreOf(list)[x]
           /\ \A rel : Ordered(list, rel) => Ordered(w, rel)
<1> DEFINE from(i) == IF i < n THEN i ELSE i + 1
<1>0. Len(list) \in Nat /\ n \in Nat
  OBVIOUS
<1>1. \A i \in 1..Len(w) : from(i) \in 1..Len(list) /\ from(i) # n /\ w[i] = list[from(i)]
  BY <1>0
<1>2. \A i, j \in 1..Len(w) : (from(i) = from(j) => i = j) /\ (i < j => from(i) < from(j))
  BY <1>0
<1>3. \A j \in 1..Len(list) : j # n => \E i \in 1..Len(w) : from(i) = j
  <2> TAKE j \in 1..Len(list)
  <2> HAVE j # n
  <2>1. CASE j < n
    BY <1>0, <2>1
  <2>2. CASE j > n
    <3>1. j - 1 \in 1..Len(w) /\ from(j - 1) = j
      BY <1>0, <2>2
    <3> QED
      BY <3>1, Zenon
  <2> QED
    BY <1>0, <2>1, <2>2
<1> HIDE DEF from
<1>4. Distinct(w)
  BY <1>1, <1>2 DEF Distinct
<1>5. KeysOf(w) = KeysOf(list) \ {list[n].key}
  <2>1. ASSUME NEW x \in KeysOf(w) PROVE x \in KeysOf(list) /\ x # list[n].key
    <3>1. PICK i \in 1..Len(w) : x = w[i].key
      BY Zenon DEF KeysOf
    <3> QED
      BY <1>1, <3>1 DEF KeysOf, Distinct
  <2>2. ASSUME NEW x \in KeysOf(list), x # list[n].key PROVE x \in KeysOf(w)
    <3>1. PICK j \in 1..Len(list) : x = list[j].key
      BY Zenon DEF KeysOf
    <3>2. PICK i \in 1..Len(w) : w[i] = list[j]
      BY <1>1, <1>3, <2>2, <3>1, Zenon
    <3> QED
      BY <3>1, <3>2, Zenon DEF KeysOf
  <2> QED
    BY <2>1, <2>2, Zenon
<1>6. \A rel : Ordered(list, rel) => Ordered(w, rel)
  BY <1>1, <1>2 DEF Ordered
<1>7. \A x \in KeysOf(w) : StoreOf(w)[x] = StoreOf(list)[x]
  BY <1>1, SameEntries
<1> QED
  BY <1>4, <1>5, <1>6, <1>7

\* A list with a new entry in front.
LEMMA InFront ==
    ASSUME NEW w \in Seq(Entries), Distinct(w), NEW e \in Entries, e.key \notin KeysOf(w)
    PROVE  /\ <<e>> \o w \in Seq(Entries) /\ Len(<<e>> \o w) = Len(w) + 1
           /\ Distinct(<<e>> \o w)
           /\ KeysOf(<<e>> \o w) = KeysOf(w) \cup {e.key}
           /\ StoreOf(<<e>> \o w)[e.key] = [value |-> e.value, expires |-> e.expiresAt]
           /\ \A x \in KeysOf(w) : StoreOf(<<e>> \o w)[x] = StoreOf(w)[x]
<1> DEFINE c == <<e>> \o w
<1>0. Len(w) \in Nat
  OBVIOUS
<1>1. /\ c \in Seq(Entries) /\ Len(c) = Len(w) + 1
      /\ \A i \in 1..Len(w) + 1 : c[i] = IF i = 1 THEN e ELSE w[i - 1]
  BY ConsFacts
<1> HIDE DEF c
<1>2. c[1] = e /\ 1 \in 1..Len(c) /\ \A i \in 1..Len(w) : i + 1 \in 1..Len(c) /\ c[i + 1] = w[i]
  BY <1>0, <1>1
<1>3. \A i \in 1..Len(c) : i = 1 \/ (i - 1 \in 1..Len(w) /\ c[i] = w[i - 1])
  BY <1>0, <1>1
<1>4. \A i \in 1..Len(w) : w[i].key # e.key
  BY Zenon DEF KeysOf
<1>5. Distinct(c)
  <2> SUFFICES ASSUME NEW m \in 1..Len(c), NEW n \in 1..Len(c), c[m].key = c[n].key
               PROVE  m = n
    BY Zenon DEF Distinct
  <2>1. CASE m = 1 /\ n # 1
    BY <1>2, <1>3, <1>4, <2>1
  <2>2. CASE m # 1 /\ n = 1
    BY <1>2, <1>3, <1>4, <2>2
  <2>3. CASE m # 1 /\ n # 1
    <3>1. m - 1 \in 1..Len(w) /\ n - 1 \in 1..Len(w) /\ w[m - 1].key = w[n - 1].key
      BY <1>3, <2>3, Zenon
    <3>2. m - 1 = n - 1
      BY <3>1, Zenon DEF Distinct
    <3> QED
      BY <1>0, <1>1, <3>2
  <2> QED
    BY <2>1, <2>2, <2>3, Zenon
<1>6. KeysOf(c) = KeysOf(w) \cup {e.key}
  <2>1. ASSUME NEW x \in KeysOf(c) PROVE x \in KeysOf(w) \cup {e.key}
    <3>1. PICK i \in 1..Len(c) : x = c[i].key
      BY Zenon DEF KeysOf
    <3> QED
      BY <1>2, <1>3, <3>1 DEF KeysOf
  <2>2. ASSUME NEW x \in KeysOf(w) PROVE x \in KeysOf(c)
    BY <1>2, Zenon DEF KeysOf
  <2>3. e.key \in KeysOf(c)
    BY <1>2, Zenon DEF KeysOf
  <2> QED
    BY <2>1, <2>2, <2>3, Zenon
<1>7. \A i \in 1..Len(w) : \E j \in 1..Len(c) : w[i] = c[j]
  BY <1>2, Zenon
<1>8. \A x \in KeysOf(w) : StoreOf(w)[x] = StoreOf(c)[x]
  BY <1>1, <1>5, <1>7, SameEntries
<1>9. StoreOf(c)[e.key] = [value |-> e.value, expires |-> e.expiresAt]
  <2>1. At(c, e.key) = 1
    BY <1>1, <1>2, <1>5, <1>6, AtFacts DEF Distinct
  <2> QED
    BY <1>2, <1>6, <2>1 DEF StoreOf
<1> QED
  BY <1>1, <1>5, <1>6, <1>8, <1>9, Zenon DEF c

(***************************************************************************)
(* The invariant                                                           *)
(***************************************************************************)

Inv ==
    /\ TypeOK
    /\ items = KeysOf(evictList)
    /\ Distinct(evictList)
    /\ Len(evictList) <= maxEntries
    /\ Ordered(evictList, later)

\* An entry that was just used, in front of the others.
LEMMA UsedInFront ==
    ASSUME NEW w \in Seq(Entries), NEW e \in Entries, e.key \notin KeysOf(w), Ordered(w, later)
    PROVE  Ordered(<<e>> \o w, Use(e.key))
<1> DEFINE c == <<e>> \o w
<1>0. Len(w) \in Nat
  OBVIOUS
<1>1. Len(c) = Len(w) + 1 /\ \A i \in 1..Len(w) + 1 : c[i] = IF i = 1 THEN e ELSE w[i - 1]
  BY ConsFacts
<1> HIDE DEF c
<1>2. \A i \in 1..Len(w) : w[i].key # e.key /\ w[i].key \in Keys
  <2>1. \A i \in 1..Len(w) : w[i].key # e.key
    BY Zenon DEF KeysOf
  <2>2. \A i \in 1..Len(w) : w[i] \in Entries
    OBVIOUS
  <2> QED
    BY <2>1, <2>2, Zenon DEF Entries
<1> SUFFICES ASSUME NEW m \in 1..Len(c), NEW n \in 1..Len(c), m < n
             PROVE  /\ <<c[m].key, c[n].key>> \in Use(e.key)
                    /\ <<c[n].key, c[m].key>> \notin Use(e.key)
  BY Zenon DEF Ordered, c
<1>3. n - 1 \in 1..Len(w) /\ c[n] = w[n - 1]
  BY <1>0, <1>1
<1>4. CASE m = 1
  <2>1. c[m] = e
    BY <1>0, <1>1, <1>4, Zenon
  <2> QED
    BY <1>2, <1>3, <2>1, Zenon DEF Use
<1>5. CASE m # 1
  <2>1. m - 1 \in 1..Len(w) /\ c[m] = w[m - 1] /\ m - 1 < n - 1
    BY <1>0, <1>1, <1>5
  <2>2. <<c[m].key, c[n].key>> \in later /\ <<c[n].key, c[m].key>> \notin later
    BY <1>3, <2>1 DEF Ordered
  <2> QED
    BY <1>2, <1>3, <2>1, <2>2, Zenon DEF Use
<1> QED
  BY <1>4, <1>5, Zenon

LEMMA UseType ==
    ASSUME later \subseteq Keys \X Keys, NEW k \in Keys
    PROVE  Use(k) \subseteq Keys \X Keys
BY DEF Use

\* The element of a key that is held.
LEMMA HeldElement ==
    ASSUME Inv, NEW k \in items
    PROVE  /\ k \in KeysOf(evictList) /\ At(evictList, k) \in 1..Len(evictList)
           /\ Element(k) \in Entries /\ Element(k).key = k
<1>1. evictList \in Seq(Entries) /\ k \in KeysOf(evictList)
  BY Zenon DEF Inv, TypeOK
<1>2. At(evictList, k) \in 1..Len(evictList) /\ evictList[At(evictList, k)].key = k
  BY <1>1, AtFacts, Zenon
<1> QED
  BY <1>1, <1>2 DEF Element

\* The list without that element.
LEMMA WithoutElement ==
    ASSUME Inv, NEW k \in items
    PROVE  LET w == Without(evictList, k) IN
           /\ w \in Seq(Entries) /\ Len(w) = Len(evictList) - 1
           /\ Distinct(w) /\ KeysOf(w) = items \ {k} /\ Ordered(w, later)
           /\ \A x \in KeysOf(w) : StoreOf(w)[x] = StoreOf(evictList)[x]
<1> DEFINE n == At(evictList, k)
           w == Without(evictList, k)
<1>1. n \in 1..Len(evictList) /\ evictList[n].key = k
  BY HeldElement, Zenon DEF Element
<1>2. /\ evictList \in Seq(Entries) /\ Distinct(evictList) /\ items = KeysOf(evictList)
      /\ Ordered(evictList, later)
  BY Zenon DEF Inv, TypeOK
<1>3. w = SubSeq(evictList, 1, n - 1) \o SubSeq(evictList, n + 1, Len(evictList))
  BY Zenon DEF Without
<1> HIDE DEF n, w
<1>4. /\ w \in Seq(Entries) /\ Len(w) = Len(evictList) - 1
      /\ \A i \in 1..Len(evictList) - 1 : w[i] = IF i < n THEN evictList[i] ELSE evictList[i + 1]
  BY <1>1, <1>2, <1>3, RemoveFacts, Zenon
<1>5. /\ Distinct(w) /\ KeysOf(w) = KeysOf(evictList) \ {evictList[n].key}
      /\ \A x \in KeysOf(w) : StoreOf(w)[x] = StoreOf(evictList)[x]
      /\ Ordered(w, later)
  BY <1>1, <1>2, <1>4, Removed
<1> QED
  BY <1>1, <1>2, <1>4, <1>5, Zenon DEF w

(***************************************************************************)
(* The steps: each keeps the invariant and is a step of CacheSpec          *)
(***************************************************************************)

LEMMA StoreIs == Store = StoreOf(evictList) /\ Store' = StoreOf(evictList')
BY Zenon DEF Store, StoreOf, Held, KeysOf, Element

\* The store after a step, key by key.
LEMMA NextStore ==
    ASSUME NEW f, NEW D, f = [x \in D |-> f[x]], D = KeysOf(evictList'),
           \A x \in D : StoreOf(evictList')[x] = f[x]
    PROVE  Store' = f
BY StoreIs, Zenon DEF StoreOf

\* What the invariant says, once more, for the state before a step.
LEMMA InvFacts ==
    ASSUME Inv
    PROVE  /\ now \in 0..MaxTime /\ now \in Nat /\ items \subseteq Keys /\ evictList \in Seq(Entries)
           /\ reply \in Values \cup {Nil} /\ later \subseteq Keys \X Keys
           /\ Len(evictList) \in Nat /\ Len(evictList) <= maxEntries
           /\ items = KeysOf(evictList) /\ Distinct(evictList) /\ Ordered(evictList, later)
           /\ DOMAIN Store = items
           /\ \A k \in items : Store[k] = [value |-> Element(k).value, expires |-> Element(k).expiresAt]
<1>1. /\ now \in 0..MaxTime /\ now \in Nat /\ items \subseteq Keys /\ evictList \in Seq(Entries)
      /\ reply \in Values \cup {Nil} /\ later \subseteq Keys \X Keys
  BY DEF Inv, TypeOK
<1>2. Len(evictList) \in Nat
  BY <1>1
<1>3. /\ Len(evictList) <= maxEntries
      /\ items = KeysOf(evictList) /\ Distinct(evictList) /\ Ordered(evictList, later)
  BY Zenon DEF Inv
<1>4. DOMAIN Store = items /\
      \A k \in items : Store[k] = [value |-> Element(k).value, expires |-> Element(k).expiresAt]
  BY <1>3, Zenon DEF Store, Held, KeysOf
<1> QED
  BY <1>1, <1>2, <1>3, <1>4, Zenon

\* The invariant of the next state, from what a step does to the list.
LEMMA NextInv ==
    ASSUME now' \in 0..MaxTime, items' \subseteq Keys, evictList' \in Seq(Entries),
           reply' \in Values \cup {Nil}, later' \subseteq Keys \X Keys,
           items' = KeysOf(evictList'), Distinct(evictList'), Len(evictList') <= maxEntries,
           Ordered(evictList', later')
    PROVE  Inv'
BY Zenon DEF Inv, TypeOK

LEMMA StepGetStale ==
    ASSUME Inv, NEW k \in Keys, GetStale(k)
    PROVE  Inv' /\ Abstract!Get(k)
<1> DEFINE w == Without(evictList, k)
<1>1. /\ k \in items /\ Element(k).expiresAt < now
      /\ evictList' = w /\ items' = items \ {k} /\ reply' = Nil /\ now' = now /\ later' = later
  BY Zenon DEF GetStale
<1>2. /\ w \in Seq(Entries) /\ Len(w) = Len(evictList) - 1
      /\ Distinct(w) /\ KeysOf(w) = items \ {k} /\ Ordered(w, later)
      /\ \A x \in KeysOf(w) : StoreOf(w)[x] = StoreOf(evictList)[x]
  BY <1>1, WithoutElement, Zenon
<1> HIDE DEF w
<1>3. Inv'
  <2>1. Len(w) <= maxEntries
    BY <1>2, InvFacts, CacheAssumption
  <2> QED
    BY <1>1, <1>2, <2>1, InvFacts, NextInv
<1>4. Store' = [x \in DOMAIN Store \ {k} |-> Store[x]]
  <2> DEFINE D == DOMAIN Store \ {k}
             f == [x \in D |-> Store[x]]
  <2>1. D = KeysOf(evictList')
    BY <1>1, <1>2, InvFacts, Zenon
  <2>2. \A x \in D : StoreOf(evictList')[x] = f[x]
    BY <1>1, <1>2, <2>1, StoreIs, Zenon
  <2>3. f = [x \in D |-> f[x]]
    BY Zenon
  <2> HIDE DEF D, f
  <2>4. Store' = f
    BY <2>1, <2>2, <2>3, NextStore, Zenon
  <2> QED
    BY <2>4, Zenon DEF D, f
<1>5. Store[k].expires < now
  BY <1>1, InvFacts
<1>6. Abstract!Get(k)
  BY <1>1, <1>4, <1>5, Zenon DEF Abstract!Get, Abstract!Only
<1> QED
  BY <1>3, <1>6, Zenon

LEMMA StepGetHit ==
    ASSUME Inv, NEW k \in Keys, GetHit(k)
    PROVE  Inv' /\ Abstract!Get(k)
<1> DEFINE w == Without(evictList, k)
           e == Element(k)
<1>1. /\ k \in items /\ now <= e.expiresAt
      /\ evictList' = MoveToFront(e) /\ reply' = e.value /\ later' = Use(k) /\ items' = items /\ now' = now
  BY Zenon DEF GetHit
<1>2. e \in Entries /\ e.key = k /\ e.value \in Values
  <2>1. e \in Entries /\ e.key = k
    BY <1>1, HeldElement, Zenon
  <2> QED
    BY <2>1, Zenon DEF Entries
<1>3. /\ w \in Seq(Entries) /\ Len(w) = Len(evictList) - 1
      /\ Distinct(w) /\ KeysOf(w) = items \ {k} /\ Ordered(w, later)
      /\ \A x \in KeysOf(w) : StoreOf(w)[x] = StoreOf(evictList)[x]
  BY <1>1, WithoutElement, Zenon
<1>4. evictList' = <<e>> \o w
  BY <1>1, <1>2, Zenon DEF MoveToFront
<1>5. StoreOf(evictList)[k] = [value |-> e.value, expires |-> e.expiresAt] /\ DOMAIN StoreOf(evictList) = items
  BY <1>1, InvFacts, StoreIs
<1> HIDE DEF w, e
<1>n. e.key \notin KeysOf(w)
  BY <1>2, <1>3
<1>6. /\ evictList' \in Seq(Entries) /\ Len(evictList') = Len(w) + 1 /\ Distinct(evictList')
      /\ KeysOf(evictList') = KeysOf(w) \cup {e.key}
      /\ StoreOf(evictList')[e.key] = [value |-> e.value, expires |-> e.expiresAt]
      /\ \A x \in KeysOf(w) : StoreOf(evictList')[x] = StoreOf(w)[x]
  BY <1>2, <1>3, <1>4, <1>n, InFront
<1>7. Ordered(evictList', later')
  BY <1>1, <1>2, <1>3, <1>4, <1>n, UsedInFront
<1>8. Inv'
  <2>1. Len(evictList') <= maxEntries
    BY <1>3, <1>6, InvFacts
  <2>2. later' \subseteq Keys \X Keys
    BY <1>1, InvFacts, UseType, Zenon
  <2>3. items' = KeysOf(evictList')
    BY <1>1, <1>2, <1>3, <1>6
  <2> QED
    BY <1>1, <1>2, <1>6, <1>7, <2>1, <2>2, <2>3, InvFacts, NextInv, Zenon
<1>9. Store' = Store
  <2>1. KeysOf(evictList') = items
    BY <1>1, <1>2, <1>3, <1>6
  <2>2. \A x \in items : StoreOf(evictList')[x] = StoreOf(evictList)[x]
    BY <1>2, <1>3, <1>5, <1>6
  <2>3. StoreOf(evictList) = [x \in items |-> StoreOf(evictList)[x]]
    BY <1>5, Zenon DEF StoreOf
  <2> QED
    BY <1>5, <2>1, <2>2, <2>3, StoreIs, NextStore, Zenon
<1>10. k \in DOMAIN Store /\ now <= Store[k].expires /\ reply' = Store[k].value
  BY <1>1, <1>5, StoreIs
<1>11. Abstract!Get(k)
  BY <1>1, <1>9, <1>10, Zenon DEF Abstract!Get
<1> QED
  BY <1>8, <1>11, Zenon

LEMMA StepGetMiss ==
    ASSUME Inv, NEW k \in Keys, GetMiss(k)
    PROVE  Inv' /\ Abstract!Get(k)
<1>1. /\ k \notin items /\ reply' = Nil
      /\ now' = now /\ items' = items /\ evictList' = evictList /\ later' = later
  BY Zenon DEF GetMiss
<1>2. Inv'
  BY <1>1, InvFacts, NextInv, Zenon
<1>3. Store' = [x \in DOMAIN Store \ {k} |-> Store[x]]
  <2>1. Store = [x \in DOMAIN Store |-> Store[x]]
    BY Zenon DEF Store
  <2>2. DOMAIN Store \ {k} = DOMAIN Store /\ Store' = Store
    BY <1>1, InvFacts, StoreIs, Zenon
  <2> QED
    BY <2>1, <2>2, Zenon
<1>4. k \notin DOMAIN Store
  BY <1>1, InvFacts, Zenon
<1> QED
  BY <1>1, <1>2, <1>3, <1>4 DEF Abstract!Get, Abstract!Only

\* What Set writes.
Written(k, v, ttl) == [key |-> k, value |-> v, expiresAt |-> now + ttl]

LEMMA WrittenFacts ==
    ASSUME Inv, NEW k \in Keys, NEW v \in Values, NEW ttl \in TTLs
    PROVE  /\ Written(k, v, ttl) \in Entries /\ Written(k, v, ttl).key = k
           /\ Written(k, v, ttl).value = v /\ Written(k, v, ttl).expiresAt = now + ttl
<1>1. now + ttl \in Nat
  BY InvFacts, CacheAssumption
<1> QED
  BY <1>1, Zenon DEF Written, Entries

\* A Set of CacheSpec that leaves the keys D.
LEMMA IsSet ==
    ASSUME NEW k, NEW v, NEW ttl, NEW D \in SUBSET (DOMAIN Store \cup {k}), Cardinality(D) <= maxEntries,
           Store' = [x \in D |-> IF x = k THEN [value |-> v, expires |-> now + ttl] ELSE Store[x]],
           reply' = Nil, now' = now
    PROVE  Abstract!Set(k, v, ttl)
<1> DEFINE full == [x \in DOMAIN Store \cup {k} |->
                      IF x = k THEN [value |-> v, expires |-> now + ttl] ELSE Store[x]]
<1>1. Store' = [x \in D |-> full[x]] /\ D \in SUBSET DOMAIN full
  BY Zenon
<1>2. Abstract!Cardinality(D) = Cardinality(D)
  BY Zenon DEF Cardinality, Abstract!Cardinality
<1> HIDE DEF full
<1>3. \E X \in SUBSET DOMAIN full : Abstract!Cardinality(X) <= maxEntries /\ Store' = [x \in X |-> full[x]]
  BY <1>1, <1>2, Zenon
<1> QED
  BY <1>3, Zenon DEF Abstract!Set, Abstract!Only, full

LEMMA StepSetExisting ==
    ASSUME Inv, NEW k \in Keys, NEW v \in Values, NEW ttl \in TTLs, SetExisting(k, v, ttl)
    PROVE  Inv' /\ Abstract!Set(k, v, ttl)
<1> DEFINE w == Without(evictList, k)
           e == Written(k, v, ttl)
<1>1. /\ k \in items
      /\ evictList' = MoveToFront(e) /\ reply' = Nil /\ later' = Use(k) /\ items' = items /\ now' = now
  BY Zenon DEF SetExisting, Written
<1>2. e \in Entries /\ e.key = k /\ e.value = v /\ e.expiresAt = now + ttl
  BY WrittenFacts
<1>3. /\ w \in Seq(Entries) /\ Len(w) = Len(evictList) - 1
      /\ Distinct(w) /\ KeysOf(w) = items \ {k} /\ Ordered(w, later)
      /\ \A x \in KeysOf(w) : StoreOf(w)[x] = StoreOf(evictList)[x]
  BY <1>1, WithoutElement, Zenon
<1>4. evictList' = <<e>> \o w
  BY <1>1, <1>2, Zenon DEF MoveToFront
<1> HIDE DEF w, e
<1>n. e.key \notin KeysOf(w)
  BY <1>2, <1>3, Zenon
<1>6. /\ evictList' \in Seq(Entries) /\ Len(evictList') = Len(w) + 1 /\ Distinct(evictList')
      /\ KeysOf(evictList') = KeysOf(w) \cup {e.key}
      /\ StoreOf(evictList')[e.key] = [value |-> e.value, expires |-> e.expiresAt]
      /\ \A x \in KeysOf(w) : StoreOf(evictList')[x] = StoreOf(w)[x]
  BY <1>2, <1>3, <1>4, <1>n, InFront
<1>7. Ordered(evictList', later')
  BY <1>1, <1>2, <1>3, <1>4, <1>n, UsedInFront
<1>8. items' = KeysOf(evictList') /\ Len(evictList') = Len(evictList)
  BY <1>1, <1>2, <1>3, <1>6, InvFacts
<1>9. Inv'
  <2>1. later' \subseteq Keys \X Keys
    BY <1>1, InvFacts, UseType, Zenon
  <2> QED
    BY <1>1, <1>6, <1>7, <1>8, <2>1, InvFacts, NextInv, Zenon
<1>10. Store' = [x \in items |-> IF x = k THEN [value |-> v, expires |-> now + ttl] ELSE Store[x]]
  <2> DEFINE f == [x \in items |-> IF x = k THEN [value |-> v, expires |-> now + ttl] ELSE Store[x]]
  <2>1. \A x \in items : StoreOf(evictList')[x] = f[x]
    BY <1>2, <1>3, <1>6, StoreIs, Zenon
  <2>2. f = [x \in items |-> f[x]]
    BY Zenon
  <2> HIDE DEF f
  <2>3. Store' = f
    BY <1>1, <1>8, <2>1, <2>2, NextStore, Zenon
  <2> QED
    BY <2>3, Zenon DEF f
<1>11. Cardinality(items) <= maxEntries /\ items \in SUBSET (DOMAIN Store \cup {k})
  <2>1. Cardinality(KeysOf(evictList)) = Len(evictList)
    BY InvFacts, DistinctCount, Zenon
  <2> QED
    BY <2>1, InvFacts, Zenon
<1>12. Abstract!Set(k, v, ttl)
  BY <1>1, <1>10, <1>11, IsSet
<1> QED
  BY <1>9, <1>12, Zenon

\* The list that PushFront makes, and removeOldest cuts.
LEMMA Cut ==
    ASSUME NEW list \in Seq(Entries), Distinct(list), Len(list) <= maxEntries + 1, list # <<>>
    PROVE  LET kept == removeOldest(list) IN
           /\ kept \in Seq(Entries) /\ Len(kept) <= maxEntries /\ Distinct(kept)
           /\ KeysOf(kept) = IF kept = list THEN KeysOf(list) ELSE KeysOf(list) \ {list[Len(list)].key}
           /\ \A x \in KeysOf(kept) : StoreOf(kept)[x] = StoreOf(list)[x]
           /\ \A rel : Ordered(list, rel) => Ordered(kept, rel)
<1>0. Len(list) \in Nat /\ Len(list) >= 1 /\ maxEntries \in Nat
  BY CacheAssumption
<1>1. CASE Len(list) <= maxEntries
  <2>1. removeOldest(list) = list
    BY <1>0, <1>1 DEF removeOldest
  <2> QED
    BY <1>1, <2>1, Zenon
<1>2. CASE Len(list) > maxEntries
  <2> DEFINE w == SubSeq(list, 1, Len(list) - 1)
             n == Len(list)
  <2>1. removeOldest(list) = w
    BY <1>2 DEF removeOldest
  <2>3. n \in 1..Len(list) /\ \A i \in 1..Len(list) - 1 : i < n
    BY <1>0
  <2>2. w \in Seq(Entries) /\ Len(w) = Len(list) - 1 /\ \A i \in 1..Len(list) - 1 : w[i] = list[i]
    BY <2>3, PrefixFacts, Zenon
  <2> HIDE DEF w, n
  <2>4. /\ Distinct(w) /\ KeysOf(w) = KeysOf(list) \ {list[n].key}
        /\ \A x \in KeysOf(w) : StoreOf(w)[x] = StoreOf(list)[x]
        /\ \A rel : Ordered(list, rel) => Ordered(w, rel)
    <3>1. \A i \in 1..Len(list) - 1 : w[i] = IF i < n THEN list[i] ELSE list[i + 1]
      BY <2>2, <2>3, Zenon
    <3> QED
      BY <2>2, <2>3, <3>1, Removed
  <2>5. w # list /\ Len(w) <= maxEntries
    BY <1>0, <2>2
  <2> QED
    BY <2>1, <2>2, <2>4, <2>5 DEF n
<1> QED
  BY <1>0, <1>1, <1>2

LEMMA StepSetNew ==
    ASSUME Inv, NEW k \in Keys, NEW v \in Values, NEW ttl \in TTLs, SetNew(k, v, ttl)
    PROVE  Inv' /\ Abstract!Set(k, v, ttl)
<1> DEFINE e == Written(k, v, ttl)
           list == <<e>> \o evictList
           kept == removeOldest(list)
<1>1. /\ k \notin items /\ evictList' = kept
      /\ items' = IF kept = list THEN items \cup {k} ELSE (items \cup {k}) \ {list[Len(list)].key}
      /\ reply' = Nil /\ later' = Use(k) /\ now' = now
  BY Zenon DEF SetNew, Written
<1>2. e \in Entries /\ e.key = k /\ e.value = v /\ e.expiresAt = now + ttl
  BY WrittenFacts
<1> HIDE DEF e
<1>3. e.key \notin KeysOf(evictList)
  BY <1>1, <1>2, InvFacts, Zenon
<1>4. /\ list \in Seq(Entries) /\ Len(list) = Len(evictList) + 1 /\ Distinct(list)
      /\ KeysOf(list) = KeysOf(evictList) \cup {e.key}
      /\ StoreOf(list)[e.key] = [value |-> e.value, expires |-> e.expiresAt]
      /\ \A x \in KeysOf(evictList) : StoreOf(list)[x] = StoreOf(evictList)[x]
  BY <1>2, <1>3, InvFacts, InFront
<1>5. Ordered(list, later')
  BY <1>1, <1>2, <1>3, InvFacts, UsedInFront
<1> HIDE DEF list
<1>6. list # <<>> /\ Len(list) <= maxEntries + 1
  BY <1>4, InvFacts, CacheAssumption
<1>7. /\ kept \in Seq(Entries) /\ Len(kept) <= maxEntries /\ Distinct(kept)
      /\ KeysOf(kept) = IF kept = list THEN KeysOf(list) ELSE KeysOf(list) \ {list[Len(list)].key}
      /\ \A x \in KeysOf(kept) : StoreOf(kept)[x] = StoreOf(list)[x]
      /\ Ordered(kept, later')
  BY <1>4, <1>5, <1>6, Cut, Zenon
<1> HIDE DEF kept
<1>8. items' = KeysOf(kept) /\ KeysOf(kept) \subseteq items \cup {k}
  BY <1>1, <1>2, <1>4, <1>7, InvFacts
<1>9. Inv'
  <2>1. later' \subseteq Keys \X Keys
    BY <1>1, InvFacts, UseType, Zenon
  <2>2. items' \subseteq Keys
    BY <1>8, InvFacts, Zenon
  <2> QED
    BY <1>1, <1>7, <1>8, <2>1, <2>2, InvFacts, NextInv, Zenon
<1>10. Store' = [x \in KeysOf(kept) |-> IF x = k THEN [value |-> v, expires |-> now + ttl] ELSE Store[x]]
  <2> DEFINE D == KeysOf(kept)
             f == [x \in D |-> IF x = k THEN [value |-> v, expires |-> now + ttl] ELSE Store[x]]
  <2>1. \A x \in D : StoreOf(evictList')[x] = f[x]
    BY <1>1, <1>2, <1>4, <1>7, <1>8, InvFacts, StoreIs
  <2>2. f = [x \in D |-> f[x]] /\ D = KeysOf(evictList')
    BY <1>1, Zenon
  <2> HIDE DEF f, D
  <2>3. Store' = f
    BY <2>1, <2>2, NextStore, Zenon
  <2> QED
    BY <2>3, Zenon DEF f, D
<1>11. Cardinality(KeysOf(kept)) <= maxEntries /\ KeysOf(kept) \in SUBSET (DOMAIN Store \cup {k})
  <2>1. Cardinality(KeysOf(kept)) = Len(kept)
    BY <1>7, DistinctCount, Zenon
  <2> QED
    BY <1>7, <1>8, <2>1, InvFacts
<1>12. Abstract!Set(k, v, ttl)
  BY <1>1, <1>10, <1>11, IsSet
<1> QED
  BY <1>9, <1>12, Zenon

LEMMA StepTick ==
    ASSUME Inv, Tick
    PROVE  Inv' /\ Abstract!Tick
<1>1. /\ now < MaxTime /\ now' = now + 1
      /\ items' = items /\ evictList' = evictList /\ reply' = reply /\ later' = later
  BY Zenon DEF Tick
<1>2. now' \in 0..MaxTime
  BY <1>1, InvFacts, CacheAssumption
<1>3. Store' = Store
  BY <1>1, StoreIs, Zenon
<1> QED
  BY <1>1, <1>2, <1>3, InvFacts, NextInv DEF Abstract!Tick

(***************************************************************************)
(* The theorems                                                            *)
(***************************************************************************)

LEMMA InvInit == Init => Inv /\ Abstract!Init
<1> SUFFICES ASSUME Init PROVE Inv /\ Abstract!Init
  BY Zenon
<1>1. KeysOf(<<>>) = {} /\ Distinct(<<>>) /\ Ordered(<<>>, {})
  BY DEF KeysOf, Distinct, Ordered
<1>2. Inv
  BY <1>1, CacheAssumption DEF Init, Inv, TypeOK
<1>3. Store = [x \in {} |-> [y \in Keys |-> Nil][x]]
  BY DEF Init, Store, Held
<1> QED
  BY <1>2, <1>3, Zenon DEF Init, Abstract!Init, Abstract!Only

LEMMA InvStep == Inv /\ [Next]_vars => Inv' /\ [Abstract!Next]_(Abstract!specVars)
<1> SUFFICES ASSUME Inv, [Next]_vars PROVE Inv' /\ [Abstract!Next]_(Abstract!specVars)
  BY Zenon
<1>1. ASSUME NEW k \in Keys, GetStale(k) \/ GetHit(k) \/ GetMiss(k) PROVE Inv' /\ Abstract!Get(k)
  BY <1>1, StepGetStale, StepGetHit, StepGetMiss, Zenon
<1>2. ASSUME NEW k \in Keys, NEW v \in Values, NEW ttl \in TTLs, SetExisting(k, v, ttl) \/ SetNew(k, v, ttl)
      PROVE  Inv' /\ Abstract!Set(k, v, ttl)
  BY <1>2, StepSetExisting, StepSetNew, Zenon
<1>3. CASE Tick
  BY <1>3, StepTick, Zenon DEF Abstract!Next
<1>4. CASE UNCHANGED vars
  <2>1. now' = now /\ items' = items /\ evictList' = evictList /\ reply' = reply /\ later' = later
    BY <1>4, Zenon DEF vars
  <2>2. Inv' /\ Store' = Store
    BY <2>1, InvFacts, NextInv, StoreIs
  <2> QED
    BY <2>1, <2>2, Zenon DEF Abstract!specVars
<1> QED
  BY <1>1, <1>2, <1>3, <1>4, Zenon DEF Next, Abstract!Next

\* Whatever Get and Set do, one after another, Memory.items and Memory.evictList hold the
\* same keys, none twice, and never more than max_entries of them.
THEOREM StructuresAgree == Spec => []MapAndListAgree
<1>1. Inv => MapAndListAgree
  <2> SUFFICES ASSUME Inv PROVE MapAndListAgree
    BY Zenon
  <2>1. Held = KeysOf(evictList)
    BY Zenon DEF Held, KeysOf
  <2>2. Cardinality(KeysOf(evictList)) = Len(evictList)
    BY InvFacts, DistinctCount
  <2> QED
    BY <2>1, <2>2, InvFacts, Zenon DEF MapAndListAgree, Inv
<1> QED
  BY <1>1, InvInit, InvStep, PTL DEF Spec

\* removeOldest evicts the least recently used entry: the list stays in order of use.
THEOREM EvictsLeastRecent == Spec => []ListInOrderOfUse
<1>1. Inv => ListInOrderOfUse
  BY Zenon DEF Inv, Ordered, ListInOrderOfUse
<1> QED
  BY <1>1, InvInit, InvStep, PTL DEF Spec

\* memory.go implements the contract that Dispatch relies on, for every limit: each
\* Get, Set and tick of the clock is a step of CacheSpec on the entries held.
THEOREM MemoryImplementsCache == Spec => ImplementsCache
<1> QED
  BY InvInit, InvStep, PTL DEF Spec, ImplementsCache, Abstract!Spec
=============================================================================
