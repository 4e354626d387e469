---------------------------- MODULE EngineProofs ----------------------------
(***************************************************************************)
(* The dispatch engine, for any number of requests, providers, configs and *)
(* bodies.  Each property of a request follows from what Sound says of it, *)
(* which every step of the request keeps, and which no step of another     *)
(* request, no Reload and no eviction can touch: a request reads shared    *)
(* state only in Dispatch (the config) and in CacheGet (the cache, see     *)
(* CacheSound).                                                            *)
(***************************************************************************)
EXTENDS Engine, TLAPS, WellFoundedInduction

(***************************************************************************)
(* The inductive invariant                                                 *)
(***************************************************************************)

Errors == {"none", "net", "missing model", "no provider", "forbidden", "not found", "unsupported"} \cup Codes

AllInputs == UNION {Inputs[r] : r \in Requests}

AllKeys == {None} \cup UNION {{k.key : k \in UNION {c.keys[p] : p \in Providers}} : c \in Configs}

RequestRecords ==
    [pc : PCs, in : AllInputs \cup {None}, cfg : Configs \cup {None}, body : Bodies \cup {None},
     names : Seq(Providers), pos : Nat, attempt : Nat, key : AllKeys, err : Errors,
     resp : Responses \cup {None}, hit : BOOLEAN, used : SUBSET (Providers \X AllKeys),
     tried : SUBSET Nat, gone : BOOLEAN, late : BOOLEAN]

\* What Dispatch establishes and no later step changes: the request runs under one
\* config, and its list is what that config and the key's scopes leave.
Admitted(r, q) ==
    /\ q.in \in Inputs[r] /\ q.cfg \in Configs /\ q.body \in Bodies
    /\ \A n \in 1..Len(q.names) :
         q.in.kind # "passthrough" =>
             /\ q.names[n] \in Range(resolveProviders(q.cfg, q.in.body, q.in.kind))
             /\ isProviderAllowed(q.in.scope, q.names[n])
             /\ isModelAllowed(q.in.scope, q.in.body.model)
    /\ q.in.kind = "passthrough" => Len(q.names) <= 1
    /\ q.names = <<>> => q.pc = "done" /\ q.err # "none" /\ q.resp = None

\* Where the loops stand: the provider being called is one the entry point can use.
InPlace(q) ==
    /\ q.pc \in {"cache", "loop"} => q.pos \in 1..Len(q.names) + 1
    /\ q.pc = "cache" => q.err = "none"
    /\ q.pc \in {"attempt", "call", "store"} =>
         q.pos \in 1..Len(q.names) /\ Lookup(q.names[q.pos], q.in.kind) = "none"
    /\ q.pc = "store" => q.err = "none"

\* Every position before the present one was called or cannot be used, and has left
\* its error behind (with max_retries >= 0).
Searched(q) ==
    q.pc \in {"cache", "loop", "attempt", "call"} =>
        /\ q.resp = None /\ ~q.hit
        /\ q.pc = "call" => q.pos \in q.tried
        /\ q.pos > 1 /\ maxAttempts(q.cfg) > 0 => q.err # "none"
        /\ maxAttempts(q.cfg) > 0 =>
             \A n \in 1..Len(q.names) :
                 n < q.pos => n \in q.tried \/ Lookup(q.names[n], q.in.kind) # "none"

\* What has been called, and with which key.
UsedUnder(q) ==
    \A u \in q.used :
        /\ \E n \in 1..Len(q.names) : u[1] = q.names[n]
        /\ \/ u[2] \in selectKey(q.cfg, u[1], KeyModel(q))
           \/ u[2] = None /\ u[1] \notin q.cfg.stored

\* What is returned: a response of a provider of the list, or the last error.
Answered(q) ==
    /\ q.resp # None => \E n \in 1..Len(q.names) : q.resp.from = q.names[n]
    /\ q.pc = "store" => q.resp # None /\ ~q.hit
    /\ q.hit => /\ q.resp # None /\ q.names # <<>>
                /\ q.resp.from = q.names[1] /\ q.resp.status = 200
                /\ q.resp.body.model = q.body.model /\ q.resp.body.hashed = q.body.hashed
                /\ q.body.det
    /\ q.pc = "done" /\ maxAttempts(q.cfg) > 0 =>
         /\ (q.resp = None) # (q.err = "none")
         /\ q.resp = None /\ q.names # <<>> =>
              \/ \A n \in 1..Len(q.names) : n \in q.tried \/ Lookup(q.names[n], q.in.kind) # "none"
              \/ q.in.kind \in {"chat", "stream"} /\ ~q.cfg.enabled

Sound(r, q) ==
    /\ q \in RequestRecords
    /\ q.pc = "idle" => q = Idle
    /\ q.pc # "idle" => Admitted(r, q) /\ InPlace(q) /\ Searched(q) /\ UsedUnder(q) /\ Answered(q)

\* An entry was stored under the key of the response itself.
CacheSound ==
    /\ DOMAIN cache \subseteq {DeriveKey(p, b) : p \in Registered, b \in Bodies}
    /\ \A k \in DOMAIN cache :
         /\ cache[k] \in Responses /\ cache[k].status = 200
         /\ k = DeriveKey(cache[k].from, cache[k].body)

Inv ==
    /\ st \in Configs
    /\ CacheSound
    /\ rq \in [Requests -> RequestRecords]
    /\ \A r \in Requests : Sound(r, rq[r])

(***************************************************************************)
(* The filter of enforceScopes                                             *)
(***************************************************************************)

LEMMA LeastNatural ==
    ASSUME NEW T \in SUBSET Nat, T # {}
    PROVE  \E x \in T : \A y \in T : x <= y
<1>1. PICK x \in T : \A y \in T : ~(<<y, x>> \in OpToRel(<, Nat))
  BY NatLessThanWellFounded, WFMin, Zenon
<1>2. \A y \in T : ~(y < x)
  BY <1>1, Zenon DEF OpToRel
<1> QED
  BY <1>2

\* The function that scopedProviders computes with, up to the n-th name.
IsFilter(f, scope, names, n) ==
    f = [i \in 0..n |-> IF i = 0 THEN <<>>
                        ELSE IF isProviderAllowed(scope, names[i]) THEN Append(f[i - 1], names[i])
                        ELSE f[i - 1]]

LEMMA FilterExists ==
    ASSUME NEW scope, NEW names \in Seq(Providers)
    PROVE  \A n \in 0..Len(names) : \E f : IsFilter(f, scope, names, n)
<1> DEFINE Bad == {n \in 0..Len(names) : ~ \E f : IsFilter(f, scope, names, n)}
<1> SUFFICES ASSUME Bad # {} PROVE FALSE
  BY Zenon
<1>1. PICK n \in Bad : \A m \in Bad : n <= m
  <2>1. Bad \in SUBSET Nat
    OBVIOUS
  <2> HIDE DEF Bad
  <2> QED
    BY <2>1, LeastNatural, Zenon
<1>2. n # 0
  <2> DEFINE f == [i \in 0..0 |-> <<>>]
  <2>1. IsFilter(f, scope, names, 0)
    BY DEF IsFilter
  <2> QED
    BY <2>1, Zenon
<1>3. PICK f : IsFilter(f, scope, names, n - 1)
  BY <1>1, <1>2
<1> DEFINE last == IF isProviderAllowed(scope, names[n]) THEN Append(f[n - 1], names[n]) ELSE f[n - 1]
           g == [i \in 0..n |-> IF i = n THEN last ELSE f[i]]
<1>4. IsFilter(g, scope, names, n)
  <2>1. \A i \in 0..n - 1 : f[i] = IF i = 0 THEN <<>>
                                   ELSE IF isProviderAllowed(scope, names[i]) THEN Append(f[i - 1], names[i])
                                   ELSE f[i - 1]
    BY <1>3, Zenon DEF IsFilter
  <2>2. \A i \in 0..n : g[i] = IF i = 0 THEN <<>>
                               ELSE IF isProviderAllowed(scope, names[i]) THEN Append(g[i - 1], names[i])
                               ELSE g[i - 1]
    BY <2>1, <1>2
  <2> QED
    BY <2>2, Zenon DEF IsFilter
<1> QED
  BY <1>4, <1>1, Zenon

\* The filtered list has only names of the list, and only allowed ones.
FromList(s, scope, names) ==
    /\ s \in Seq(Providers)
    /\ \A j \in 1..Len(s) : \E m \in 1..Len(names) : s[j] = names[m] /\ isProviderAllowed(scope, names[m])

LEMMA FilterFromList ==
    ASSUME NEW scope, NEW names \in Seq(Providers), NEW f, IsFilter(f, scope, names, Len(names))
    PROVE  \A n \in 0..Len(names) : FromList(f[n], scope, names)
<1> DEFINE Bad == {n \in 0..Len(names) : ~FromList(f[n], scope, names)}
<1> SUFFICES ASSUME Bad # {} PROVE FALSE
  BY Zenon
<1>0. PICK n \in Bad : \A m \in Bad : n <= m
  <2>1. Bad \in SUBSET Nat
    OBVIOUS
  <2> HIDE DEF Bad
  <2> QED
    BY <2>1, LeastNatural, Zenon
<1>1. n \in 0..Len(names) /\ ~FromList(f[n], scope, names) /\ \A m \in 0..n - 1 : FromList(f[m], scope, names)
  BY <1>0
<1> HIDE DEF Bad
<1>2. \A i \in 0..Len(names) : f[i] = IF i = 0 THEN <<>>
                                      ELSE IF isProviderAllowed(scope, names[i]) THEN Append(f[i - 1], names[i])
                                      ELSE f[i - 1]
  BY Zenon DEF IsFilter
<1>3. n # 0
  <2>1. FromList(<<>>, scope, names)
    BY DEF FromList
  <2>2. f[0] = <<>>
    BY <1>2
  <2> QED
    BY <2>1, <2>2, <1>1, Zenon
<1>4. n \in 1..Len(names) /\ names[n] \in Providers /\ n - 1 \in 0..Len(names)
  BY <1>1, <1>3
<1>p. FromList(f[n - 1], scope, names)
  BY <1>1, <1>4
<1>5. CASE isProviderAllowed(scope, names[n])
  <2>1. f[n] = Append(f[n - 1], names[n])
    BY <1>1, <1>2, <1>3, <1>5, Zenon
  <2> DEFINE s == f[n - 1]
             t == f[n]
  <2>2. s \in Seq(Providers) /\ t = Append(s, names[n])
    BY <2>1, <1>p, Zenon DEF FromList
  <2> HIDE DEF s, t
  <2>3. t \in Seq(Providers) /\ Len(t) = Len(s) + 1 /\ t[Len(s) + 1] = names[n]
        /\ \A j \in 1..Len(s) : t[j] = s[j]
    BY <2>2, <1>4
  <2>4. ASSUME NEW j \in 1..Len(t)
        PROVE  \E m \in 1..Len(names) : t[j] = names[m] /\ isProviderAllowed(scope, names[m])
    <3>1. CASE j \in 1..Len(s)
      BY <3>1, <2>3, <1>p DEF FromList, s
    <3>2. CASE j = Len(s) + 1
      BY <3>2, <2>3, <1>4, <1>5, Zenon
    <3> QED
      BY <3>1, <3>2, <2>2, <2>3
  <2>5. FromList(t, scope, names)
    BY <2>3, <2>4, Zenon DEF FromList
  <2> QED
    BY <2>5, <1>1, Zenon DEF t
<1>6. CASE ~isProviderAllowed(scope, names[n])
  BY <1>2, <1>4, <1>p, <1>6, <1>1
<1> QED
  BY <1>5, <1>6, Zenon

LEMMA ScopedProvidersFromList ==
    ASSUME NEW scope, NEW names \in Seq(Providers)
    PROVE  FromList(scopedProviders(scope, names), scope, names)
<1> DEFINE f == CHOOSE f : IsFilter(f, scope, names, Len(names))
<1>1. Len(names) \in 0..Len(names)
  OBVIOUS
<1>2. IsFilter(f, scope, names, Len(names))
  BY <1>1, FilterExists, Zenon
<1>3. scopedProviders(scope, names) = f[Len(names)]
  BY Zenon DEF scopedProviders, IsFilter
<1> HIDE DEF f
<1> QED
  BY <1>1, <1>2, <1>3, FilterFromList, Zenon

(***************************************************************************)
(* What the steps share                                                    *)
(***************************************************************************)

LEMMA Constants ==
    /\ \A c \in Configs : IsConfig(c) /\ maxAttempts(c) \in Int
    /\ \A r \in Requests : \A in \in Inputs[r] :
         in \in AllInputs /\ in.kind \in Kinds /\ in.body \in Bodies /\ in.body \in BodyShape
    /\ \A b \in Bodies : PreLLM[b] \in Bodies
    /\ None \in AllKeys
<1>1. \A c \in Configs : IsConfig(c) /\ maxAttempts(c) \in Int
  BY ConstantsAssumption DEF IsConfig, maxAttempts
<1>2. \A r \in Requests : \A in \in Inputs[r] :
        in \in AllInputs /\ in.kind \in Kinds /\ in.body \in Bodies /\ in.body \in BodyShape
  BY ConstantsAssumption, Zenon DEF AllInputs
<1>3. \A b \in Bodies : PreLLM[b] \in Bodies
  BY ConstantsAssumption, Zenon
<1> QED
  BY <1>1, <1>2, <1>3, Zenon DEF AllKeys

\* A step of one request.
LEMMA RequestStep ==
    ASSUME Inv, NEW r \in Requests, NEW n, rq' = [rq EXCEPT ![r] = n], Sound(r, n),
           st' = st, CacheSound'
    PROVE  Inv'
<1>1. n \in RequestRecords
  BY Zenon DEF Sound
<1>2. rq' \in [Requests -> RequestRecords]
  BY <1>1, Zenon DEF Inv
<1>3. ASSUME NEW x \in Requests
      PROVE  Sound(x, rq'[x])
  BY Zenon DEF Inv
<1> QED
  BY <1>2, <1>3, Zenon DEF Inv

LEMMA CacheFrame == Inv /\ cache' = cache => CacheSound'
BY DEF Inv, CacheSound

\* What is known of a request that is under way.
UnderWay(r, q) ==
    /\ rq \in [Requests -> RequestRecords]
    /\ q \in RequestRecords /\ q.in \in AllInputs /\ q.cfg \in Configs /\ q.body \in Bodies
    /\ IsConfig(q.cfg) /\ maxAttempts(q.cfg) \in Int /\ q.in.kind \in Kinds
    /\ q.names \in Seq(Providers) /\ Len(q.names) \in Nat /\ q.pos \in Nat /\ q.attempt \in Nat
    /\ Admitted(r, q) /\ InPlace(q) /\ Searched(q) /\ UsedUnder(q) /\ Answered(q)

LEMMA OneRequest ==
    ASSUME Inv, NEW r \in Requests, rq[r].pc # "idle"
    PROVE  UnderWay(r, rq[r])
<1>1. Sound(r, rq[r]) /\ rq \in [Requests -> RequestRecords] /\ rq[r] \in RequestRecords
  BY Zenon DEF Inv
<1>2. Admitted(r, rq[r]) /\ InPlace(rq[r]) /\ Searched(rq[r]) /\ UsedUnder(rq[r]) /\ Answered(rq[r])
  BY <1>1, Zenon DEF Sound
<1>3. rq[r].in \in Inputs[r] /\ rq[r].cfg \in Configs /\ rq[r].body \in Bodies
  BY <1>2, Zenon DEF Admitted
<1>4. rq[r].names \in Seq(Providers) /\ rq[r].pos \in Nat /\ rq[r].attempt \in Nat
  BY <1>1, Zenon DEF RequestRecords
<1> QED
  BY <1>1, <1>2, <1>3, <1>4, Constants DEF UnderWay

\* A step of a request under way keeps what it was admitted with, and what the calls
\* it has made were allowed by.
LEMMA StillAdmitted ==
    ASSUME NEW r, NEW q, NEW n, UnderWay(r, q), q.names # <<>>,
           n.in = q.in, n.cfg = q.cfg, n.body = q.body, n.names = q.names
    PROVE  Admitted(r, n) /\ (n.used = q.used => UsedUnder(n))
<1>1. Admitted(r, q) /\ UsedUnder(q)
  BY Zenon DEF UnderWay
<1>2. Admitted(r, n)
  BY <1>1 DEF Admitted
<1>3. ASSUME n.used = q.used PROVE UsedUnder(n)
  BY <1>1, <1>3 DEF UsedUnder, KeyModel
<1> QED
  BY <1>2, <1>3, Zenon

(***************************************************************************)
(* Dispatch                                                                *)
(***************************************************************************)

\* What a routed request may be sent to.
Routed(a, c, in) ==
    /\ a.err \in Errors /\ a.names \in Seq(Providers)
    /\ a.err = "none" <=> a.names # <<>>
    /\ \A n \in 1..Len(a.names) :
         in.kind # "passthrough" =>
             /\ a.names[n] \in Range(resolveProviders(c, in.body, in.kind))
             /\ isProviderAllowed(in.scope, a.names[n])
             /\ isModelAllowed(in.scope, in.body.model)

LEMMA AdmissionRoutes ==
    ASSUME NEW c \in Configs, NEW in, in.body \in BodyShape
    PROVE  Routed(Admission(c, in), c, in)
<1> DEFINE b == in.body
           names == resolveProviders(c, b, in.kind)
           kept == scopedProviders(in.scope, names)
           a == Admission(c, in)
<1>1. CASE b.model = None \/ names = <<>> \/ ~isModelAllowed(in.scope, b.model) \/ kept = <<>>
  <2>1. a.err \in Errors /\ a.err # "none" /\ a.names = <<>>
    BY <1>1, Zenon DEF Admission, Errors
  <2> QED
    BY <2>1 DEF Routed
<1>2. CASE ~(b.model = None \/ names = <<>> \/ ~isModelAllowed(in.scope, b.model) \/ kept = <<>>)
  <2>1. a = [err |-> "none", names |-> kept]
    BY <1>2, Zenon DEF Admission
  <2>2. names \in Seq(Providers)
    <3>1. b.model \in Models /\ b.provider \in Providers \cup {None}
      BY <1>2, Zenon DEF BodyShape
    <3>2. c.routes[b.model] \in Seq(Providers) /\ c.default \in Providers \cup {None}
      BY <3>1, Constants, Zenon DEF IsConfig
    <3> QED
      BY <3>1, <3>2 DEF resolveProviders
  <2>3. FromList(kept, in.scope, names)
    BY <2>2, ScopedProvidersFromList, Zenon
  <2>4. a.err = "none" /\ a.names = kept /\ kept # <<>>
    BY <2>1, <1>2
  <2> HIDE DEF a, kept, names
  <2>5. \A n \in 1..Len(kept) : kept[n] \in Range(names) /\ isProviderAllowed(in.scope, kept[n])
    BY <2>2, <2>3, Zenon DEF FromList, Range
  <2>6. isModelAllowed(in.scope, in.body.model)
    BY <1>2, Zenon
  <2>7. Routed(a, c, in)
    BY <2>3, <2>4, <2>5, <2>6, Zenon DEF Routed, FromList, Errors, names
  <2> QED
    BY <2>7, Zenon DEF a
<1> QED
  BY <1>1, <1>2, Zenon

LEMMA AdmissionPassthroughRoutes ==
    ASSUME NEW c, NEW in, in.kind = "passthrough"
    PROVE  LET a == AdmissionPassthrough(in) IN
           /\ Routed(a, c, in) /\ Len(a.names) <= 1
           /\ a.err = "none" => Len(a.names) = 1 /\ a.names[1] \in Registered
<1> DEFINE a == AdmissionPassthrough(in)
<1>1. CASE in.body.provider \in Relays /\ in.body.provider \in Registered
  <2>1. a = [err |-> "none", names |-> <<in.body.provider>>]
    BY <1>1, Zenon DEF AdmissionPassthrough
  <2>2. in.body.provider \in Providers
    BY <1>1, ConstantsAssumption, Zenon
  <2>3. /\ a.err = "none" /\ a.names \in Seq(Providers) /\ a.names # <<>>
        /\ Len(a.names) = 1 /\ a.names[1] \in Registered
    BY <2>1, <2>2, <1>1
  <2> HIDE DEF a
  <2>4. Routed(a, c, in)
    BY <2>3, Zenon DEF Routed, Errors
  <2> QED
    BY <2>3, <2>4 DEF a
<1>2. CASE ~(in.body.provider \in Relays /\ in.body.provider \in Registered)
  <2>1. a.err \in {"not found", "unsupported"} /\ a.names = <<>>
    BY <1>2, Zenon DEF AdmissionPassthrough
  <2> HIDE DEF a
  <2>2. a.err \in Errors /\ a.err # "none"
    BY <2>1, Zenon DEF Errors
  <2>e. <<>> \in Seq(Providers) /\ Len(<<>>) = 0
    OBVIOUS
  <2>3. a.names \in Seq(Providers) /\ Len(a.names) = 0
    BY <2>1, <2>e, Zenon
  <2>4. Routed(a, c, in)
    BY <2>1, <2>2, <2>3, Zenon DEF Routed
  <2> QED
    BY <2>2, <2>3, <2>4 DEF a
<1> QED
  BY <1>1, <1>2

LEMMA IdleFacts ==
    /\ Idle \in RequestRecords
    /\ Idle.pc = "idle" /\ Idle.resp = None /\ Idle.hit = FALSE /\ Idle.used = {}
    /\ Idle.tried = {}
BY Constants DEF Idle, RequestRecords, PCs, Errors

LEMMA StepDispatch ==
    ASSUME Inv, NEW r \in Requests, NEW in \in Inputs[r], Dispatch(r, in)
    PROVE  Inv'
<1> DEFINE a == IF in.kind = "passthrough" THEN AdmissionPassthrough(in) ELSE Admission(st, in)
           b == IF in.kind \in {"chat", "stream"} THEN PreLLM[in.body] ELSE in.body
           next == IF a.err # "none" THEN "done"
                   ELSE IF in.kind = "chat" THEN "cache"
                   ELSE IF in.kind = "passthrough" THEN "attempt" ELSE "loop"
           n == [Idle EXCEPT !.pc = next, !.in = in, !.cfg = st, !.body = b, !.names = a.names,
                             !.pos = 1, !.err = a.err]
<1>1. rq' = [rq EXCEPT ![r] = n] /\ st' = st /\ cache' = cache
  BY Zenon DEF Dispatch
<1>2. st \in Configs /\ in \in AllInputs /\ in.kind \in Kinds /\ b \in Bodies
  BY Constants, Zenon DEF Inv
<1>3. /\ Routed(a, st, in)
      /\ in.kind = "passthrough" => Len(a.names) <= 1 /\ (a.err = "none" => Len(a.names) = 1 /\ a.names[1] \in Registered)
  BY <1>2, Constants, AdmissionRoutes, AdmissionPassthroughRoutes, Zenon
<1> HIDE DEF a, b
<1>4. a.names \in Seq(Providers) /\ a.err \in Errors /\ (a.err = "none" <=> a.names # <<>>)
  BY <1>3, Zenon DEF Routed
<1>5. next \in PCs
  BY Zenon DEF PCs
<1>6. n \in RequestRecords
  <2> HIDE DEF next
  <2> QED
    BY <1>2, <1>4, <1>5, IdleFacts, Zenon DEF RequestRecords
<1>7. /\ n.pc = next /\ n.in = in /\ n.cfg = st /\ n.body = b /\ n.names = a.names
      /\ n.pos = 1 /\ n.err = a.err /\ n.resp = None /\ n.hit = FALSE /\ n.used = {}
  <2> HIDE DEF next
  <2> QED
    BY IdleFacts DEF RequestRecords
<1> HIDE DEF n
<1>8. Admitted(r, n)
  BY <1>2, <1>3, <1>4, <1>7, Zenon DEF Admitted, Routed
<1>9. a.err = "none" => Len(a.names) \in Nat /\ Len(a.names) >= 1
  BY <1>4
<1>10. InPlace(n)
  BY <1>3, <1>7, <1>9 DEF InPlace, Lookup
<1>11. Searched(n)
  BY <1>7 DEF Searched
<1>12. UsedUnder(n)
  BY <1>7, Zenon DEF UsedUnder
<1>13. Answered(n)
  BY <1>4, <1>7, Zenon DEF Answered
<1>14. Sound(r, n)
  BY <1>6, <1>7, <1>8, <1>10, <1>11, <1>12, <1>13 DEF Sound
<1> QED
  BY <1>1, <1>14, RequestStep, CacheFrame, Zenon

(***************************************************************************)
(* The cache                                                               *)
(***************************************************************************)

LEMMA StepCacheGet ==
    ASSUME Inv, NEW r \in Requests, CacheGet(r)
    PROVE  Inv'
<1> DEFINE q == rq[r]
           k == DeriveKey(q.names[1], q.body)
<1>0. q.pc = "cache" /\ UnderWay(r, q)
  BY OneRequest, Zenon DEF CacheGet
<1>1. q.names # <<>> /\ 1 \in 1..Len(q.names)
  BY <1>0 DEF UnderWay, Admitted
<1>2. CASE /\ IsCacheable(q.body) /\ k \in DOMAIN cache
           /\ rq' = [rq EXCEPT ![r].pc = "done", ![r].hit = TRUE, ![r].resp = cache[k]]
  <2> DEFINE n == [q EXCEPT !.pc = "done", !.hit = TRUE, !.resp = cache[k]]
  <2>1. rq' = [rq EXCEPT ![r] = n] /\ st' = st /\ cache' = cache
    BY <1>2, <1>0, Zenon DEF CacheGet, UnderWay
  <2>2. cache[k] \in Responses /\ cache[k].status = 200 /\ k = DeriveKey(cache[k].from, cache[k].body)
    BY <1>2 DEF Inv, CacheSound
  <2>3. /\ cache[k].from = q.names[1] /\ cache[k].body.model = q.body.model
        /\ cache[k].body.hashed = q.body.hashed /\ q.body.det
    BY <2>2, <1>2, Zenon DEF DeriveKey, IsCacheable
  <2>4. cache[k] # None
    BY <2>2, SentinelAssumption
  <2> HIDE DEF k
  <2>5. n \in RequestRecords
    BY <1>0, <2>2, Zenon DEF UnderWay, RequestRecords, PCs
  <2>6. /\ n.pc = "done" /\ n.in = q.in /\ n.cfg = q.cfg /\ n.body = q.body /\ n.names = q.names
        /\ n.err = q.err /\ n.resp = cache[k] /\ n.hit = TRUE /\ n.used = q.used
    BY <1>0, Zenon DEF UnderWay, RequestRecords
  <2> HIDE DEF n, q
  <2>7. Admitted(r, n) /\ UsedUnder(n)
    BY <1>0, <1>1, <2>6, StillAdmitted, Zenon
  <2>8. InPlace(n) /\ Searched(n)
    BY <2>6, Zenon DEF InPlace, Searched
  <2>10. Answered(n)
    BY <1>0, <1>1, <2>3, <2>2, <2>4, <2>6 DEF Answered, UnderWay, InPlace
  <2>11. Sound(r, n)
    BY <2>5, <2>6, <2>7, <2>8, <2>10, Zenon DEF Sound
  <2> QED
    BY <2>1, <2>11, RequestStep, CacheFrame, Zenon
<1>3. CASE rq' = [rq EXCEPT ![r].pc = "loop"]
  <2> DEFINE n == [q EXCEPT !.pc = "loop"]
  <2>1. rq' = [rq EXCEPT ![r] = n] /\ st' = st /\ cache' = cache
    BY <1>3, <1>0, Zenon DEF CacheGet, UnderWay
  <2>2. n \in RequestRecords
    BY <1>0, Zenon DEF UnderWay, RequestRecords, PCs
  <2>3. /\ n.pc = "loop" /\ n.in = q.in /\ n.cfg = q.cfg /\ n.body = q.body /\ n.names = q.names
        /\ n.pos = q.pos /\ n.err = q.err /\ n.resp = q.resp /\ n.hit = q.hit /\ n.used = q.used
        /\ n.tried = q.tried
    BY <1>0, Zenon DEF UnderWay, RequestRecords
  <2> HIDE DEF n, q
  <2>4. Admitted(r, n) /\ UsedUnder(n)
    BY <1>0, <1>1, <2>3, StillAdmitted, Zenon
  <2>5. InPlace(n)
    BY <1>0, <2>3, Zenon DEF UnderWay, InPlace
  <2>6. Searched(n)
    BY <1>0, <2>3, Zenon DEF UnderWay, Searched
  <2>7. Answered(n)
    BY <1>0, <2>3 DEF UnderWay, Answered
  <2>8. Sound(r, n)
    BY <2>2, <2>3, <2>4, <2>5, <2>6, <2>7, Zenon DEF Sound
  <2> QED
    BY <2>1, <2>8, RequestStep, CacheFrame, Zenon
<1> QED
  BY <1>2, <1>3, Zenon DEF CacheGet

LEMMA StepCacheForget ==
    ASSUME Inv, NEW k, CacheForget(k)
    PROVE  Inv'
<1>1. DOMAIN cache' \subseteq DOMAIN cache /\ \A x \in DOMAIN cache' : cache'[x] = cache[x]
  BY Zenon DEF CacheForget
<1>2. CacheSound'
  BY <1>1 DEF Inv, CacheSound
<1> QED
  BY <1>2, Zenon DEF Inv, CacheForget

LEMMA StepCacheSet ==
    ASSUME Inv, NEW r \in Requests, NEW status \in Statuses, CacheSet(r, status)
    PROVE  Inv'
<1> DEFINE q == rq[r]
           p == q.names[q.pos]
           resp == Response(p, q.body, status)
           k == DeriveKey(p, q.body)
           n == [q EXCEPT !.pc = "done", !.resp = resp]
<1>0. q.pc = "store" /\ UnderWay(r, q)
  BY OneRequest, Zenon DEF CacheSet
<1>1. /\ rq' = [rq EXCEPT ![r] = n] /\ st' = st
      /\ cache' = IF IsCacheable(q.body) /\ status = 200
                  THEN [x \in DOMAIN cache \cup {k} |-> IF x = k THEN resp ELSE cache[x]]
                  ELSE cache
  BY <1>0, Zenon DEF CacheSet, UnderWay
<1>2. q.pos \in 1..Len(q.names) /\ p \in Registered /\ q.names # <<>> /\ q.body \in Bodies
  BY <1>0 DEF UnderWay, InPlace, Lookup
<1>3. resp \in Responses /\ resp.from = p /\ resp.body = q.body /\ resp.status = status /\ resp # None
  BY <1>2, SentinelAssumption DEF Response, Responses
<1>4. CacheSound'
  <2>1. CASE cache' = cache
    BY <2>1, CacheFrame, Zenon
  <2>2. CASE cache' = [x \in DOMAIN cache \cup {k} |-> IF x = k THEN resp ELSE cache[x]] /\ status = 200
    <3>1. DOMAIN cache' = DOMAIN cache \cup {k}
      BY <2>2, Zenon
    <3>2. \A x \in DOMAIN cache' : cache'[x] = IF x = k THEN resp ELSE cache[x]
      BY <2>2, <3>1, Zenon
    <3>3. k = DeriveKey(resp.from, resp.body)
      BY <1>3, Zenon
    <3>4. k \in {DeriveKey(pp, b) : pp \in Registered, b \in Bodies}
      BY <1>2
    <3> HIDE DEF k, resp
    <3> QED
      BY <3>1, <3>2, <3>3, <3>4, <1>3, <2>2 DEF Inv, CacheSound
  <2> QED
    BY <1>1, <2>1, <2>2, Zenon
<1> HIDE DEF k, resp
<1>5. n \in RequestRecords
  BY <1>0, <1>3, Zenon DEF UnderWay, RequestRecords, PCs
<1>6. /\ n.pc = "done" /\ n.in = q.in /\ n.cfg = q.cfg /\ n.body = q.body /\ n.names = q.names
      /\ n.err = q.err /\ n.resp = resp /\ n.hit = q.hit /\ n.used = q.used
  BY <1>0, Zenon DEF UnderWay, RequestRecords
<1> HIDE DEF n, q
<1>7. Admitted(r, n) /\ UsedUnder(n)
  BY <1>0, <1>2, <1>6, StillAdmitted, Zenon
<1>8. InPlace(n) /\ Searched(n)
  BY <1>6, Zenon DEF InPlace, Searched
<1>10. Answered(n)
  BY <1>0, <1>2, <1>3, <1>6, Zenon DEF Answered, UnderWay, InPlace
<1>11. Sound(r, n)
  BY <1>5, <1>6, <1>7, <1>8, <1>10, Zenon DEF Sound
<1> QED
  BY <1>1, <1>4, <1>11, RequestStep, Zenon

(***************************************************************************)
(* The loops over providers and attempts                                   *)
(***************************************************************************)

LEMMA StepNextProvider ==
    ASSUME Inv, NEW r \in Requests, NextProvider(r)
    PROVE  Inv'
<1> DEFINE q == rq[r]
           p == q.names[q.pos]
           found == Lookup(p, q.in.kind)
<1>0. /\ q.pc = "loop" /\ UnderWay(r, q) /\ q.pos <= Len(q.names)
      /\ st' = st /\ cache' = cache
  BY OneRequest, Zenon DEF NextProvider
<1>1. q.names # <<>> /\ q.pos \in 1..Len(q.names) /\ q.pos \in Nat
  BY <1>0 DEF UnderWay, InPlace
<1>2. ASSUME NEW next \in {"loop", "attempt"}, NEW pos \in {q.pos, q.pos + 1}, NEW err \in Errors, NEW attempt \in Nat,
             rq' = [rq EXCEPT ![r] = [q EXCEPT !.pc = next, !.pos = pos, !.err = err, !.attempt = attempt]],
             next = "attempt" => found = "none" /\ pos = q.pos /\ err = q.err,
             next = "loop" => pos = q.pos + 1,
             maxAttempts(q.cfg) > 0 /\ pos = q.pos + 1 => found # "none" /\ err # "none"
      PROVE  Inv'
  <2> DEFINE n == [q EXCEPT !.pc = next, !.pos = pos, !.err = err, !.attempt = attempt]
  <2>0. next \in PCs /\ pos \in Nat
    BY <1>1 DEF PCs
  <2>1. n \in RequestRecords
    BY <1>0, <2>0, Zenon DEF UnderWay, RequestRecords
  <2>2. /\ n.pc = next /\ n.in = q.in /\ n.cfg = q.cfg /\ n.body = q.body /\ n.names = q.names
        /\ n.pos = pos /\ n.err = err /\ n.resp = q.resp /\ n.hit = q.hit /\ n.used = q.used
        /\ n.tried = q.tried
    BY <1>0, Zenon DEF UnderWay, RequestRecords
  <2>3. rq' = [rq EXCEPT ![r] = n]
    BY <1>2, Zenon
  <2> HIDE DEF n, q
  <2>4. Admitted(r, n) /\ UsedUnder(n)
    BY <1>0, <1>1, <2>2, StillAdmitted, Zenon
  <2>5. InPlace(n)
    BY <1>0, <1>1, <1>2, <2>2 DEF UnderWay, InPlace
  <2>6. Searched(n)
    BY <1>0, <1>1, <1>2, <2>2 DEF UnderWay, Searched
  <2>7. Answered(n)
    BY <1>0, <1>2, <2>2 DEF UnderWay, Answered
  <2>8. Sound(r, n)
    BY <1>2, <2>1, <2>2, <2>4, <2>5, <2>6, <2>7, Zenon DEF Sound
  <2> QED
    BY <1>0, <2>3, <2>8, RequestStep, CacheFrame, Zenon
<1>3. CASE found # "none" /\ rq' = [rq EXCEPT ![r].pos = q.pos + 1, ![r].err = found]
  <2>1. rq' = [rq EXCEPT ![r] = [q EXCEPT !.pc = "loop", !.pos = q.pos + 1, !.err = found, !.attempt = q.attempt]]
    BY <1>0, <1>3, Zenon DEF UnderWay, RequestRecords
  <2>2. found \in Errors /\ q.attempt \in Nat
    BY <1>0, Zenon DEF Lookup, Errors, UnderWay
  <2> QED
    BY <1>2, <1>3, <2>1, <2>2, Zenon
<1>4. CASE found = "none" /\ rq' = [rq EXCEPT ![r].pc = "attempt", ![r].attempt = 0]
  <2>1. rq' = [rq EXCEPT ![r] = [q EXCEPT !.pc = "attempt", !.pos = q.pos, !.err = q.err, !.attempt = 0]]
    BY <1>0, <1>4, Zenon DEF UnderWay, RequestRecords
  <2>2. q.err \in Errors
    BY <1>0, Zenon DEF UnderWay, RequestRecords
  <2>3. q.pos # q.pos + 1
    BY <1>1
  <2> QED
    BY <1>2, <1>4, <2>1, <2>2, <2>3, Zenon
<1>5. CASE maxAttempts(q.cfg) <= 0 /\ rq' = [rq EXCEPT ![r].pos = q.pos + 1]
  <2>1. rq' = [rq EXCEPT ![r] = [q EXCEPT !.pc = "loop", !.pos = q.pos + 1, !.err = q.err, !.attempt = q.attempt]]
    BY <1>0, <1>5, Zenon DEF UnderWay, RequestRecords
  <2>2. q.err \in Errors /\ q.attempt \in Nat /\ ~(maxAttempts(q.cfg) > 0)
    BY <1>0, <1>5 DEF UnderWay, RequestRecords
  <2> QED
    BY <1>2, <1>5, <2>1, <2>2, Zenon
<1> QED
  BY <1>3, <1>4, <1>5 DEF NextProvider

LEMMA StepExhausted ==
    ASSUME Inv, NEW r \in Requests, Exhausted(r)
    PROVE  Inv'
<1> DEFINE q == rq[r]
           n == [q EXCEPT !.pc = "done"]
<1>0. q.pc = "loop" /\ UnderWay(r, q) /\ q.pos > Len(q.names)
  BY OneRequest, Zenon DEF Exhausted
<1>1. rq' = [rq EXCEPT ![r] = n] /\ st' = st /\ cache' = cache
  BY <1>0, Zenon DEF Exhausted, UnderWay
<1>2. q.names # <<>> /\ Len(q.names) >= 1 /\ q.pos > 1
  BY <1>0 DEF UnderWay, Admitted
<1>3. n \in RequestRecords
  BY <1>0, Zenon DEF UnderWay, RequestRecords, PCs
<1>4. /\ n.pc = "done" /\ n.in = q.in /\ n.cfg = q.cfg /\ n.body = q.body /\ n.names = q.names
      /\ n.err = q.err /\ n.resp = q.resp /\ n.hit = q.hit /\ n.used = q.used /\ n.tried = q.tried
  BY <1>0 DEF UnderWay, RequestRecords
<1> HIDE DEF n, q
<1>5. Admitted(r, n) /\ UsedUnder(n)
  BY <1>0, <1>2, <1>4, StillAdmitted, Zenon
<1>6. InPlace(n) /\ Searched(n)
  BY <1>0, <1>4, Zenon DEF UnderWay, InPlace, Searched
<1>7. Answered(n)
  BY <1>0, <1>2, <1>4 DEF UnderWay, Answered, Searched
<1>8. Sound(r, n)
  BY <1>3, <1>4, <1>5, <1>6, <1>7, Zenon DEF Sound
<1> QED
  BY <1>1, <1>8, RequestStep, CacheFrame, Zenon DEF q

LEMMA SelectKeyType ==
    ASSUME NEW c \in Configs, NEW p \in Providers, NEW m
    PROVE  selectKey(c, p, m) \subseteq AllKeys
BY DEF selectKey, eligible, AllKeys

LEMMA StepAttempt ==
    ASSUME Inv, NEW r \in Requests, Attempt(r)
    PROVE  Inv'
<1> DEFINE q == rq[r]
           p == q.names[q.pos]
           own == q.in.kind \in {"anthropic", "passthrough"} /\ p \notin q.cfg.stored
<1>0. q.pc = "attempt" /\ UnderWay(r, q) /\ st' = st /\ cache' = cache
  BY OneRequest, Zenon DEF Attempt
<1>1. q.pos \in 1..Len(q.names) /\ q.pos \in Nat /\ p \in Providers /\ q.names # <<>>
  BY <1>0 DEF UnderWay, InPlace
<1>2. PICK k \in (IF own THEN {None} ELSE selectKey(q.cfg, p, KeyModel(q))) :
        rq' = [rq EXCEPT ![r].pc = "call", ![r].key = k, ![r].late = q.gone,
                         ![r].used = @ \cup {<<p, k>>}, ![r].tried = @ \cup {q.pos}]
  BY Zenon DEF Attempt
<1> DEFINE n == [q EXCEPT !.pc = "call", !.key = k, !.late = q.gone,
                          !.used = q.used \cup {<<p, k>>}, !.tried = q.tried \cup {q.pos}]
<1>3. rq' = [rq EXCEPT ![r] = n]
  BY <1>0, <1>2, Zenon DEF UnderWay, RequestRecords
<1>4. k \in AllKeys /\ (k \in selectKey(q.cfg, p, KeyModel(q)) \/ (k = None /\ p \notin q.cfg.stored))
  <2>1. q.cfg \in Configs
    BY <1>0, Zenon DEF UnderWay
  <2>2. None \in AllKeys /\ selectKey(q.cfg, p, KeyModel(q)) \subseteq AllKeys
    BY <1>1, <2>1, SelectKeyType, Constants, Zenon
  <2>3. CASE own
    BY <1>2, <2>2, <2>3, Zenon
  <2>4. CASE ~own
    BY <1>2, <2>2, <2>4, Zenon
  <2> QED
    BY <2>3, <2>4, Zenon
<1>5. q.used \cup {<<p, k>>} \in SUBSET (Providers \X AllKeys) /\ q.tried \cup {q.pos} \in SUBSET Nat
  BY <1>0, <1>1, <1>4 DEF UnderWay, RequestRecords
<1>6. n \in RequestRecords
  BY <1>0, <1>4, <1>5, Zenon DEF UnderWay, RequestRecords, PCs
<1>7. /\ n.pc = "call" /\ n.in = q.in /\ n.cfg = q.cfg /\ n.body = q.body /\ n.names = q.names
      /\ n.pos = q.pos /\ n.err = q.err /\ n.resp = q.resp /\ n.hit = q.hit
      /\ n.used = q.used \cup {<<p, k>>} /\ n.tried = q.tried \cup {q.pos}
  BY <1>0 DEF UnderWay, RequestRecords
<1> HIDE DEF n, q
<1>8. Admitted(r, n)
  BY <1>0, <1>1, <1>7, StillAdmitted, Zenon
<1>9. InPlace(n)
  BY <1>0, <1>7, Zenon DEF UnderWay, InPlace
<1>10. Searched(n)
  BY <1>0, <1>7, Zenon DEF UnderWay, Searched
<1>11. UsedUnder(n)
  <2>1. KeyModel(n) = KeyModel(q)
    BY <1>7, Zenon DEF KeyModel
  <2>2. ASSUME NEW u \in n.used
        PROVE  /\ \E i \in 1..Len(n.names) : u[1] = n.names[i]
               /\ \/ u[2] \in selectKey(n.cfg, u[1], KeyModel(n))
                  \/ u[2] = None /\ u[1] \notin n.cfg.stored
    <3>1. CASE u \in q.used
      BY <1>0, <1>7, <2>1, <3>1, Zenon DEF UnderWay, UsedUnder
    <3>2. CASE u = <<p, k>>
      <4>1. u[1] = p /\ u[2] = k
        BY <3>2, Zenon
      <4> QED
        BY <1>1, <1>4, <1>7, <2>1, <4>1
    <3> QED
      BY <1>7, <3>1, <3>2, Zenon
  <2> QED
    BY <2>2, Zenon DEF UsedUnder
<1>12. Answered(n)
  BY <1>0, <1>7 DEF UnderWay, Answered
<1>13. Sound(r, n)
  BY <1>6, <1>7, <1>8, <1>9, <1>10, <1>11, <1>12, Zenon DEF Sound
<1> QED
  BY <1>0, <1>3, <1>13, RequestStep, CacheFrame, Zenon

LEMMA StepAnswerOk ==
    ASSUME Inv, NEW r \in Requests, AnswerOk(r)
    PROVE  Inv'
<1> DEFINE q == rq[r]
           p == q.names[q.pos]
           resp == Response(p, q.body, 200)
           next == IF q.in.kind = "chat" THEN "store" ELSE "done"
           n == [q EXCEPT !.pc = next, !.err = "none", !.resp = resp]
<1>0. q.pc = "call" /\ UnderWay(r, q) /\ st' = st /\ cache' = cache
  BY OneRequest, Zenon DEF AnswerOk
<1>1. rq' = [rq EXCEPT ![r] = n]
  BY <1>0, Zenon DEF AnswerOk, UnderWay, RequestRecords
<1>2. q.pos \in 1..Len(q.names) /\ p \in Registered /\ q.names # <<>> /\ q.body \in Bodies
  BY <1>0 DEF UnderWay, InPlace, Lookup
<1>3. resp \in Responses /\ resp.from = p /\ resp # None
  BY <1>2, SentinelAssumption DEF Response, Responses, Statuses
<1>4. next \in PCs /\ next \in {"store", "done"} /\ "none" \in Errors
  BY Zenon DEF PCs, Errors
<1> HIDE DEF resp, next
<1>5. n \in RequestRecords
  BY <1>0, <1>3, <1>4, Zenon DEF UnderWay, RequestRecords
<1>6. /\ n.pc = next /\ n.in = q.in /\ n.cfg = q.cfg /\ n.body = q.body /\ n.names = q.names
      /\ n.pos = q.pos /\ n.err = "none" /\ n.resp = resp /\ n.hit = q.hit /\ n.used = q.used
  BY <1>0, Zenon DEF UnderWay, RequestRecords
<1> HIDE DEF n, q
<1>7. Admitted(r, n) /\ UsedUnder(n)
  BY <1>0, <1>2, <1>6, StillAdmitted, Zenon
<1>8. InPlace(n) /\ Searched(n)
  BY <1>0, <1>4, <1>6, Zenon DEF UnderWay, InPlace, Searched
<1>10. Answered(n)
  BY <1>0, <1>2, <1>3, <1>4, <1>6, Zenon DEF UnderWay, Answered, Searched
<1>11. Sound(r, n)
  BY <1>4, <1>5, <1>6, <1>7, <1>8, <1>10, Zenon DEF Sound
<1> QED
  BY <1>0, <1>1, <1>11, RequestStep, CacheFrame, Zenon

LEMMA ErrorFacts ==
    ASSUME NEW e \in Outcomes \ {"ok"}
    PROVE  e \in Errors /\ e # "none"
BY SentinelAssumption, Zenon DEF Outcomes, Errors

LEMMA StepAnswerError ==
    ASSUME Inv, NEW r \in Requests, NEW e \in Outcomes \ {"ok"}, AnswerError(r, e)
    PROVE  Inv'
<1> DEFINE q == rq[r]
           stops == q.in.kind = "passthrough" \/ (q.in.kind \in {"chat", "stream"} /\ ~q.cfg.enabled)
<1>0. q.pc = "call" /\ UnderWay(r, q) /\ st' = st /\ cache' = cache
  BY OneRequest, Zenon DEF AnswerError
<1>e. e \in Errors /\ e # "none"
  BY ErrorFacts, Zenon
<1>1. q.pos \in 1..Len(q.names) /\ q.pos \in Nat /\ q.attempt \in Nat /\ q.names # <<>>
  BY <1>0 DEF UnderWay, InPlace
<1>2. ASSUME NEW next \in {"done", "attempt", "loop"}, NEW pos \in Nat, NEW attempt \in Nat,
             rq' = [rq EXCEPT ![r] = [q EXCEPT !.pc = next, !.err = e, !.pos = pos, !.attempt = attempt]],
             next \in {"done", "attempt"} => pos = q.pos,
             next = "loop" => pos = q.pos + 1,
             next = "done" => stops
      PROVE  Inv'
  <2> DEFINE n == [q EXCEPT !.pc = next, !.err = e, !.pos = pos, !.attempt = attempt]
  <2>0. next \in PCs
    BY Zenon DEF PCs
  <2>1. n \in RequestRecords
    BY <1>0, <1>e, <2>0, Zenon DEF UnderWay, RequestRecords
  <2>2. /\ n.pc = next /\ n.in = q.in /\ n.cfg = q.cfg /\ n.body = q.body /\ n.names = q.names
        /\ n.pos = pos /\ n.err = e /\ n.resp = q.resp /\ n.hit = q.hit /\ n.used = q.used
        /\ n.tried = q.tried
    BY <1>0 DEF UnderWay, RequestRecords
  <2>3. rq' = [rq EXCEPT ![r] = n]
    BY <1>2, Zenon
  <2> HIDE DEF n, q
  <2>4. Admitted(r, n) /\ UsedUnder(n)
    BY <1>0, <1>1, <2>2, StillAdmitted, Zenon
  <2>5. InPlace(n)
    BY <1>0, <1>1, <1>2, <2>2 DEF UnderWay, InPlace
  <2>6. Searched(n)
    BY <1>0, <1>1, <1>2, <1>e, <2>2 DEF UnderWay, Searched
  <2>8. Answered(n)
    <3>1. CASE next # "done"
      BY <1>0, <1>2, <2>2, <3>1, Zenon DEF UnderWay, Answered, Searched
    <3>2. CASE next = "done" /\ q.in.kind = "passthrough"
      <4>0. Len(q.names) <= 1 /\ Len(q.names) \in Nat
        BY <1>0, <3>2, Zenon DEF UnderWay, Admitted
      <4>s. q.pos \in q.tried /\ q.resp = None /\ ~q.hit
        BY <1>0, Zenon DEF UnderWay, Searched
      <4>p. Len(q.names) = 1 /\ q.pos = 1
        <5> DEFINE len == Len(q.names)
                   pos0 == q.pos
        <5>1. pos0 \in 1..len /\ len <= 1 /\ len \in Nat
          BY <1>1, <4>0, Zenon
        <5> HIDE DEF len, pos0
        <5>2. len = 1 /\ pos0 = 1
          BY <5>1
        <5> QED
          BY <5>2, Zenon DEF len, pos0
      <4>1. Len(q.names) = 1 /\ q.pos = 1 /\ 1 \in q.tried /\ q.resp = None /\ ~q.hit
        BY <4>p, <4>s, Zenon
      <4> QED
        <5>1. \A i \in 1..Len(n.names) : i \in n.tried
          BY <2>2, <4>1
        <5> QED
          BY <1>e, <2>2, <3>2, <4>1, <5>1 DEF Answered
    <3>3. CASE next = "done" /\ q.in.kind \in {"chat", "stream"} /\ ~q.cfg.enabled
      BY <1>0, <1>e, <2>2, <3>3, Zenon DEF UnderWay, Answered, Searched
    <3> QED
      BY <1>2, <3>1, <3>2, <3>3, Zenon
  <2>9. Sound(r, n)
    BY <1>2, <2>1, <2>2, <2>4, <2>5, <2>6, <2>8, Zenon DEF Sound
  <2> QED
    BY <1>0, <2>3, <2>9, RequestStep, CacheFrame, Zenon
<1>3. rq' = [rq EXCEPT ![r] = AfterError(q, e)]
  BY <1>0, Zenon DEF AnswerError, UnderWay
<1>4. CASE stops
  <2>1. AfterError(q, e) = [q EXCEPT !.pc = "done", !.err = e, !.pos = q.pos, !.attempt = q.attempt]
    BY <1>0, <1>4, Zenon DEF AfterError, UnderWay, RequestRecords
  <2> QED
    BY <1>1, <1>2, <1>3, <1>4, <2>1, Zenon
<1>5. CASE ~stops /\ isRetryable(q.cfg, e) /\ q.attempt + 1 < maxAttempts(q.cfg)
  <2>1. AfterError(q, e) = [q EXCEPT !.pc = "attempt", !.err = e, !.pos = q.pos, !.attempt = q.attempt + 1]
    BY <1>0, <1>5, Zenon DEF AfterError, UnderWay, RequestRecords
  <2>2. q.attempt + 1 \in Nat /\ q.pos + 1 \in Nat
    BY <1>1
  <2> QED
    BY <1>1, <1>2, <1>3, <2>1, <2>2, Zenon
<1>6. CASE ~stops /\ ~(isRetryable(q.cfg, e) /\ q.attempt + 1 < maxAttempts(q.cfg))
  <2>1. AfterError(q, e) = [q EXCEPT !.pc = "loop", !.err = e, !.pos = q.pos + 1, !.attempt = q.attempt]
    BY <1>0, <1>6, Zenon DEF AfterError, UnderWay, RequestRecords
  <2>2. q.attempt + 1 \in Nat /\ q.pos + 1 \in Nat
    BY <1>1
  <2> QED
    BY <1>1, <1>2, <1>3, <2>1, <2>2, Zenon
<1> QED
  BY <1>4, <1>5, <1>6, Zenon

LEMMA StepClientGone ==
    ASSUME Inv, NEW r \in Requests, ClientGone(r)
    PROVE  Inv'
<1> DEFINE q == rq[r]
           n == [q EXCEPT !.gone = TRUE]
<1>0. q.pc \in {"attempt", "call"} /\ UnderWay(r, q)
  BY OneRequest, Zenon DEF ClientGone
<1>1. rq' = [rq EXCEPT ![r] = n] /\ st' = st /\ cache' = cache
  BY <1>0, Zenon DEF ClientGone, UnderWay
<1>2. n \in RequestRecords
  BY <1>0, Zenon DEF UnderWay, RequestRecords
<1>3. /\ n.pc = q.pc /\ n.in = q.in /\ n.cfg = q.cfg /\ n.body = q.body /\ n.names = q.names
      /\ n.pos = q.pos /\ n.err = q.err /\ n.resp = q.resp /\ n.hit = q.hit /\ n.used = q.used
      /\ n.tried = q.tried
  BY <1>0, Zenon DEF UnderWay, RequestRecords
<1> HIDE DEF n, q
<1>n. q.names # <<>>
  BY <1>0, Zenon DEF UnderWay, Admitted
<1>a. Admitted(r, n) /\ UsedUnder(n)
  BY <1>0, <1>n, <1>3, StillAdmitted, Zenon
<1>4. InPlace(n)
  BY <1>0, <1>3, Zenon DEF UnderWay, InPlace
<1>5. Searched(n)
  BY <1>0, <1>3, Zenon DEF UnderWay, Searched
<1>6. Answered(n)
  BY <1>0, <1>3 DEF UnderWay, Answered
<1>7. Sound(r, n)
  BY <1>0, <1>2, <1>3, <1>a, <1>4, <1>5, <1>6, Zenon DEF Sound
<1> QED
  BY <1>1, <1>7, RequestStep, CacheFrame, Zenon DEF q

(***************************************************************************)
(* The invariant, and what follows from it                                 *)
(***************************************************************************)

LEMMA InvInit == Init => Inv
<1> SUFFICES ASSUME Init PROVE Inv
  BY Zenon
<1>1. CacheSound
  BY DEF Init, CacheSound
<1>2. \A r \in Requests : rq[r] = Idle
  BY Zenon DEF Init
<1>3. Sound(0, Idle) /\ \A r \in Requests : Sound(r, Idle)
  BY IdleFacts, Zenon DEF Sound
<1> QED
  BY <1>1, <1>2, <1>3, IdleFacts, Zenon DEF Init, Inv

LEMMA InvStep == Inv /\ [Next]_vars => Inv'
<1> SUFFICES ASSUME Inv, [Next]_vars PROVE Inv'
  BY Zenon
<1>1. ASSUME NEW r \in Requests, NEW in \in Inputs[r], Dispatch(r, in) PROVE Inv'
  BY <1>1, StepDispatch, Zenon
<1>2. ASSUME NEW r \in Requests, Step(r) PROVE Inv'
  BY <1>2, StepCacheGet, StepNextProvider, StepExhausted, StepAttempt, StepAnswerOk, StepAnswerError,
     StepCacheSet, Zenon DEF Step
<1>3. ASSUME NEW r \in Requests, ClientGone(r) PROVE Inv'
  BY <1>3, StepClientGone, Zenon
<1>4. ASSUME NEW r \in Requests, Return(r) PROVE Inv'
  <2>1. rq' = [rq EXCEPT ![r] = Idle] /\ st' = st /\ cache' = cache
    BY <1>4, Zenon DEF Return
  <2>2. Sound(r, Idle)
    BY IdleFacts, Zenon DEF Sound
  <2> QED
    BY <2>1, <2>2, RequestStep, CacheFrame, Zenon
<1>5. ASSUME NEW k \in DOMAIN cache, CacheForget(k) PROVE Inv'
  BY <1>5, StepCacheForget, Zenon
<1>6. ASSUME NEW c \in Configs, Reload(c) PROVE Inv'
  BY <1>6, CacheFrame, Zenon DEF Reload, Inv
<1>7. CASE UNCHANGED vars
  BY <1>7, CacheFrame, Zenon DEF vars, Inv
<1> QED
  BY <1>1, <1>2, <1>3, <1>4, <1>5, <1>6, <1>7, Zenon DEF Next

\* What the invariant says of an idle request.
LEMMA IdleRequest ==
    ASSUME Inv, NEW r \in Requests, rq[r].pc = "idle"
    PROVE  rq[r] = Idle
BY Zenon DEF Inv, Sound

\* However many Reloads come between its attempts, one config explains every
\* provider that a request has called and every key it has sent.
THEOREM OneConfigAlways == Spec => []OneConfigPerRequest
<1>1. ASSUME Inv, NEW r \in Requests, rq[r].used # {}
      PROVE  \E c \in Configs : \A u \in rq[r].used :
                /\ rq[r].in.kind # "passthrough" =>
                     u[1] \in Range(resolveProviders(c, rq[r].in.body, rq[r].in.kind))
                /\ \/ u[2] \in selectKey(c, u[1], KeyModel(rq[r]))
                   \/ u[2] = None /\ u[1] \notin c.stored
  <2> DEFINE q == rq[r]
  <2>1. UnderWay(r, q)
    BY <1>1, OneRequest, IdleRequest, IdleFacts, Zenon
  <2>2. q.cfg \in Configs
    BY <2>1, Zenon DEF UnderWay
  <2> HIDE DEF q
  <2>3. ASSUME NEW u \in q.used
        PROVE  /\ q.in.kind # "passthrough" =>
                    u[1] \in Range(resolveProviders(q.cfg, q.in.body, q.in.kind))
               /\ \/ u[2] \in selectKey(q.cfg, u[1], KeyModel(q))
                  \/ u[2] = None /\ u[1] \notin q.cfg.stored
    BY <2>1, Zenon DEF UnderWay, UsedUnder, Admitted
  <2> QED
    BY <2>2, <2>3, Zenon DEF q
<1>2. Inv => OneConfigPerRequest
  BY <1>1, Zenon DEF OneConfigPerRequest
<1> QED
  BY <1>2, InvInit, InvStep, PTL DEF Spec

\* A provider or model outside the key's allow lists is never called, nor answered
\* for from the cache, at any position of the failover chain.
THEOREM ScopesAlways == Spec => []ScopesHold
<1>1. ASSUME Inv, NEW r \in Requests, rq[r].pc # "idle", rq[r].in.kind # "passthrough"
      PROVE  /\ \A u \in rq[r].used : isProviderAllowed(rq[r].in.scope, u[1])
             /\ rq[r].resp # None => /\ isProviderAllowed(rq[r].in.scope, rq[r].resp.from)
                                     /\ isModelAllowed(rq[r].in.scope, rq[r].in.body.model)
  <2>1. UnderWay(r, rq[r])
    BY <1>1, OneRequest, Zenon
  <2> QED
    BY <1>1, <2>1, Zenon DEF UnderWay, UsedUnder, Admitted, Answered
<1>2. Inv => ScopesHold
  BY <1>1, Zenon DEF ScopesHold
<1> QED
  BY <1>2, InvInit, InvStep, PTL DEF Spec

\* With failover on, an error is the answer only when every provider of the list that
\* can be used has been called.
THEOREM GivesUpLastAlways == Spec => []GivesUpLast
<1>1. ASSUME Inv, NEW r \in Requests, rq[r].pc = "done"
      PROVE  Answered(rq[r])
  BY <1>1, OneRequest, Zenon DEF UnderWay
<1>2. Inv => GivesUpLast
  BY <1>1 DEF GivesUpLast, Answered
<1> QED
  BY <1>2, InvInit, InvStep, PTL DEF Spec

\* With max_retries >= 0 a caller gets a response or an error, and never both.
THEOREM AnswerOrErrorAlways == Spec => []AnswerOrError
<1>1. ASSUME Inv, NEW r \in Requests, rq[r].pc = "done"
      PROVE  Answered(rq[r])
  BY <1>1, OneRequest, Zenon DEF UnderWay
<1>2. Inv => AnswerOrError
  BY <1>1, Zenon DEF AnswerOrError, Answered
<1> QED
  BY <1>2, InvInit, InvStep, PTL DEF Spec

\* A cached answer comes from the first provider of the request's own list, for the
\* same model and hashed fields, whoever stored it and whatever was reloaded since.
THEOREM HitsAlwaysOwn == Spec => []HitsAreOwn
<1>1. ASSUME Inv PROVE TypeOK
  <2>1. \A k \in DOMAIN cache : cache[k].status = 200 /\ cache[k].from \in Registered
    BY <1>1 DEF Inv, CacheSound, Responses
  <2>2. ASSUME NEW r \in Requests
        PROVE  /\ rq[r].pc \in PCs /\ rq[r].attempt \in Nat
               /\ rq[r].pc # "idle" => rq[r].in \in Inputs[r] /\ rq[r].cfg \in Configs /\ InPlace(rq[r])
    <3>1. rq[r].pc \in PCs /\ rq[r].attempt \in Nat
      BY <1>1, Zenon DEF Inv, RequestRecords
    <3> QED
      BY <1>1, <3>1, OneRequest, Zenon DEF UnderWay, Admitted
  <2>3. ASSUME NEW r \in Requests
        PROVE  LET q == rq[r] IN
               /\ q.pc \in PCs
               /\ q.pc # "idle" => q.in \in Inputs[r] /\ q.cfg \in Configs
               /\ q.pc \in {"attempt", "call", "store"} => q.pos \in 1..Len(q.names)
               /\ q.pc \in {"cache", "loop"} => q.pos \in 1..Len(q.names) + 1
               /\ q.attempt \in Nat
    BY <2>2, Zenon DEF InPlace
  <2> QED
    BY <1>1, <2>1, <2>3, Zenon DEF TypeOK, Inv
<1>2. ASSUME Inv, NEW r \in Requests, rq[r].hit
      PROVE  Answered(rq[r])
  BY <1>2, OneRequest, IdleRequest, IdleFacts DEF UnderWay
<1>3. Inv => HitsAreOwn
  BY <1>1, <1>2 DEF HitsAreOwn, Answered
<1> QED
  BY <1>3, InvInit, InvStep, PTL DEF Spec

(***************************************************************************)
(* The retry discipline                                                    *)
(***************************************************************************)

\* No position after the present one has been called, and the present one has not
\* been when the search comes to it; a request that stands before a position it has
\* called may call it again.
Ahead(q) ==
    /\ q.pc \in {"cache", "loop"} => \A i \in q.tried : i < q.pos
    /\ q.pc \in {"attempt", "call"} => \A i \in q.tried : i <= q.pos
    /\ q.pc = "attempt" /\ q.pos \in q.tried => MayCallAgain(q)

Paced == \A r \in Requests : Ahead(rq[r])

\* What RetryDiscipline says of one request.
Disciplined(q, n) ==
    q.pc # "idle" /\ n.pc # "idle" =>
        /\ n.pos >= q.pos
        /\ q.pos \in q.tried /\ n.pos = q.pos =>
             /\ n.attempt >= q.attempt
             /\ q.pc = "call" /\ n.pc \in {"loop", "attempt"} => n.attempt > q.attempt
             /\ q.pc # "call" /\ n.pc = "call" => MayCallAgain(q)

\* Steps that leave the position, the attempts and the calls alone: they end the
\* search, or go from the cache to the loop.
LEMMA PacedInPlace ==
    ASSUME NEW q \in RequestRecords, NEW n, Ahead(q), n.pc \in PCs,
           n.pos = q.pos, n.attempt = q.attempt, n.tried = q.tried,
           \/ n.pc \in {"store", "done"}
           \/ q.pc = "cache" /\ n.pc = "loop"
           \/ n.pc = q.pc /\ n.cfg = q.cfg /\ n.err = q.err /\ n.late = q.late
    PROVE  Disciplined(q, n) /\ Ahead(n)
<1>1. q.pos \in Nat /\ q.attempt \in Nat
  BY Zenon DEF RequestRecords
<1>2. Ahead(n)
  BY Zenon DEF Ahead, MayCallAgain
<1>3. n.pos >= q.pos /\ n.attempt >= q.attempt
  BY <1>1
<1> QED
  BY <1>2, <1>3, Zenon DEF Disciplined, Ahead

\* The provider loop goes on to a position that has not been called.
LEMMA PacedNextProvider ==
    ASSUME NEW r \in Requests, rq \in [Requests -> RequestRecords], Ahead(rq[r]), NextProvider(r)
    PROVE  Disciplined(rq[r], rq'[r]) /\ Ahead(rq'[r])
<1> DEFINE q == rq[r]
           n == rq'[r]
<1>0. q \in RequestRecords /\ q.pc = "loop" /\ Ahead(q)
  BY Zenon DEF NextProvider
<1>1. q.pos \in Nat /\ q.tried \in SUBSET Nat
  BY <1>0, Zenon DEF RequestRecords
<1>2. /\ n.tried = q.tried
      /\ \/ n.pc = "loop" /\ n.pos = q.pos + 1
         \/ n.pc = "attempt" /\ n.pos = q.pos
  <2>1. ASSUME NEW err, rq' = [rq EXCEPT ![r].pos = q.pos + 1, ![r].err = err]
        PROVE  n.tried = q.tried /\ n.pc = "loop" /\ n.pos = q.pos + 1
    <3>1. n = [q EXCEPT !.pos = q.pos + 1, !.err = err]
      BY <2>1, Zenon
    <3> QED
      BY <1>0, <3>1, Zenon DEF RequestRecords
  <2>2. ASSUME rq' = [rq EXCEPT ![r].pos = q.pos + 1]
        PROVE  n.tried = q.tried /\ n.pc = "loop" /\ n.pos = q.pos + 1
    <3>1. n = [q EXCEPT !.pos = q.pos + 1]
      BY <2>2, Zenon
    <3> QED
      BY <1>0, <3>1, Zenon DEF RequestRecords
  <2>3. ASSUME rq' = [rq EXCEPT ![r].pc = "attempt", ![r].attempt = 0]
        PROVE  n.tried = q.tried /\ n.pc = "attempt" /\ n.pos = q.pos
    <3>1. n = [q EXCEPT !.pc = "attempt", !.attempt = 0]
      BY <2>3, Zenon
    <3> QED
      BY <1>0, <3>1, Zenon DEF RequestRecords
  <2> QED
    BY <2>1, <2>2, <2>3, Zenon DEF NextProvider
<1> HIDE DEF q, n
<1>3. \A i \in q.tried : i < q.pos
  BY <1>0, Zenon DEF Ahead
<1>4. q.pos \notin q.tried /\ n.pos >= q.pos
  BY <1>1, <1>2, <1>3
<1>5. (\A i \in q.tried : i <= q.pos) /\ (n.pc = "loop" => \A i \in n.tried : i < n.pos)
  BY <1>1, <1>2, <1>3
<1>6. Ahead(n)
  BY <1>2, <1>4, <1>5, Zenon DEF Ahead
<1>7. Disciplined(q, n)
  BY <1>4, Zenon DEF Disciplined
<1> QED
  BY <1>6, <1>7, Zenon DEF q, n

\* A call is made where the search has just arrived, or where it may be repeated.
LEMMA PacedAttempt ==
    ASSUME NEW r \in Requests, rq \in [Requests -> RequestRecords], Ahead(rq[r]), Attempt(r)
    PROVE  Disciplined(rq[r], rq'[r]) /\ Ahead(rq'[r])
<1> DEFINE q == rq[r]
           n == rq'[r]
<1>0. q \in RequestRecords /\ q.pc = "attempt" /\ Ahead(q)
  BY Zenon DEF Attempt
<1>1. q.pos \in Nat /\ q.attempt \in Nat
  BY <1>0, Zenon DEF RequestRecords
<1>2. n.pc = "call" /\ n.pos = q.pos /\ n.attempt = q.attempt /\ n.tried = q.tried \cup {q.pos}
  <2>1. PICK k : rq' = [rq EXCEPT ![r].pc = "call", ![r].key = k, ![r].late = q.gone,
                          ![r].used = @ \cup {<<q.names[q.pos], k>>}, ![r].tried = @ \cup {q.pos}]
    BY Zenon DEF Attempt
  <2>2. n = [q EXCEPT !.pc = "call", !.key = k, !.late = q.gone,
                      !.used = q.used \cup {<<q.names[q.pos], k>>}, !.tried = q.tried \cup {q.pos}]
    BY <1>0, <2>1, Zenon DEF RequestRecords
  <2> QED
    BY <1>0, <2>2, Zenon DEF RequestRecords
<1> HIDE DEF q, n
<1>3. q.pos <= q.pos /\ n.pos >= q.pos /\ n.attempt >= q.attempt
  BY <1>1, <1>2
<1>4. Ahead(n)
  BY <1>0, <1>2, <1>3, Zenon DEF Ahead
<1>5. Disciplined(q, n)
  BY <1>0, <1>2, <1>3, Zenon DEF Disciplined, Ahead
<1> QED
  BY <1>4, <1>5, Zenon DEF q, n

\* An error ends the search, goes on to the next position, or leaves the request where
\* it may call again.
LEMMA PacedAnswerError ==
    ASSUME Inv, NEW r \in Requests, Ahead(rq[r]), NEW e \in Outcomes \ {"ok"}, AnswerError(r, e)
    PROVE  Disciplined(rq[r], rq'[r]) /\ Ahead(rq'[r])
<1> DEFINE q == rq[r]
           n == rq'[r]
<1>0. q.pc = "call" /\ UnderWay(r, q)
  BY OneRequest, Zenon DEF AnswerError
<1>1. n = AfterError(q, e) /\ q \in RequestRecords
  BY <1>0, Zenon DEF AnswerError, UnderWay
<1>2. q.pos \in Nat /\ q.attempt \in Nat /\ q.tried \in SUBSET Nat /\ maxAttempts(q.cfg) \in Int
  BY <1>0, Zenon DEF UnderWay, RequestRecords
<1>3. q.late => e = "net"
  BY Zenon DEF AnswerError
<1> HIDE DEF q, n
<1>4. CASE n = [q EXCEPT !.pc = "done", !.err = e]
  <2>1. n.pc = "done" /\ n.pos = q.pos /\ n.attempt = q.attempt /\ n.tried = q.tried
    BY <1>1, <1>4, Zenon DEF RequestRecords
  <2> QED
    BY <1>1, <2>1, PacedInPlace, Zenon DEF q, n, PCs
<1>5. CASE /\ isRetryable(q.cfg, e) /\ q.attempt + 1 < maxAttempts(q.cfg)
           /\ n = [q EXCEPT !.pc = "attempt", !.err = e, !.attempt = q.attempt + 1]
  <2>1. /\ n.pc = "attempt" /\ n.pos = q.pos /\ n.attempt = q.attempt + 1 /\ n.tried = q.tried
        /\ n.cfg = q.cfg /\ n.err = e /\ n.late = q.late
    BY <1>1, <1>5, Zenon DEF RequestRecords
  <2>2. e \in q.cfg.retryOn /\ e \in Codes
    BY <1>0, <1>5, Zenon DEF isRetryable, UnderWay, IsConfig
  <2>3. ~q.late
    BY <1>3, <2>2, SentinelAssumption, Zenon
  <2>4. q.cfg.enabled /\ n.attempt \in 1..q.cfg.retries
    BY <1>0, <1>2, <1>5, <2>1 DEF maxAttempts, UnderWay, IsConfig
  <2>5. MayCallAgain(n)
    BY <2>1, <2>2, <2>3, <2>4, Zenon DEF MayCallAgain
  <2>6. n.pos >= q.pos /\ n.attempt >= q.attempt /\ n.attempt > q.attempt
    BY <1>2, <2>1
  <2>7. Ahead(n)
    BY <1>0, <2>1, <2>5, Zenon DEF Ahead, q
  <2>8. Disciplined(q, n)
    BY <1>0, <2>1, <2>6, Zenon DEF Disciplined
  <2> QED
    BY <2>7, <2>8, Zenon DEF q, n
<1>6. CASE n = [q EXCEPT !.pc = "loop", !.err = e, !.pos = q.pos + 1]
  <2>1. n.pc = "loop" /\ n.pos = q.pos + 1 /\ n.tried = q.tried
    BY <1>1, <1>6, Zenon DEF RequestRecords
  <2>2. \A i \in q.tried : i <= q.pos
    BY <1>0, Zenon DEF Ahead, q
  <2>3. (\A i \in n.tried : i < n.pos) /\ n.pos >= q.pos /\ n.pos # q.pos
    BY <1>2, <2>1, <2>2
  <2>4. Ahead(n) /\ Disciplined(q, n)
    BY <2>1, <2>3, Zenon DEF Ahead, Disciplined
  <2> QED
    BY <2>4, Zenon DEF q, n
<1> QED
  BY <1>1, <1>4, <1>5, <1>6, Zenon DEF AfterError

\* Every step, of this request or of another.
LEMMA PacedStep ==
    ASSUME Inv, Paced, [Next]_vars, NEW r \in Requests
    PROVE  Disciplined(rq[r], rq'[r]) /\ Ahead(rq'[r])
<1> DEFINE q == rq[r]
           n == rq'[r]
           Goal == Disciplined(q, n) /\ Ahead(n)
<1>0. rq \in [Requests -> RequestRecords] /\ q \in RequestRecords /\ Ahead(q) /\ q.pc \in PCs
  BY Zenon DEF Inv, Paced, RequestRecords
<1>1. ASSUME n = q PROVE Goal
  BY <1>0, <1>1, PacedInPlace, Zenon
<1>2. ASSUME NEW x \in Requests, NEW in \in Inputs[x], Dispatch(x, in) PROVE Goal
  <2>1. CASE x = r
    <3>1. q.pc = "idle"
      BY <1>2, <2>1, Zenon DEF Dispatch
    <3>2. n.tried = {}
      BY <1>0, <1>2, <2>1, IdleFacts, Zenon DEF Dispatch, RequestRecords
    <3> QED
      BY <3>1, <3>2, Zenon DEF Disciplined, Ahead
  <2>2. CASE x # r
    BY <1>0, <1>1, <1>2, <2>2, Zenon DEF Dispatch
  <2> QED
    BY <2>1, <2>2, Zenon
<1>3. ASSUME NEW x \in Requests, x # r, Step(x) \/ ClientGone(x) \/ Return(x) PROVE n = q
  BY <1>0, <1>3, Zenon
     DEF Step, CacheGet, NextProvider, Exhausted, Attempt, AnswerOk, AnswerError, CacheSet, ClientGone, Return
<1>4. ASSUME CacheGet(r) \/ Exhausted(r) \/ AnswerOk(r) \/ (\E status \in Statuses : CacheSet(r, status))
      PROVE Goal
  <2> DEFINE Same == /\ n.pos = q.pos /\ n.attempt = q.attempt /\ n.tried = q.tried
                     /\ n.pc \in {"store", "done"} \/ (q.pc = "cache" /\ n.pc = "loop")
  <2>1. ASSUME NEW hit, NEW resp, n = [q EXCEPT !.pc = "done", !.hit = hit, !.resp = resp] PROVE Same
    BY <1>0, <2>1, Zenon DEF RequestRecords
  <2>2. ASSUME NEW next, n = [q EXCEPT !.pc = next], next = "done" \/ (next = "loop" /\ q.pc = "cache") PROVE Same
    BY <1>0, <2>2, Zenon DEF RequestRecords
  <2>3. ASSUME NEW next \in {"store", "done"}, NEW resp, n = [q EXCEPT !.pc = next, !.err = "none", !.resp = resp]
        PROVE  Same
    BY <1>0, <2>3, Zenon DEF RequestRecords
  <2>4. ASSUME NEW resp, n = [q EXCEPT !.pc = "done", !.resp = resp] PROVE Same
    BY <1>0, <2>4, Zenon DEF RequestRecords
  <2>5. ASSUME CacheGet(r) PROVE Same
    <3>1. \/ n = [q EXCEPT !.pc = "done", !.hit = TRUE, !.resp = cache[DeriveKey(q.names[1], q.body)]]
          \/ n = [q EXCEPT !.pc = "loop"]
      BY <1>0, <2>5, Zenon DEF CacheGet
    <3>2. q.pc = "cache"
      BY <2>5, Zenon DEF CacheGet
    <3> HIDE DEF Same, n, q
    <3> QED
      BY <2>1, <2>2, <3>1, <3>2, Zenon
  <2>6. ASSUME Exhausted(r) PROVE Same
    <3>1. n = [q EXCEPT !.pc = "done"]
      BY <1>0, <2>6, Zenon DEF Exhausted
    <3> HIDE DEF Same, n, q
    <3> QED
      BY <2>2, <3>1, Zenon
  <2>7. ASSUME AnswerOk(r) PROVE Same
    <3> DEFINE next == IF q.in.kind = "chat" THEN "store" ELSE "done"
    <3>1. n = [q EXCEPT !.pc = next, !.err = "none", !.resp = Response(q.names[q.pos], q.body, 200)]
      BY <1>0, <2>7, Zenon DEF AnswerOk
    <3>2. next \in {"store", "done"}
      BY Zenon
    <3> HIDE DEF Same, n, q, next
    <3> QED
      BY <2>3, <3>1, <3>2, Zenon
  <2>8. ASSUME NEW status \in Statuses, CacheSet(r, status) PROVE Same
    <3>1. n = [q EXCEPT !.pc = "done", !.resp = Response(q.names[q.pos], q.body, status)]
      BY <1>0, <2>8, Zenon DEF CacheSet
    <3> HIDE DEF Same, n, q
    <3> QED
      BY <2>4, <3>1, Zenon
  <2>9. Same
    BY <1>4, <2>5, <2>6, <2>7, <2>8, Zenon
  <2> QED
    BY <1>0, <2>9, PacedInPlace, Zenon DEF PCs
<1>5. ASSUME ClientGone(r) PROVE Goal
  <2>1. /\ n.pos = q.pos /\ n.attempt = q.attempt /\ n.tried = q.tried /\ n.pc = q.pc
        /\ n.cfg = q.cfg /\ n.err = q.err /\ n.late = q.late
    BY <1>0, <1>5, Zenon DEF ClientGone, RequestRecords
  <2> QED
    BY <1>0, <2>1, PacedInPlace, Zenon
<1>6. ASSUME Return(r) PROVE Goal
  <2>1. n = Idle
    BY <1>0, <1>6, Zenon DEF Return
  <2> QED
    BY <2>1, IdleFacts, Zenon DEF Disciplined, Ahead
<1>7. ASSUME Step(r) PROVE Goal
  BY <1>0, <1>4, <1>7, PacedNextProvider, PacedAttempt, PacedAnswerError, Zenon DEF Step
<1>8. ASSUME rq' = rq PROVE Goal
  BY <1>1, <1>8, Zenon
<1> QED
  BY <1>1, <1>2, <1>3, <1>5, <1>6, <1>7, <1>8, Zenon DEF Next, vars, CacheForget, Reload

\* The search only goes forward, and by no way does a request call a provider again
\* but after a retryable status, with failover on, at most max_retries times and for a
\* client that was there at the last call.
THEOREM RetryDisciplineAlways == Spec => RetryDiscipline
<1>1. Init => Paced
  BY IdleFacts, Zenon DEF Init, Paced, Ahead
<1>2. Inv /\ Paced /\ [Next]_vars => Paced'
  BY PacedStep, Zenon DEF Paced
<1>3. Inv /\ Paced /\ [Next]_vars =>
        [\A r \in Requests :
            LET q == rq[r]
                n == rq'[r]
            IN  q.pc # "idle" /\ n.pc # "idle" =>
                    /\ n.pos >= q.pos
                    /\ q.pos \in q.tried /\ n.pos = q.pos =>
                         /\ n.attempt >= q.attempt
                         /\ q.pc = "call" /\ n.pc \in {"loop", "attempt"} => n.attempt > q.attempt
                         /\ q.pc # "call" /\ n.pc = "call" => MayCallAgain(q)]_vars
  BY PacedStep, Zenon DEF Disciplined
<1> QED
  BY <1>1, <1>2, <1>3, InvInit, InvStep, PTL DEF Spec, RetryDiscipline
=============================================================================
