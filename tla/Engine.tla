------------------------------- MODULE Engine -------------------------------
(***************************************************************************)
(* The dispatch engine (internal/proxy/engine.go): routing, app-key        *)
(* scopes, the response cache, key selection, retry and failover, and the  *)
(* atomic config swap of Reload, for all five entry points: Dispatch       *)
(* ("chat"), DispatchStream ("stream"), DispatchEmbeddings ("embeddings"), *)
(* DispatchAnthropicNative ("anthropic") and DispatchPassthrough           *)
(* ("passthrough").                                                        *)
(*                                                                         *)
(* Requests run concurrently.  The steps that touch shared state (the load *)
(* of e.st, cache.Get, cache.Set) and the calls to providers are separate  *)
(* steps; what lies between two of them is local to the request.           *)
(***************************************************************************)
EXTENDS Integers, Sequences, FiniteSets

CONSTANTS
    Requests,      \* concurrent requests
    Providers,     \* provider names
    Registered,    \* providers in the registry, fixed at start-up
    Embedders,     \* registered providers that implement EmbeddingProvider
    Natives,       \* registered providers that implement AnthropicNativeHandler
    Relays,        \* registered providers that support OpPassthrough
    Models,        \* model names
    Codes,         \* status codes of provider errors
    Bodies,        \* request bodies, see BodyShape
    Inputs,        \* Inputs[r]: what the clients of r may send: [kind, body, scope]
    PreLLM,        \* PreLLM[b]: the body the LLM pre-hooks make of b
    Configs,       \* the configs that Reload may install, see ConfigShape
    CacheOn,       \* the engine has a cache
    None           \* no provider, no key, no response

Kinds == {"chat", "stream", "embeddings", "anthropic", "passthrough"}

\* A body: its model (None if the field is missing), the optional provider
\* override, the fields DeriveKey hashes besides the model, the other
\* parameters, and whether its temperature is 0 or unset.
BodyShape == [model : Models \cup {None}, provider : Providers \cup {None},
              hashed : {"h1", "h2"}, other : {"o1", "o2"}, det : BOOLEAN]

\* An app key's allow lists; an empty one does not restrict.
ScopeShape == [models : SUBSET Models, providers : SUBSET Providers]

\* The hot-reloadable part of a config.  A key with an empty model list fits
\* every model.  The weights of keys are positive: applyDefaults makes 1 of 0, and a
\* negative one, which config.go does not refuse, is left out.
IsConfig(c) ==
    /\ c.routes \in [Models -> Seq(Providers)]
    /\ c.default \in Providers \cup {None}
    /\ c.enabled \in BOOLEAN
    /\ c.retries \in Int
    /\ c.retryOn \subseteq Codes
    /\ DOMAIN c.keys = Providers
    /\ c.stored \subseteq Providers

ASSUME ConstantsAssumption ==
    /\ Registered \subseteq Providers
    /\ Embedders \subseteq Registered /\ Natives \subseteq Registered /\ Relays \subseteq Registered
    /\ None \notin Models \cup Providers
    /\ Bodies \subseteq BodyShape
    /\ \A r \in Requests : \A in \in Inputs[r] : in.kind \in Kinds /\ in.body \in Bodies /\ in.scope \in ScopeShape
    /\ PreLLM \in [Bodies -> Bodies]
    /\ Configs # {} /\ \A c \in Configs : IsConfig(c)

VARIABLES
    st,      \* e.st: the config in force
    cache,   \* the cache: a function from cache keys to stored responses
    rq       \* rq[r]: the progress of request r

vars == <<st, cache, rq>>

Range(s) == {s[n] : n \in 1..Len(s)}

\* What a provider call can come back with: an answer, a ProviderError with a
\* status code, or another error (connection, context).
Outcomes == {"ok", "net"} \cup Codes

\* A response is identified by who produced it and for which body; the post-hooks
\* may replace its status.
Statuses == {200, 206}
Responses == [from : Registered, body : Bodies, status : Statuses]
Response(p, b, status) == [from |-> p, body |-> b, status |-> status]

\* The placeholders are told apart from what they stand in for.
ASSUME SentinelAssumption ==
    /\ None \notin Responses
    /\ {"none", "ok", "net"} \cap Codes = {}

Idle == [pc |-> "idle", in |-> None, cfg |-> None, body |-> None, names |-> <<>>,
         pos |-> 0, attempt |-> 0, key |-> None, err |-> "none", resp |-> None,
         hit |-> FALSE, used |-> {}, tried |-> {}, gone |-> FALSE, late |-> FALSE]

PCs == {"idle", "cache", "loop", "attempt", "call", "store", "done"}

TypeOK ==
    /\ st \in Configs
    /\ \A k \in DOMAIN cache : cache[k].status = 200 /\ cache[k].from \in Registered
    /\ \A r \in Requests :
        LET q == rq[r] IN
        /\ q.pc \in PCs
        /\ q.pc # "idle" => q.in \in Inputs[r] /\ q.cfg \in Configs
        /\ q.pc \in {"attempt", "call", "store"} => q.pos \in 1..Len(q.names)
        /\ q.pc \in {"cache", "loop"} => q.pos \in 1..Len(q.names) + 1
        /\ q.attempt \in Nat

Init ==
    /\ st \in Configs
    /\ cache = <<>>
    /\ rq = [r \in Requests |-> Idle]

(***************************************************************************)
(* Routing and scopes                                                      *)
(***************************************************************************)

\* The ordered list of providers: the override, the model's route, the default.
\* Anthropic bodies carry no override.
resolveProviders(c, b, kind) ==
    IF kind # "anthropic" /\ b.provider # None THEN <<b.provider>>
    ELSE IF Len(c.routes[b.model]) > 0 THEN c.routes[b.model]
    ELSE IF c.default # None THEN <<c.default>>
    ELSE <<>>

isProviderAllowed(scope, p) == scope.providers = {} \/ p \in scope.providers
isModelAllowed(scope, m) == scope.models = {} \/ m \in scope.models

\* Variant: the provider list is checked for one allowed provider but not filtered.
scopedProvidersUnfiltered(scope, names) ==
    IF \E n \in 1..Len(names) : isProviderAllowed(scope, names[n]) THEN names ELSE <<>>

\* The allowed ones, in the order of the list.
scopedProviders(scope, names) ==
    LET filtered[n \in 0..Len(names)] ==
            IF n = 0 THEN <<>>
            ELSE IF isProviderAllowed(scope, names[n]) THEN Append(filtered[n - 1], names[n])
            ELSE filtered[n - 1]
    IN  filtered[Len(names)]

\* parseAndRoute and enforceScopes: an error, or the list to try.
Admission(c, in) ==
    LET b == in.body IN
    IF b.model = None THEN [err |-> "missing model", names |-> <<>>]
    ELSE LET names == resolveProviders(c, b, in.kind) IN
         IF names = <<>> THEN [err |-> "no provider", names |-> <<>>]
         ELSE IF ~isModelAllowed(in.scope, b.model) \/ scopedProviders(in.scope, names) = <<>>
              THEN [err |-> "forbidden", names |-> <<>>]
         ELSE [err |-> "none", names |-> scopedProviders(in.scope, names)]

\* DispatchPassthrough names its provider in the path and does not route.
AdmissionPassthrough(in) ==
    IF in.body.provider \notin Registered THEN [err |-> "not found", names |-> <<>>]
    ELSE IF in.body.provider \notin Relays THEN [err |-> "unsupported", names |-> <<>>]
    ELSE [err |-> "none", names |-> <<in.body.provider>>]

\* A request enters the engine: the config is loaded once, the request is
\* routed, and the LLM pre-hooks run for chat and stream.
Dispatch(r, in) ==
    LET a == IF in.kind = "passthrough" THEN AdmissionPassthrough(in) ELSE Admission(st, in)
        b == IF in.kind \in {"chat", "stream"} THEN PreLLM[in.body] ELSE in.body
    IN  /\ rq[r].pc = "idle"
        /\ rq' = [rq EXCEPT ![r] =
                    [Idle EXCEPT !.pc = IF a.err # "none" THEN "done"
                                        ELSE IF in.kind = "chat" THEN "cache"
                                        ELSE IF in.kind = "passthrough" THEN "attempt"
                                        ELSE "loop",
                                 !.in = in, !.cfg = st, !.body = b, !.names = a.names,
                                 !.pos = 1, !.err = a.err]]
        /\ UNCHANGED <<st, cache>>

(***************************************************************************)
(* The response cache                                                      *)
(***************************************************************************)

DeriveKey(p, b) == <<p, b.model, b.hashed>>

IsCacheable(b) == CacheOn /\ b.det

\* Dispatch looks under the first provider of its list.
CacheGet(r) ==
    LET q == rq[r]
        k == DeriveKey(q.names[1], q.body)
        hit == IsCacheable(q.body) /\ k \in DOMAIN cache
    IN  /\ q.pc = "cache"
        /\ \/ hit /\ rq' = [rq EXCEPT ![r].pc = "done", ![r].hit = TRUE, ![r].resp = cache[k]]
           \/ ~hit /\ rq' = [rq EXCEPT ![r].pc = "loop"]
        /\ UNCHANGED <<st, cache>>

\* Entries expire and are evicted (the memory cache and redis are external here).
CacheForget(k) ==
    /\ k \in DOMAIN cache
    /\ cache' = [x \in DOMAIN cache \ {k} |-> cache[x]]
    /\ UNCHANGED <<st, rq>>

(***************************************************************************)
(* Providers, attempts and keys                                            *)
(***************************************************************************)

maxAttempts(c) == IF c.enabled THEN c.retries + 1 ELSE 1

\* registry.Get and the interface the entry point needs.
Lookup(p, kind) ==
    IF p \notin Registered THEN "not found"
    ELSE IF (kind = "embeddings" /\ p \notin Embedders) \/ (kind = "anthropic" /\ p \notin Natives)
         THEN "unsupported"
    ELSE "none"

\* Variant: an unregistered provider ends the search without an advance.
NextProviderStuck(r) ==
    LET q == rq[r]
        p == q.names[q.pos]
    IN  /\ q.pc = "loop"
        /\ q.pos <= Len(q.names)
        /\ \/ /\ Lookup(p, q.in.kind) # "none"
              /\ rq' = [rq EXCEPT ![r].err = Lookup(p, q.in.kind)]
           \/ /\ Lookup(p, q.in.kind) = "none" /\ maxAttempts(q.cfg) > 0
              /\ rq' = [rq EXCEPT ![r].pc = "attempt", ![r].attempt = 0]
           \/ /\ Lookup(p, q.in.kind) = "none" /\ maxAttempts(q.cfg) <= 0
              /\ rq' = [rq EXCEPT ![r].pos = q.pos + 1]
        /\ UNCHANGED <<st, cache>>

\* Variant: a provider that cannot be used is skipped without an error.
NextProviderSilent(r) ==
    LET q == rq[r]
        p == q.names[q.pos]
    IN  /\ q.pc = "loop"
        /\ q.pos <= Len(q.names)
        /\ \/ /\ Lookup(p, q.in.kind) = "none" /\ maxAttempts(q.cfg) > 0
              /\ rq' = [rq EXCEPT ![r].pc = "attempt", ![r].attempt = 0]
           \/ /\ Lookup(p, q.in.kind) # "none" \/ maxAttempts(q.cfg) <= 0
              /\ rq' = [rq EXCEPT ![r].pos = q.pos + 1]
        /\ UNCHANGED <<st, cache>>

\* The provider loop turns to the next name: skip it with an error, enter its
\* attempt loop, or (MaxRetries below 0) find that loop empty.
NextProvider(r) ==
    LET q == rq[r]
        p == q.names[q.pos]
    IN  /\ q.pc = "loop"
        /\ q.pos <= Len(q.names)
        /\ \/ /\ Lookup(p, q.in.kind) # "none"
              /\ rq' = [rq EXCEPT ![r].pos = q.pos + 1, ![r].err = Lookup(p, q.in.kind)]
           \/ /\ Lookup(p, q.in.kind) = "none" /\ maxAttempts(q.cfg) > 0
              /\ rq' = [rq EXCEPT ![r].pc = "attempt", ![r].attempt = 0]
           \/ /\ Lookup(p, q.in.kind) = "none" /\ maxAttempts(q.cfg) <= 0
              /\ rq' = [rq EXCEPT ![r].pos = q.pos + 1]
        /\ UNCHANGED <<st, cache>>

\* No provider is left: the last error is the answer.
Exhausted(r) ==
    /\ rq[r].pc = "loop"
    /\ rq[r].pos > Len(rq[r].names)
    /\ rq' = [rq EXCEPT ![r].pc = "done"]
    /\ UNCHANGED <<st, cache>>

\* The keys selectKey may draw: those whose model list admits the model.  With
\* positive weights, every one of them has a positive probability.
eligible(c, p, m) == {k \in c.keys[p] : k.models = {} \/ m \in k.models}

selectKey(c, p, m) ==
    IF eligible(c, p, m) = {} THEN {None} ELSE {k.key : k \in eligible(c, p, m)}

\* The model a key is selected for: passthrough selects for the empty model.
KeyModel(q) == IF q.in.kind = "passthrough" THEN None ELSE q.body.model

\* Variant: the key comes from the config in force now.
AttemptReloaded(r) ==
    LET q == rq[r]
        p == q.names[q.pos]
    IN  /\ q.pc = "attempt"
        /\ \E k \in selectKey(st, p, KeyModel(q)) :
             rq' = [rq EXCEPT ![r].pc = "call", ![r].key = k, ![r].late = q.gone,
                              ![r].used = @ \cup {<<p, k>>}, ![r].tried = @ \cup {q.pos}]
        /\ UNCHANGED <<st, cache>>

\* One attempt: back off if it is a retry, draw a key, call the provider.
\* credential_mode passthrough sends no stored key on the two raw paths.
Attempt(r) ==
    LET q == rq[r]
        p == q.names[q.pos]
        own == q.in.kind \in {"anthropic", "passthrough"} /\ p \notin q.cfg.stored
    IN  /\ q.pc = "attempt"
        /\ \E k \in IF own THEN {None} ELSE selectKey(q.cfg, p, KeyModel(q)) :
             rq' = [rq EXCEPT ![r].pc = "call", ![r].key = k, ![r].late = q.gone,
                              ![r].used = @ \cup {<<p, k>>}, ![r].tried = @ \cup {q.pos}]
        /\ UNCHANGED <<st, cache>>

\* The provider answers.  pctx.Provider is set and a chat response goes on to
\* the post-hooks; the caller gets no error.
AnswerOk(r) ==
    LET q == rq[r] IN
    /\ q.pc = "call"
    /\ ~q.late
    /\ rq' = [rq EXCEPT ![r].pc = IF q.in.kind = "chat" THEN "store" ELSE "done",
                        ![r].err = "none",
                        ![r].resp = Response(q.names[q.pos], q.body, 200)]
    /\ UNCHANGED <<st, cache>>

isRetryable(c, e) == e \in c.retryOn

\* Variant: the attempt counter is compared after the next attempt, one too many.
AfterErrorOneMore(q, e) ==
    IF q.in.kind = "passthrough" \/ (q.in.kind \in {"chat", "stream"} /\ ~q.cfg.enabled)
    THEN [q EXCEPT !.pc = "done", !.err = e]
    ELSE IF isRetryable(q.cfg, e) /\ q.attempt < maxAttempts(q.cfg)
    THEN [q EXCEPT !.pc = "attempt", !.err = e, !.attempt = q.attempt + 1]
    ELSE [q EXCEPT !.pc = "loop", !.err = e, !.pos = q.pos + 1]

\* Variant: a non-retryable error ends the request.
AfterErrorGiveUp(q, e) ==
    IF q.in.kind = "passthrough" \/ ~q.cfg.enabled \/ ~isRetryable(q.cfg, e)
    THEN [q EXCEPT !.pc = "done", !.err = e]
    ELSE IF q.attempt + 1 < maxAttempts(q.cfg)
    THEN [q EXCEPT !.pc = "attempt", !.err = e, !.attempt = q.attempt + 1]
    ELSE [q EXCEPT !.pc = "loop", !.err = e, !.pos = q.pos + 1]

\* What follows an error: chat and stream stop if failover is off (embeddings
\* and Anthropic do not ask), a retryable status is retried on the same provider
\* while attempts are left, anything else goes on to the next provider.
AfterError(q, e) ==
    IF q.in.kind = "passthrough" \/ (q.in.kind \in {"chat", "stream"} /\ ~q.cfg.enabled)
    THEN [q EXCEPT !.pc = "done", !.err = e]
    ELSE IF isRetryable(q.cfg, e) /\ q.attempt + 1 < maxAttempts(q.cfg)
    THEN [q EXCEPT !.pc = "attempt", !.err = e, !.attempt = q.attempt + 1]
    ELSE [q EXCEPT !.pc = "loop", !.err = e, !.pos = q.pos + 1]

\* The call fails.  Once the client is gone a new call can only fail with the
\* context's error.
AnswerError(r, e) ==
    /\ rq[r].pc = "call"
    /\ rq[r].late => e = "net"
    /\ rq' = [rq EXCEPT ![r] = AfterError(@, e)]
    /\ UNCHANGED <<st, cache>>

\* Variant: the response is stored under the first provider of the list.
CacheSetFirst(r, status) ==
    LET q == rq[r]
        resp == Response(q.names[q.pos], q.body, status)
        k == DeriveKey(q.names[1], q.body)
    IN  /\ q.pc = "store"
        /\ rq' = [rq EXCEPT ![r].pc = "done", ![r].resp = resp]
        /\ cache' = IF IsCacheable(q.body) /\ status = 200
                    THEN [x \in DOMAIN cache \cup {k} |-> IF x = k THEN resp ELSE cache[x]]
                    ELSE cache
        /\ UNCHANGED st

\* The post-hooks run (they may replace the status) and the response is stored
\* under the provider that served it.
CacheSet(r, status) ==
    LET q == rq[r]
        p == q.names[q.pos]
        resp == Response(p, q.body, status)
        k == DeriveKey(p, q.body)
    IN  /\ q.pc = "store"
        /\ rq' = [rq EXCEPT ![r].pc = "done", ![r].resp = resp]
        /\ cache' = IF IsCacheable(q.body) /\ status = 200
                    THEN [x \in DOMAIN cache \cup {k} |-> IF x = k THEN resp ELSE cache[x]]
                    ELSE cache
        /\ UNCHANGED st

(***************************************************************************)
(* The environment                                                         *)
(***************************************************************************)

\* The watcher installs another config.
Reload(c) ==
    /\ c \in Configs
    /\ st' = c
    /\ UNCHANGED <<cache, rq>>

\* The client disconnects: the request's context is cancelled.  Only provider
\* calls look at the context, so a disconnection is taken to happen just before
\* or during one.
ClientGone(r) ==
    /\ rq[r].pc \in {"attempt", "call"}
    /\ ~rq[r].gone
    /\ rq' = [rq EXCEPT ![r].gone = TRUE]
    /\ UNCHANGED <<st, cache>>

\* The handler has written the answer.
Return(r) ==
    /\ rq[r].pc = "done"
    /\ rq' = [rq EXCEPT ![r] = Idle]
    /\ UNCHANGED <<st, cache>>

(***************************************************************************)
(* Specification                                                           *)
(***************************************************************************)

Step(r) ==
    \/ CacheGet(r) \/ NextProvider(r) \/ Exhausted(r) \/ Attempt(r)
    \/ AnswerOk(r) \/ \E e \in Outcomes \ {"ok"} : AnswerError(r, e)
    \/ \E status \in Statuses : CacheSet(r, status)

Next ==
    \/ \E r \in Requests : \E in \in Inputs[r] : Dispatch(r, in)
    \/ \E r \in Requests : Step(r) \/ ClientGone(r) \/ Return(r)
    \/ \E k \in DOMAIN cache : CacheForget(k)
    \/ \E c \in Configs : Reload(c)

Spec == Init /\ [][Next]_vars

\* A running request is scheduled, and a provider call ends: the HTTP client
\* has timeouts and the request a context.
FairSpec == Spec /\ \A r \in Requests : WF_vars(Step(r))

(***************************************************************************)
(* Properties                                                              *)
(***************************************************************************)

\* engineState: "in-flight requests always see a consistent snapshot".  There is
\* one config under which every provider the request has called was in its list
\* and every key it has used was one selectKey would draw, however many Reloads
\* happened between its attempts.
OneConfigPerRequest ==
    \A r \in Requests :
        LET q == rq[r] IN
        q.used # {} =>
            \E c \in Configs : \A u \in q.used :
                /\ q.in.kind # "passthrough" => u[1] \in Range(resolveProviders(c, q.in.body, q.in.kind))
                /\ \/ u[2] \in selectKey(c, u[1], KeyModel(q))
                   \/ u[2] = None /\ u[1] \notin c.stored

\* enforceScopes: no provider outside the key's allow list is ever called or
\* answered for from the cache, at any position of the failover chain.  The raw
\* passthrough is exempt: DispatchPassthrough takes no scopes.
ScopesHold ==
    \A r \in Requests :
        LET q == rq[r] IN
        q.pc # "idle" /\ q.in.kind # "passthrough" =>
            /\ \A u \in q.used : isProviderAllowed(q.in.scope, u[1])
            /\ q.resp # None => /\ isProviderAllowed(q.in.scope, q.resp.from)
                                /\ isModelAllowed(q.in.scope, q.in.body.model)

\* The attempt loop may call the provider of the present position once more: after a
\* status in retry_on, with failover on, at most max_retries times, and for a client
\* that was there when the provider was called (the context's error is no status).
MayCallAgain(q) ==
    /\ q.cfg.enabled /\ q.err \in q.cfg.retryOn
    /\ q.attempt \in 1..q.cfg.retries
    /\ ~q.late

\* The retry discipline of the four copies of the nested loops, as what any step of a
\* request under way may do: the search never returns to an earlier provider; on a
\* provider that has been called the count of attempts never falls and a call that
\* failed has raised it; and by whatever way the request comes to call the provider
\* again, MayCallAgain.
RetryDiscipline ==
    [][\A r \in Requests :
        LET q == rq[r]
            n == rq'[r]
        IN  q.pc # "idle" /\ n.pc # "idle" =>
                /\ n.pos >= q.pos
                /\ q.pos \in q.tried /\ n.pos = q.pos =>
                     /\ n.attempt >= q.attempt
                     /\ q.pc = "call" /\ n.pc \in {"loop", "attempt"} => n.attempt > q.attempt
                     /\ q.pc # "call" /\ n.pc = "call" => MayCallAgain(q)]_vars

\* With failover on, an error is the answer only when the whole list has been
\* tried: every provider that is registered and capable has been called at least
\* once.
GivesUpLast ==
    \A r \in Requests :
        LET q == rq[r] IN
        (q.pc = "done" /\ q.resp = None /\ q.names # <<>> /\ q.cfg.enabled /\ maxAttempts(q.cfg) > 0) =>
            \A n \in 1..Len(q.names) : n \in q.tried \/ Lookup(q.names[n], q.in.kind) # "none"

\* Callers get a response or an error, never neither (with max_retries >= 0).
AnswerOrError ==
    \A r \in Requests :
        (rq[r].pc = "done" /\ maxAttempts(rq[r].cfg) > 0) => (rq[r].resp = None) # (rq[r].err = "none")

\* What a hit returns, besides being well typed: a response with status 200 that
\* the first provider of the request's own list produced for the same model and
\* hashed fields.
HitsAreOwn ==
    TypeOK /\ \A r \in Requests :
        LET q == rq[r] IN
        q.hit => /\ q.resp.from = q.names[1]
                 /\ q.resp.status = 200
                 /\ q.resp.body.model = q.body.model /\ q.resp.body.hashed = q.body.hashed
                 /\ q.body.det

\* docs.html: "With failover on, Butter retries the next provider", so with
\* failover off a request calls one provider.
FailoverOnlyWhenOn ==
    \A r \in Requests : rq[r].pc # "idle" /\ ~rq[r].cfg.enabled => Cardinality(rq[r].tried) <= 1

\* Every request is answered: none stays in the loops for good.
EveryRequestEnds == \A r \in Requests : []<>(rq[r].pc \in {"done", "idle"})
=============================================================================
