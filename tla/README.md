# TLA+ models of Butter

Butter is an AI proxy gateway: clients send OpenAI or Anthropic requests, a
dispatch engine routes them to providers with retries and failover, plugins
look on, and application keys restrict and count what clients do. This
directory holds TLA+ models of its concurrent and stateful parts and of its
translations between provider formats, TLC
configurations that check them on small instances, and TLAPS proofs for
instances of any size. `PROJECT.json` maps definitions to source lines.

## The system and its parts

| Part | Source | Module | Extent |
|---|---|---|---|
| App key store, lifecycle | `internal/appkey/store.go`, `token.go` | `AppKeys` | all operations |
| App key persistence (bbolt) | `internal/appkey/persist.go` | `AppKeys` | all operations, crashes, failing writes |
| Key management handlers | `internal/transport/handler_appkey.go` | `AppKeys` | create, revoke, purge, patch, rotate |
| Usage counters | `store.go`, `internal/appkey/usage.go` | `Usage` | RecordRequest, Snapshot |
| Dispatch engine | `internal/proxy/engine.go`, `provider/registry.go` | `Engine` | five entry points, Reload |
| Memory cache | `internal/cache/memory.go` | `MemoryCache`, `CacheSpec` | all |
| Cache keys | `internal/cache/key.go` | `Engine` | which fields count |
| Rate limiter | `internal/plugin/builtin/ratelimit` | `RateLimit` | buckets, cleanup |
| Config hot reload | `internal/config/watcher.go` | `Watcher` | all |
| HTTP handlers, app-key middleware | `internal/transport/server.go` | `Transport`, `Relay` | control flow of the proxy handlers; the way of an answer to the client |
| Plugin chain, request log, tracing | `internal/plugin` | `Transport`, `Lifecycle` | HTTP hooks, buffers, spans, traces; InitAll, CloseAll, LLM hooks |
| WASM host | `internal/plugin/wasm` | `WasmHost` | Init, Close, hook calls; `Transport` has their outcome only |
| Provider adapters | `internal/provider/{anthropic,gemini,openaicompat,bedrock}` | `Adapters`, `Relay` | chat, streams, native relays; not embeddings and model lists |
| Provider HTTP client | `internal/provider/httpclient.go` | `IdleBody` | all |
| Start-up, shutdown | `cmd/butter/main.go` | `Lifecycle`, `AppKeys`, `Watcher` | plugins, serving, drain, flush, close; provisioning; watcher |
| Redis cache, metrics, sample plugins | `internal/cache/redis.go`, ... | none | see *Not modelled* |

How they interact: a request passes `withAppKeyTracking`, the `PreHTTP` hooks
and a handler (`Transport`); the handler calls the engine (`Engine`), which
uses the cache (`MemoryCache` behind `CacheSpec`) and the config that the
watcher installs (`Watcher`); after the answer the handler emits a trace and
starts a goroutine that counts the request (`Usage`). Management requests
change keys in memory, and the persister writes them through (`AppKeys`).
What a provider call does is in `Relay`: the adapter translates the request and
the answer (`Adapters`), the HTTP client watches over the body (`IdleBody`), and
the handler writes to the client. Around all of this is the life of the process
(`Lifecycle`), whose handlers call the hooks of a WASM plugin (`WasmHost`).

Composition: `Transport` extends `Usage`, `Relay` extends `IdleBody` and
`Adapters`, `Lifecycle` extends `WasmHost`. At the seams a module has the other
side's outcomes: in `Transport` the engine is an answer or a failure, in
`Engine` a provider call ends somehow and the cache may forget any entry at any
time, which covers both cache implementations; in `Lifecycle` an answer is
counted or not, which `Usage` and `AppKeys` have in detail.

## Modules

**AppKeys.** `records` and `rec` are `Store.records` and the atomics of each
`UsageRecord`, `db` is the bbolt bucket, `op[t]` the goroutine of a management
request, `fl` the flush in progress, `writeMu` the persister's mutex. Each
atomic load or store, each critical section and each transaction is a step.
`Snapshot` loads expiry, revocation and scopes one after another, for handlers
(`SnapshotLoad`) and for the flush (`FlushPick`, `FlushLoad`). `Crash` may
happen at any moment; `Restart` is Provision followed by Restore. `Faults`
switches on overlapping operations on one key, failing transactions and a
shutdown that does not wait for handlers. `overtaken` is a history variable: the
PATCHes whose scopes another PATCH has replaced since they read them.

**Engine.** `st` is `Engine.st`, `rq[r]` a request with the config it loaded,
its provider list, position, attempt and key. `Dispatch` is the entry of all
five kinds; `CacheGet`, `NextProvider`, `Attempt`, `AnswerOk`, `AnswerError`
and `CacheSet` are the steps of the loops. `AfterError` holds the differences
between the entry points. The four copies of the loop in the source are one
here, with the kind as a parameter. Back-off is not timed.

**CacheSpec, MemoryCache.** `CacheSpec` is what `Dispatch` needs: a Get returns
the last value Set, if it has not expired, or nothing. `MemoryCache` has the
map and the list of `memory.go` and is proved to implement it, with the list
read as a function. `later` is a history variable: which key was used after
which.

**RateLimit.** Tokens are counted in parts so that refill is exact in the
integers; the rounding of the code's floats is left out. `kept` and `window`
are history variables: the buckets without cleanup, and the requests admitted
since a moment that `Observe` chooses.

**Watcher.** The file's owner writes (`Write`) and breaks or repairs
(`Permit`) the file between any two steps. `Stat` and `Load` are the halves of
`check`. `Start` seeds the mtime, unless the file cannot be looked at then. mtimes
increase with every write.

**Usage, Transport.** One key's counters, one step per atomic; handlers of
`server.go` with hooks of the chain run in order. `GoRecord` and `OnTrace` are
the goroutines that a handler starts and does not wait for. `UsageSpec` is the
record in any surroundings that start each goroutine once; the handlers are such
surroundings (`Spec => UsageSpec`, see *Proofs*).

**Adapters.** `translateRequest`, `translateResponse` and the translation of
stream events in the Anthropic, Gemini and OpenAI formats, as operators. A text
is a sequence of words and a newline, a content or stop field one of the JSON
forms that the code tells apart. `max_tokens` is present or not, so that an
explicit 0 is not taken for a missing one.

**IdleBody.** `timer` is the idle timer, `callback` the goroutine of its
`AfterFunc` between its two statements, `body` the wrapped body and `ctx` the
context that `RoundTrip` derives. The clock ticks in fractions of the timeout.

**Relay.** One request from the moment its body is read: `pc` is where the
handler is (`Upload` to `Reply`), `up` what the upstream has sent and how it
ended, `out` what the client has got, `window` the write deadline, `pump` and
`pipe` the goroutine and the pipe of a Bedrock stream. `call.mode` selects
among the four ways of `server.go` and the adapters to relay an answer.

**WasmHost.** `compiled` is the module of the plugin, `active` the counter of
instances, `hook[r]` the hook call that the handler of `r` is in: its place in
`call`, what ended its context first, and its result. A guest may return any of
the results that callers tell apart (`ok` is no result or a reply), or never. Two
timers can stop it: that of the context (`Deadline`) and extism's own, in whole
milliseconds, which may fire while the context is still live (`GuestDeadline`, the
exit codes of `boundsError`).

**Lifecycle.** `main` is where `main.go` is, `next` the position of InitAll or
CloseAll, `rq[r]` a request with the hooks it passes and the two goroutines
that it leaves behind. What it passes depends on the entry point: a stream has no
hooks after the engine, embeddings have no trace and no count. `Shutdown` returns
when all handlers have, or after its ten seconds, that is at any time; until it has
seen every connection idle, a connection that was accepted earlier may still bring
a request. The goroutines of a handler are started where it returns: nothing waits for
the bytes that some handlers write after starting them.

`MC*` modules hold constant values and symmetry sets for TLC; definitions
marked *Variant* are plausible mistakes, used to see that a property notices
them.

## Runs

| Run | Configuration | Shows |
|---|---|---|
| `app_keys_safe` | 2 keys (1 configured), 1 thread, all operations, no faults | memory and bucket stay in step; crash, purge, rotation, revocation and PATCH are safe |
| `app_keys_faults` | 1 key, 2 overlapping threads, every fault, fairness | the flush never undoes a purge or revocation; handlers return, the bucket converges |
| `app_keys_purge_race` | as above, expected violation | an operation overlapping a purge writes the key back |
| `app_keys_config_scope` | 1 configured, restricted key, expected violation | a cleared allow list returns after a restart |
| `engine` | 2 requests, 3 providers (1 unregistered), 3 configs (one with negative retries) | routing, scopes, retries and cache under reloads; every request ends |
| `engine_failover_off` | embeddings, failover off, expected violation | the next provider is called all the same |
| `memory_cache` | 3 keys, 2 entries, 2 values, TTLs 0 and 2 | structures agree, LRU order, refinement of `CacheSpec` |
| `rate_limit` | 1 key with its own limit, 1 address, per-key and per-address modes in all combinations | bounded rate, cleanup unnoticed |
| `watcher` | 4 writes | changes are picked up, Stop works |
| `transport` | 2 requests, 1 model, 2 buffers, 3 plugins, 1 chunk | answers, traces, usage and buffers |
| `relay` | every mode and format, 2 or 3 streams of up to 5 events each, 6 requests | what the client gets, what is released, which timeouts may fire, every relay ends |
| `lifecycle` | a chat request, and one for a stream or embeddings; a tracing and a WASM plugin | instances and aborts, order of shutdown, shutdown and hooks end |

Bounds. One thread is enough in `app_keys_safe` because operations on different
keys share nothing but `writeMu`, and the interleaving partner is the flush; the
theorems cover any number of threads and keys. Two operations on one key are
what the fault and violation runs add. `MaxTime` (the clock) bounds expiries
and lets them pass. Two requests in `engine` are one of any kind and
one that shares its cache entry; retries are limited to one, so that a second would be noticed.
In `rate_limit` the clock passes the cleanup age. In `watcher` four writes allow
a write before Start, one during a check, a broken one and a last one. In
`transport` both requests can be the first for the model; the rate limiter is
left out of the chain because it acts like a WASM hook that may short-circuit.
In `relay` one request is enough, since relays share nothing; the timeout is two
ticks, so that an upstream can be late without being too late, and the streams
hold skipped, unknown and broken events, several finish reasons and something
after the end. In `lifecycle` two requests share the module and the counter;
one can be in a hook while the other is anywhere else. `Asks` gives each its entry
points, so that every sequence of hooks occurs; `/v1/messages`, which has those of
embeddings with a trace and a count, is left to the theorems. In `engine` the bodies
share one cache key; the theorem `HitsAlwaysOwn` is for any bodies. Deadlock is
checked in all runs.

Fairness. `AppKeys`: the flush ticker fires again and again and a runnable
handler is scheduled (weak fairness); `sync.Mutex` hands the lock to a waiter
after a millisecond at most, so taking `writeMu` is strongly fair. Flushes
do not fail for ever (`FlushSucceeds`). `Engine`: a request is scheduled and
provider calls end, which for HTTP providers is `RelayEnds` of `Relay`.
`Relay`: the handler, the timer's callback and the Bedrock goroutine are
scheduled and time passes; nothing is assumed of upstream and client, except
that the server's `ReadTimeout` ends a request that is not sent. `Lifecycle`:
`main` is scheduled, and so is a handler or the timer of the hook that it waits
for; nothing is assumed of guests, providers and clients. `Watcher`: the ticker fires, and `select` picks a closed
channel with probability one half, hence strong fairness of `Leave`.

## Findings

1. *Purge and a concurrent operation on the same key.* `PersistKey` may write a
   snapshot taken before the purge after `DeleteKey` has removed the entry. The
   key is back after a restart (`app_keys_purge_race`).
2. *Clearing the allow lists of a configured key.* An absent `Scopes` field
   does not override the config in `Restore` (`app_keys_config_scope`).
3. *Failover off.* Embeddings and `/v1/messages` go on to the next provider
   regardless of `failover.enabled` (`engine_failover_off`).

Smaller disagreements between comments and code are not runs of their own; the
properties state what the code does and name them as exceptions.

- Embeddings, and requests that a plugin short-circuits, emit no trace: they are not
  logged and the span that `PreHTTP` opened is never ended. `tracing.go:31-32` speaks
  of "every request handled by Butter", `tracing.go:89-90` of a span "that OnTrace can
  end", `requestlog.go:165` of a line "for each completed request".
  `TracesTellTheAnswer` says nothing of these paths; `Transport` has them as the code
  does.
- Two PATCHes of one key that overlap can lose the scope field that one of them set:
  `handleAppKeyUpdate` merges outside any lock (`PatchKeepsUnsentFields`).
- A `DeleteKey` that fails is only logged, and no flush removes the entry
  (`FlushConverges` is about the keys in memory).
- A negative `max_retries` makes the engine return neither answer nor error
  (`AnswerOrError`).
- A `pre_llm` short circuit is stored where nobody looks any more
  (`engine.go:101`); `plugin/sdk/sdk.go:89` says it is honoured (`HookBack`).
- The idle timer also runs while a slow client keeps the handler from reading
  (`httpclient.go:38`, `TimeoutsAreEarned`).
- The write deadline is not extended for the header of a stream, nor for a whole
  answer (`server.go:346`, `TimeoutsAreEarned`).
- Gemini's reader goes on after a finish reason (`gemini.go:283`,
  `TranslationFaithful`); Anthropic's `error` event is skipped, so that the end of the
  body after it gives `[DONE]`.
- `"stop": null` becomes one empty stop sequence (`TranslationFaithful`).
- A Bedrock stream is not closed after an event that does not parse or a reader
  that has hung up (`Released`).
- A hook's context that ends while the instance is created is reported as
  neither timeout nor cancellation (`CallInstance`).

## Proofs

`AppKeysProofs` proves `Spec => []TypeOK` under every fault. TypeOK alone is
not inductive: a thread that persists a record must have one, which `Addressed`
adds.

The same module has step lemmas for memory, for one record on its way to and
from the bucket and for the flush, and proves from them, for any keys and
threads, under `NoFaults` (no two operations on one key overlap, transactions succeed, shutdown drains, and the
config restricts no key): `WriteThrough` is invariant, and so are
`CrashLosesNothing` and `PurgeIsFinal`. The two goals are not inductive. What
makes the argument work is that a record and its bucket entry differ only while
some operation holds a snapshot that it has still to persist
(`BucketInStep`), that such a snapshot agrees with the record as far as it has
been loaded (`SnapshotFresh`), and that what the flush has collected is stale
only for such records, whose own write then waits for `writeMu` and comes after
the flush (`FlushInStep`). Each assumption is needed: the fault and violation
runs show what happens without the first, the second is repaired only by the
next flush, and the last is finding 2.

`AppKeysOrder` first proves two action properties. `FlushNeverClobbers` holds under
every fault. Its invariant `FlushSafe` cannot use that bucket and memory agree;
it says that `RevokedAt` is set once, so that whoever has loaded it agrees with
the record (`RevokedOnce`), that the flush holds `writeMu` as long as it holds
records or snapshots (`Locked`), and that a purged key which a flush may write
is one that a restart has found in the bucket (`PurgesLast`).
`RevocationStaysDurable` needs `NoFaults`: `PersistKey` writes a snapshot that
is as old as its operation, and only `SnapshotFresh` keeps it from being too old.

`PatchKeepsUnsentFields` holds under every fault and any overlap: PATCH uses, several
steps later, the scopes that it has read, and nothing but the store of another PATCH
changes the scopes of a key that is in memory (`MergesFresh`). The property names that case, two
overlapping PATCHes, as its exception (`overtaken`); without the exception TLC has a
counterexample. `RotationHandsOver` needs `NoFaults`: `OpsFresh` says that what Rotate
has read of the old key still holds, because the only operation that
works on the key is the one that has read it, and because time shortens what is
left of the old key no less than of the new one. That the new key is durable
before the old one is revoked is `BucketInStep`. The assumption is needed: TLC
finds a counterexample to `RotationHandsOver` and to `RevocationStaysDurable` once
two operations on one key may overlap.

`BackgroundProofs` is about what runs in goroutines beside the handlers. It
proves for all limits, keys and addresses of the rate limiter: `TypeOK`,
`RateBound` and `CleanupUnnoticed`. `RateBound` is not inductive; `Potential`
is, which adds the tokens still in the bucket to those spent. For the cleanup,
`SameFuture` says that a dropped bucket and its twin hold the same at every
later time. The argument needs `StaleAfter >= Minute` (the code has ten
minutes): by then the bucket is full, and a new one starts full. Of the config
watcher it proves `InSync`, for any number of writes. That speaks of the
goroutine between two checks only; inductive is `NotBehind`: the remembered mtime
never runs ahead of the version in force, because `check` takes the mtime before
it reads the content. The one exception is the write between `main`'s Load and
Start, which the property names as well. Of the usage record it proves
`RequestsAddUp` and `SnapshotCovers` from `UsageSpec`, for any goroutines and any
models. Both goals speak of moments: no goroutine under way,
a snapshot that is complete. Inductive is what each counter is at any moment: the
number of goroutines that have passed the step which raises it (`CountersCount`);
a model has one object, made by a request for it and used by all of them
(`OneObject`, the second look of `getOrCreateModel` under the lock); and what a
snapshot has summed up so far is at most the number of requests that have
reached their model's counter, each of which is in the total already, since
`RecordRequest` raises the total first (`SnapshotBehind`).

`LifecycleProofs` proves `HooksAreAccounted` and `FlushIsLast` for any finite
set of requests, whatever they ask for, and any list of plugins with one WASM plugin. The inductive
invariant `LifecycleInv` adds that a handler is in a hook exactly when its call
is (`CallsMatch`), and what each phase of `main` may rely on (`PhasesHold`): the
module is loaded from serving to the final flush, and after a drain no handler
is left, nor can one come. A step of a request changes one call and one request
record, so that one lemma (`RequestStep`) reduces all of them to conditions on
the two new records; the counter of instances is the cardinality of a finite
set, to which a step adds or from which it removes one element.

`EngineProofs` proves `OneConfigPerRequest`, `ScopesHold`,
`GivesUpLast`, `AnswerOrError`, `HitsAreOwn` and the action property
`RetryDiscipline` for any requests, providers, bodies, keys and configs. The
invariant says of each request what `Dispatch` has settled for good (`Admitted`:
its config, and a list in which every name is routed and allowed), where the
loops stand (`InPlace`), that every position passed was called or cannot be used
(`Searched`), under which keys (`UsedUnder`), and what is returned (`Answered`);
`CacheSound` says that an entry is filed under the key of its own response. No
step of another request can touch the former, and `CacheGet` needs only the
latter. `RetryDiscipline` is about every step, not only about the retry: `Paced`
adds that no position ahead of the search has been called, and that a request which
stands before one that it has called may call it again. What `enforceScopes` leaves of a list of any length is shown by taking
a shortest prefix on which the filter would go wrong (`LeastNatural`). Assumed
is `ConstantsAssumption`, the shapes of configs and requests, and
`SentinelAssumption`, that the model's placeholders are none of the values they
stand in for.

`MemoryCacheProofs` proves `MapAndListAgree`, `ListInOrderOfUse` and the
refinement `Spec => ImplementsCache` for any keys, values, lifetimes and limit.
The invariant adds to the two goals that the keys of the list are distinct,
without which "the element of a key" means nothing. Every method moves one
element: it takes it out, puts it in front, or cuts the last one, and for each
of these there is a lemma on what it does to the keys, to the order and to the
list read as a function. A stale Get is the contract's Get that finds nothing,
`removeOldest` the choice of what a Set keeps.

`TransportProofs` proves `BuffersNotShared`, `TracesTellTheAnswer` and
`AnswersAreCounted` for any requests, any chain of plugins, any pool of buffers
and any number of chunks. The last two speak of a handler that is done;
`Settled` says for every place in a handler what the client and the plugins
have been told by then (`Told`), whether the key has been noted (`KeyNoted`) and
whether the usage goroutine has been started, with which tokens (`Counted`).
`ServerRecordsUsage` is the composition: `Spec => UsageSpec`, every step of the
server is a step of the record or leaves it alone. With it `RequestsAddUp` and
`SnapshotCovers` hold of the server and not only of the record by itself.

`RelayProofs` proves `Released`, `RelayFaithful` and the action property
`TimeoutsAreEarned` for every set of calls, with scripts of any length, and every
timeout. `RelayInv` says what is held where (`Holds`, `Pumping`): no return of the
handler is reached with the body open or the timer running, because a failed
`RoundTrip` stops the timer itself and every way out after the header passes
`Close`, which a callback that is already running cannot undo. For
the timeouts, `Timed` relates the two clocks: what the timer has left and how long
the upstream has been silent add up to the timeout at least, unless something has
arrived that is still to be read or the client keeps the handler from reading; and
`Extended` says that a chunk is written with the whole deadline ahead. `FaithInv`
says that what has been written is what the upstream sent, item by item
(`Whole`), that until the stream is closed every event that was used and is not in
hand has been written (`Kept`), and that `[DONE]` is written only at an end
(`Concluded`).
Assumed in these three modules is no more than the shapes of the constants
(`UsageAssumption`, `TransportAssumption`, `CallsAssumption`) and a positive
timeout (`TimeoutAssumption`).

Only model-checked: `TokensAddUp` and `TranslationFaithful`, which are about sums
over a set of requests and about translations folded over a sequence, so that a
proof for every input is an induction over data; and all liveness properties
(`FlushConverges`, `HandlersReturn`, `EveryRequestEnds`, `PicksUpChanges`,
`StopEnds`, `RelayEnds`, `ShutdownEnds`). Both are out of the prover's reach.
Every other property of a passing run is also a theorem.

## Not modelled

- JSON beyond the forms of content and stop fields: token extraction, cache-key
  normalisation, the ABI between host and guest. Data without state.
- Embeddings, model lists and Bedrock's call without streaming: one request and
  one answer each, with the error paths that `Relay` has for whole answers.
- Address parsing behind trusted proxies; the scanner that detects streaming;
  environment expansion and defaults of the config; the construction of
  providers and plugins. Straight-line code.
- Redis cache and metrics: thin clients of other systems. The sample plugins:
  guests, without state.
- Negative key weights, which the defaults do not rule out and with which the
  weighted draw of `selectKey` is not defined: configs have positive weights.
- Durations other than the timeouts of `Relay` and the limits of the rate limiter:
  back-off. Headers, logging, labels.
- `/v1/models`, `/healthz` and the sums of `/v1/usage`: read-only.

## Plan

1. Pure functions against reference definitions: weighted `selectKey`,
   `clientIP`, `isStreamRequest`.
2. A property for LLM hooks, once it is settled whether a `pre_llm` short circuit
   should be honoured.
