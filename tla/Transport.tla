----------------------------- MODULE Transport ------------------------------
(***************************************************************************)
(* The HTTP handlers (internal/transport/server.go) around the plugin      *)
(* chain (internal/plugin/chain.go), with the hooks of the request log     *)
(* and tracing plugins, and the usage counters they feed (module Usage).   *)
(* A request is a goroutine; so are the OnTrace calls and the              *)
(* RecordRequest calls that a handler starts and does not wait for.        *)
(*                                                                         *)
(* The engine is abstract here, it answers or fails: see module Engine.    *)
(* Every w of net/http is an http.Flusher, so the branches for one that    *)
(* is not are left out.                                                    *)
(***************************************************************************)
EXTENDS Usage, Sequences

CONSTANTS
    Chain,       \* the transport plugins, in order of registration
    Buffers,     \* the buffers that the request log's pool may hand out
    NoBuffer,    \* no buffer in the metadata
    Endpoints,   \* the endpoints that requests are sent to
    RequireKey,  \* app_keys.require_key
    MaxChunks,   \* bound on the chunks of a stream
    Answers      \* the token counts that an answer or a chunk of one may report

ASSUME TransportAssumption ==
    /\ Chain \in Seq({"ratelimit", "requestlog", "tracing", "wasm"})
    /\ Endpoints \subseteq {"chat", "stream", "embeddings", "messages", "native"}
    /\ Endpoints # {}
    /\ RequireKey \in BOOLEAN
    /\ MaxChunks \in Nat
    /\ Answers \subseteq Tokens
    /\ NoBuffer \notin Buffers

VARIABLES
    req,         \* the requests and what their handlers hold
    active,      \* the key is neither revoked nor expired
    pool         \* the buffers in bufPool

vars == <<usageVars, req, active, pool>>

Requests == Workers

PCs == {"idle", "body", "pre", "stream", "post", "relay", "buffer", "done"}
Statuses == {"200", "400", "401", "413", "429", "502"}
Presented == {"none", "malformed", "known", "unknown"}
Outcomes == {"none", "answered", "failed", "broken"}

TypeOK ==
    /\ active \in BOOLEAN
    /\ pool \subseteq Buffers
    /\ req \in [Requests -> [pc : PCs, endpoint : Endpoints, presented : Presented, key : BOOLEAN,
                             model : Models, hook : 0..Len(Chain), buffer : Buffers \cup {NoBuffer},
                             span : {"none", "open", "ended"}, open : BOOLEAN,
                             sent : Seq(Statuses), traced : Seq(Statuses),
                             tokens : Tokens, chunks : 0..MaxChunks, outcome : Outcomes]]

Init ==
    /\ UsageInit
    /\ active = TRUE
    /\ pool = {}
    /\ req = [r \in Requests |->
         [pc |-> "idle", endpoint |-> CHOOSE e \in Endpoints : TRUE, presented |-> "none", key |-> FALSE,
          model |-> CHOOSE m \in Models : TRUE, hook |-> 0, buffer |-> NoBuffer, span |-> "none",
          open |-> FALSE, sent |-> <<>>, traced |-> <<>>, tokens |-> NoTokens, chunks |-> 0, outcome |-> "none"]]

(***************************************************************************)
(* How a handler ends                                                      *)
(***************************************************************************)

\* The handler returns: deferred calls close the upstream body, and whatever the
\* metadata still holds is garbage.
Returned(q) == [q EXCEPT !.pc = "done", !.open = FALSE, !.buffer = NoBuffer, !.hook = 0, !.chunks = 0]

\* WriteHeader: the statuses in the order of the calls.
Sent(q, s) == [q EXCEPT !.sent = Append(@, s)]

\* One OnTrace for every observability plugin.
emitTrace(q, s) == [q EXCEPT !.traced = Append(@, s)]

\* The request is answered with a status and nothing else happens.
writeError(r, s) ==
    /\ req' = [req EXCEPT ![r] = Returned(Sent(req[r], s))]
    /\ UNCHANGED <<usageVars, active, pool>>

\* go store.RecordRequest(...), for a request with a key; a key that the store
\* does not know is looked up and left alone.
GoRecord(r, stream, tokens) ==
    IF req[r].key /\ req[r].presented = "known"
    THEN StartRecord(r, stream, req[r].model, tokens)
    ELSE UNCHANGED usageVars

(***************************************************************************)
(* Before the engine                                                       *)
(***************************************************************************)

\* A client sends a request; isStreamRequest tells "chat" from "stream".
Arrive(r, e, k) ==
    /\ req[r].pc = "idle"
    /\ \E m \in Models :
           req' = [req EXCEPT ![r].pc = IF e = "native" THEN "pre" ELSE "body",
                              ![r].endpoint = e, ![r].model = m,
                              ![r].presented = k, ![r].key = (k # "none")]
    /\ UNCHANGED <<usageVars, active, pool>>

\* The request is turned away before its handler runs.
Reject(r, k, s) ==
    /\ req[r].pc = "idle"
    /\ req' = [req EXCEPT ![r] = Returned(Sent([req[r] EXCEPT !.presented = k], s))]
    /\ UNCHANGED <<usageVars, active, pool>>

\* Around every endpoint but the native one, which does not look for a key.
withAppKeyTracking(r) ==
    \/ IF RequireKey THEN Reject(r, "none", "400") ELSE \E e \in Endpoints \ {"native"} : Arrive(r, e, "none")
    \/ Reject(r, "malformed", "400")
    \/ ~active /\ Reject(r, "known", "401")
    \/ \E e \in Endpoints \ {"native"} :
          \/ active /\ Arrive(r, e, "known")
          \/ Arrive(r, e, "unknown")

\* The key is revoked, or expires, while requests are under way; nobody looks at
\* it once the last request has come.
Deactivate ==
    /\ active
    /\ \E r \in Requests : req[r].pc = "idle"
    /\ active' = FALSE
    /\ UNCHANGED <<usageVars, req, pool>>

\* The body is read, too large (413) or breaks off (400).
readLimitedBody(r) ==
    /\ req[r].pc = "body"
    /\ \/ \E s \in {"413", "400"} : writeError(r, s)
       \/ /\ req' = [req EXCEPT ![r].pc = "pre"]
          /\ UNCHANGED <<usageVars, active, pool>>

\* A PreHTTP hook without an effect, or with an error, which the chain swallows.
Continue(r) ==
    /\ req' = [req EXCEPT ![r].hook = @ + 1]
    /\ UNCHANGED <<usageVars, active, pool>>

\* The request log's PreHTTP: a buffer from the pool, or a new one.
LogPreHTTP(r) ==
    /\ \E b \in Buffers :
           /\ b \in pool \/ \A o \in Requests : req[o].buffer # b
           /\ pool' = pool \ {b}
           /\ req' = [req EXCEPT ![r].hook = @ + 1, ![r].buffer = b]
    /\ UNCHANGED <<usageVars, active>>

TracePreHTTP(r) ==
    /\ req' = [req EXCEPT ![r].hook = @ + 1, ![r].span = "open"]
    /\ UNCHANGED <<usageVars, active, pool>>

\* The status of a short circuit; a WASM plugin's own choice is any, 400 if it has none.
ShortCircuit == [ratelimit |-> "429", wasm |-> "400"]

\* One turn of RunPreHTTP; a short circuit ends the request without a trace.
RunPreHTTP(r) ==
    /\ req[r].pc = "pre"
    /\ req[r].hook < Len(Chain)
    /\ LET p == Chain[req[r].hook + 1] IN
       \/ p \in {"ratelimit", "wasm"} /\ (Continue(r) \/ writeError(r, ShortCircuit[p]))
       \/ p = "requestlog" /\ LogPreHTTP(r)
       \/ p = "tracing" /\ TracePreHTTP(r)

(***************************************************************************)
(* The engine answers                                                      *)
(***************************************************************************)

Ready(r) == req[r].pc = "pre" /\ req[r].hook = Len(Chain)

Failed(q) == [q EXCEPT !.outcome = "failed"]

\* Variant: a failed dispatch reports 502 to the plugins, whatever the client got.
DispatchFailsAs502(r) ==
    /\ Ready(r)
    /\ \E s \in IF req[r].endpoint = "native" THEN {"502"} ELSE {"502", "429"} :
           req' = [req EXCEPT ![r] = Returned(Sent(Failed(emitTrace(req[r], "502")), s))]
    /\ UNCHANGED <<usageVars, active, pool>>

\* An error: the provider's own status, or 502; embeddings leave no trace.
DispatchFails(r) ==
    /\ Ready(r)
    /\ \E s \in IF req[r].endpoint = "native" THEN {"502"} ELSE {"502", "429"} :
           req' = [req EXCEPT ![r] = Returned(Sent(Failed(
                     IF req[r].endpoint = "embeddings" THEN req[r] ELSE emitTrace(req[r], s)), s))]
    /\ UNCHANGED <<usageVars, active, pool>>

\* An answer: in memory, or a body still to be read.
Dispatch(r) ==
    /\ Ready(r)
    /\ LET q == [req[r] EXCEPT !.outcome = "answered"] IN
       req' = [req EXCEPT ![r] =
                 CASE q.endpoint \in {"chat", "embeddings"} -> [q EXCEPT !.pc = "post"]
                   [] q.endpoint = "stream" -> [Sent(q, "200") EXCEPT !.pc = "stream", !.open = TRUE]
                   [] q.endpoint \in {"messages", "native"} -> [q EXCEPT !.pc = "post", !.open = TRUE]]
    /\ UNCHANGED <<usageVars, active, pool>>

\* Variant: the request log returns its buffer and leaves it in the metadata.
LogPostHTTPKeeps(q) == q

\* The request log's PostHTTP returns the buffer and deletes it from the metadata.
LogPostHTTP(q) == [q EXCEPT !.buffer = NoBuffer]

\* One turn of RunPostHTTP, from the last plugin to the first.
RunPostHTTP(r) ==
    /\ req[r].pc = "post"
    /\ req[r].hook > 0
    /\ IF Chain[req[r].hook] = "requestlog" /\ req[r].buffer # NoBuffer
       THEN /\ req' = [req EXCEPT ![r] = [LogPostHTTP(req[r]) EXCEPT !.hook = @ - 1]]
            /\ pool' = pool \cup {req[r].buffer}
       ELSE /\ req' = [req EXCEPT ![r].hook = @ - 1]
            /\ UNCHANGED pool
    /\ UNCHANGED <<usageVars, active>>

Posted(r) == req[r].pc = "post" /\ req[r].hook = 0

\* The rest of handleChatCompletions: trace, usage, response.
RespondChat(r) ==
    /\ Posted(r) /\ req[r].endpoint = "chat"
    /\ \E t \in Answers :
           /\ req' = [req EXCEPT ![r] = Returned(Sent(emitTrace([req[r] EXCEPT !.tokens = t], "200"), "200"))]
           /\ GoRecord(r, FALSE, t)
    /\ UNCHANGED <<active, pool>>

\* The rest of handleEmbeddings: no trace and no usage.
RespondEmbeddings(r) ==
    /\ Posted(r) /\ req[r].endpoint = "embeddings"
    /\ writeError(r, "200")

\* handleAnthropicMessages and handleNativePassthrough up to the body; a native
\* answer has any status.
RespondHeader(r) ==
    /\ Posted(r) /\ req[r].endpoint \in {"messages", "native"}
    /\ \E s \in IF req[r].endpoint = "native" THEN {"200", "429"} ELSE {"200"},
          next \in IF req[r].endpoint = "native" THEN {"relay"} ELSE {"relay", "buffer"} :
           req' = [req EXCEPT ![r] = [Sent(emitTrace(req[r], s), s) EXCEPT !.pc = next]]
    /\ UNCHANGED <<usageVars, active, pool>>

\* The usage sinks keep the latest positive count of each kind.
FeedChunk(old, new) ==
    [prompt |-> IF new.prompt > 0 THEN new.prompt ELSE old.prompt,
     completion |-> IF new.completion > 0 THEN new.completion ELSE old.completion]

\* A chunk of an SSE stream is relayed, the usage in it noted.
Chunk(r) ==
    /\ \/ req[r].pc = "stream" /\ req[r].key
       \/ req[r].pc = "relay" /\ req[r].endpoint = "messages"
    /\ req[r].chunks < MaxChunks
    /\ \E t \in Answers :
           req' = [req EXCEPT ![r].chunks = @ + 1, ![r].tokens = FeedChunk(req[r].tokens, t)]
    /\ UNCHANGED <<usageVars, active, pool>>

\* The end of handleStream, at EOF or after an error.
StreamEnds(r) ==
    /\ req[r].pc = "stream"
    /\ req' = [req EXCEPT ![r] = Returned(emitTrace(req[r], "200"))]
    /\ GoRecord(r, TRUE, req[r].tokens)
    /\ UNCHANGED <<active, pool>>

\* Variant: a relayed stream is not counted.
RelayEndsUncounted(r) ==
    /\ req[r].pc = "relay"
    /\ req' = [req EXCEPT ![r] = Returned(req[r])]
    /\ UNCHANGED <<usageVars, active, pool>>

\* The end of io.Copy, at EOF or after an error; usage only for messages.
RelayEnds(r) ==
    /\ req[r].pc = "relay"
    /\ req' = [req EXCEPT ![r] = Returned(req[r])]
    /\ GoRecord(r, TRUE, req[r].tokens)
    /\ UNCHANGED <<active, pool>>

\* The messages answer that is not a stream: read whole, or given up.
BufferBody(r) ==
    /\ req[r].pc = "buffer"
    /\ \/ \E t \in Answers :
             /\ req' = [req EXCEPT ![r] = Returned([req[r] EXCEPT !.tokens = t])]
             /\ GoRecord(r, FALSE, t)
       \/ /\ req' = [req EXCEPT ![r] = Returned([req[r] EXCEPT !.outcome = "broken"])]
          /\ UNCHANGED usageVars
    /\ UNCHANGED <<active, pool>>

\* The tracing plugin ends the span, in a goroutine that EmitTrace started.
OnTrace(r) ==
    /\ req[r].traced # <<>>
    /\ req[r].span = "open"
    /\ req' = [req EXCEPT ![r].span = "ended"]
    /\ UNCHANGED <<usageVars, active, pool>>

Handler(r) ==
    \/ withAppKeyTracking(r)
    \/ "native" \in Endpoints /\ Arrive(r, "native", "none")
    \/ readLimitedBody(r) \/ RunPreHTTP(r)
    \/ Dispatch(r) \/ DispatchFails(r) \/ RunPostHTTP(r)
    \/ RespondChat(r) \/ RespondEmbeddings(r) \/ RespondHeader(r)
    \/ Chunk(r) \/ StreamEnds(r) \/ RelayEnds(r) \/ BufferBody(r)

\* Nothing is left to do: every handler and every goroutine has returned.
Finished ==
    /\ \A r \in Requests : req[r].pc = "done" /\ rec[r].pc \in {"none", "end"}
    /\ snap.pc = "end" \/ Started = {}
    /\ UNCHANGED vars

Next ==
    \/ \E r \in Requests : Handler(r) \/ OnTrace(r)
    \/ \E r \in Requests : RecordRequest(r) /\ UNCHANGED <<req, active, pool>>
    \/ Snapshot /\ UNCHANGED <<req, active, pool>>
    \/ Deactivate
    \/ Finished

Spec == Init /\ [][Next]_vars

(***************************************************************************)
(* Properties                                                              *)
(***************************************************************************)

\* A buffer of the request log belongs to one request at a time: it is in the
\* pool, or in the metadata of one request, or dropped.
BuffersNotShared ==
    TypeOK /\ \A r \in Requests : req[r].buffer # NoBuffer =>
        /\ req[r].buffer \notin pool
        /\ \A o \in Requests \ {r} : req[o].buffer # req[r].buffer

\* Every handler answers once, with one status, on every path; and where it called
\* the engine for anything but embeddings, the plugins are told of the request once,
\* with that status.  Nothing is said of the paths without emitTrace (embeddings, and
\* requests turned away before the engine), which leave the span of tracing open.
TracesTellTheAnswer ==
    \A r \in Requests : req[r].pc = "done" =>
        /\ \E s \in Statuses : req[r].sent = <<s>>
        /\ req[r].outcome # "none" /\ req[r].endpoint # "embeddings" => req[r].traced = req[r].sent

\* A request with a key that the store knows is counted, with the tokens of its
\* answer, just when a chat, stream or messages handler relayed an answer to it.
AnswersAreCounted ==
    \A r \in Requests :
        /\ r \in Started <=>
             /\ req[r].pc = "done" /\ req[r].outcome = "answered"
             /\ req[r].endpoint \in {"chat", "stream", "messages"} /\ req[r].presented = "known"
        /\ r \in Started => rec[r].tokens = req[r].tokens
=============================================================================
