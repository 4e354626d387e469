------------------------------- MODULE Relay --------------------------------
(***************************************************************************)
(* One request on its way through a provider adapter: the transport        *)
(* handler that reads it and writes the answer under a write deadline      *)
(* (internal/transport/server.go), the adapter in between (module          *)
(* Adapters) and the upstream body with its idle timer (module IdleBody),  *)
(* or, for Bedrock, the pipe that a goroutine fills from the SDK's events  *)
(* (internal/provider/bedrock/bedrock.go).                                 *)
(*                                                                         *)
(* Time passes only while the handler waits: for the client's request, the *)
(* upstream, or a client that does not take what is written to it.         *)
(***************************************************************************)
EXTENDS IdleBody, Adapters

CONSTANTS
    Calls        \* [mode, fmt, script, req]: a request and what the upstream may answer

ASSUME CallsAssumption ==
    \A c \in Calls : /\ c.mode \in {"chat", "stream", "copy", "bedrock"}
                     /\ c.fmt \in Formats
                     /\ Len(c.script) \in Nat

VARIABLES
    call,        \* the request
    pc,          \* where the handler is
    gone,        \* the client has left, or a write to it has failed
    window,      \* the time left until the connection's write deadline
    up,          \* the upstream: status of its answer, events sent, how the body ended
    got, taken,  \* events read from the body, and those of them the reader has used
    asked,       \* the request as sent to the upstream
    out, done,   \* what was written to the client, and whether [DONE] was
    result,      \* how the call ended
    pump, pipe,  \* bedrock: the goroutine and the io.Pipe that it fills
    sdk,         \* bedrock: the SDK's event stream is open
    quiet,       \* (history) time since the upstream's last sign of life
    held, slow   \* (history) time passed in a write: since the timer was set, in this write

handlerVars == <<call, pc, got, taken, asked, out, done, result>>
clientVars == <<gone, window>>
bedrockVars == <<pump, pipe, sdk>>
history == <<quiet, held, slow>>
vars == <<idleVars, handlerVars, clientVars, up, bedrockVars, history>>

Bedrock == call.mode = "bedrock"
Arrived == [status |-> "none", sent |-> 0, end |-> "open"]

Init ==
    /\ IdleInit
    /\ call \in Calls
    /\ pc = "upload" /\ got = 0 /\ taken = 0 /\ asked = NoRequest
    /\ out = <<>> /\ done = FALSE /\ result = "none"
    /\ gone = FALSE /\ window = Timeout
    /\ up = Arrived
    /\ pump = "none" /\ pipe = "open" /\ sdk = FALSE
    /\ quiet = 0 /\ held = FALSE /\ slow = FALSE

(***************************************************************************)
(* The upstream.  It sends the events of its script, any prefix of them,   *)
(* and ends the body, or the connection breaks.                            *)
(***************************************************************************)

UpAnswer ==
    /\ pc = "header" /\ ctx = "live" /\ up = Arrived
    /\ \E s \in {"ok", "error"} : up' = [up EXCEPT !.status = s]

UpSend ==
    /\ up.status = "ok" /\ up.end = "open" /\ ctx = "live" /\ pc # "ended"
    /\ up.sent < Len(call.script)
    /\ up' = [up EXCEPT !.sent = @ + 1]

UpEnd ==
    /\ pc \notin {"upload", "send", "reply", "ended"} /\ up.end = "open" /\ ctx = "live"
    /\ \E e \in IF up.status = "none" THEN {"cut"} ELSE {"eof", "cut"} : up' = [up EXCEPT !.end = e]

Upstream ==
    /\ UpAnswer \/ UpSend \/ UpEnd
    /\ quiet' = 0
    /\ UNCHANGED <<idleVars, handlerVars, clientVars, bedrockVars, held, slow>>

(***************************************************************************)
(* The handler up to the answer's header                                   *)
(***************************************************************************)

\* The timer was set: nobody has been held up since.
TimerSet == held' = FALSE /\ UNCHANGED <<quiet, slow>>

\* The client's request is read, or not: 400 or 413.
ReadRequest ==
    /\ pc = "upload"
    /\ \/ pc' = "send" /\ UNCHANGED result
       \/ pc' = "reply" /\ result' = "error"
    /\ UNCHANGED <<idleVars, call, got, taken, asked, out, done, clientVars, up, bedrockVars, history>>

\* The adapter translates the request and starts the round trip; Bedrock's is the SDK's.
Send ==
    /\ pc = "send"
    /\ asked' = IF call.mode \in {"chat", "stream"} THEN translateRequest(call.fmt, call.req) ELSE NoRequest
    /\ IF call.mode \in {"chat", "stream"} /\ asked' = NoRequest
       THEN pc' = "reply" /\ result' = "error" /\ UNCHANGED <<idleVars, history>>
       ELSE /\ pc' = "header" /\ UNCHANGED result
            /\ IF Bedrock THEN UNCHANGED idleVars ELSE RoundTripBegin
            /\ quiet' = 0 /\ held' = FALSE /\ UNCHANGED slow
    /\ UNCHANGED <<call, got, taken, out, done, clientVars, up, bedrockVars>>

Reading == [chat |-> "readall", stream |-> "flush", copy |-> "next", bedrock |-> "next"]

\* The round trip returns an answer; the native endpoint passes an error status
\* on with its body, /v1/messages does not.
GotHeader ==
    /\ pc = "header" /\ up.status # "none"
    /\ asked' = NoRequest
    /\ IF Bedrock
       THEN /\ UNCHANGED <<timer, callback, expired, ctx>>
            /\ IF up.status = "ok"
               THEN pc' = "next" /\ body' = "open" /\ pump' = "select" /\ sdk' = TRUE /\ UNCHANGED result
               ELSE pc' = "reply" /\ result' = "refused" /\ UNCHANGED <<body, pump, sdk>>
       ELSE /\ RoundTripOk
            /\ \/ (up.status = "ok" \/ call.mode = "copy") /\ pc' = Reading[call.mode]
               \/ up.status = "error" /\ pc' = "errbody"
            /\ UNCHANGED <<result, pump, sdk>>
    /\ TimerSet
    /\ UNCHANGED <<call, got, taken, out, done, clientVars, up, pipe>>

\* It returns an error: the connection broke, or the context has ended.
NoHeader ==
    /\ pc = "header"
    /\ ctx # "live" \/ (up.status = "none" /\ up.end = "cut")
    /\ pc' = "reply" /\ result' = ErrorOf("error") /\ asked' = NoRequest
    /\ IF Bedrock THEN UNCHANGED idleVars ELSE RoundTripFails
    /\ UNCHANGED <<call, got, taken, out, done, clientVars, up, bedrockVars, history>>

(***************************************************************************)
(* The answer's body                                                       *)
(***************************************************************************)

\* Nothing more can be read from the body.
AtEnd == got = up.sent /\ up.end # "open"

\* The body of an answer with an error status is read and dropped; only
\* ChatCompletion looks at the error of that read.
ErrorBody ==
    /\ pc = "errbody" /\ (AtEnd \/ ctx # "live")
    /\ pc' = "reply"
    /\ result' = IF (up.end = "eof" /\ ~expired) \/ call.mode # "chat" THEN "refused" ELSE ErrorOf("error")
    /\ Close
    /\ UNCHANGED <<call, got, taken, asked, out, done, clientVars, up, bedrockVars, history>>

\* A Read of the body that returns data, as much as there is or less; a context
\* that has just ended may not have reached the connection yet.
Fetch ==
    /\ pc \in {"readall", "next"} /\ ~Bedrock
    /\ taken = got \/ pc = "readall"
    /\ \E n \in got + 1..up.sent : got' = n
    /\ ReadSome /\ TimerSet
    /\ UNCHANGED <<call, pc, taken, asked, out, done, result, clientVars, up, bedrockVars>>

Events(n) == SubSeq(call.script, 1, n)

\* What the events of a stream tell, put together: the message of which a call
\* without streaming gets the translation.
Answer(es) ==
    LET said == SelectSeq(es, LAMBDA e : e.type \in {"data", "text_delta", "candidate"})
        reasons == SelectSeq(es, LAMBDA e : e.reason # NoReason)
    IN  [texts |-> FlattenSeq([i \in DOMAIN said |-> said[i].texts]),
         reason |-> IF reasons = <<>> THEN NoReason ELSE reasons[Len(reasons)].reason]

\* A body that is not whole, or not JSON, is an error to the adapters that parse it.
Parses == got = Len(call.script) /\ \A i \in 1..got : call.script[i].type # "bad"

\* ChatCompletion after io.ReadAll.
ReadAllEnds ==
    /\ pc = "readall" /\ (AtEnd \/ ctx # "live")
    /\ LET ok == up.end = "eof" /\ AtEnd /\ ~expired /\ (call.fmt = "openai" \/ Parses) IN
       /\ result' = IF ok THEN "ok" ELSE ErrorOf("error")
       /\ out' = IF ok THEN <<translateResponse(call.fmt, Answer(Events(got)))>> ELSE <<>>
    /\ pc' = "reply" /\ Close
    /\ UNCHANGED <<call, got, taken, asked, done, clientVars, up, bedrockVars, history>>

\* deadline.extend() before a write.
Extend == window' = Timeout /\ UNCHANGED gone

\* The stream's Next works on an event that it has; io.Copy writes it as it is.
TakeEvent ==
    /\ pc = "next" /\ taken < got /\ ~Bedrock
    /\ taken' = taken + 1
    /\ LET s == IF call.mode = "copy" THEN Step("chunk", Reply(<<>>, NoReason))
                ELSE streamNext(call.fmt, call.script[taken + 1]) IN
       \/ s.kind = "chunk" /\ pc' = "write" /\ Extend /\ UNCHANGED result
       \/ s.kind = "skip" /\ UNCHANGED <<pc, clientVars, result>>
       \/ s.kind = "eof" /\ pc' = "done" /\ Extend /\ result' = "ok"
       \/ s.kind = "fail" /\ pc' = "close" /\ result' = "error" /\ UNCHANGED clientVars
    /\ UNCHANGED <<idleVars, call, got, asked, out, done, up, bedrockVars, history>>

\* Read returns io.EOF.
EndOfBody ==
    /\ pc = "next" /\ taken = got /\ AtEnd /\ up.end = "eof" /\ ~Bedrock
    /\ result' = IF expired THEN "idle" ELSE "ok"
    /\ IF ~expired /\ call.mode = "stream" THEN pc' = "done" /\ Extend ELSE pc' = "close" /\ UNCHANGED clientVars
    /\ ReadFails
    /\ UNCHANGED <<call, got, taken, asked, out, done, up, bedrockVars, history>>

\* Variant: every error of Read ends the stream as io.EOF does.
BreakOffDone ==
    /\ pc = "next" /\ taken = got /\ ~Bedrock
    /\ (AtEnd /\ up.end = "cut") \/ ctx # "live"
    /\ result' = "ok" /\ pc' = "done" /\ Extend
    /\ ReadFails
    /\ UNCHANGED <<call, got, taken, asked, out, done, up, bedrockVars, history>>

\* Read returns another error; the stream ends without [DONE].
BreakOff ==
    /\ pc = "next" /\ taken = got /\ ~Bedrock
    /\ (AtEnd /\ up.end = "cut") \/ ctx # "live"
    /\ result' = ErrorOf("error") /\ pc' = "close"
    /\ ReadFails
    /\ UNCHANGED <<call, got, taken, asked, out, done, clientVars, up, bedrockVars, history>>

(***************************************************************************)
(* Writes to the client                                                    *)
(***************************************************************************)

Writing == pc \in {"flush", "write", "done", "reply"}

\* What a finished write is followed by.
AfterWrite == [flush |-> "next", write |-> "next", done |-> "close", reply |-> "ended"]

\* The client takes what is written, at once or after some time.  handleStream
\* flushes the header before newStreamDeadline first moves the deadline.
WriteOk ==
    /\ Writing /\ ~gone /\ window > 0
    /\ pc' = AfterWrite[pc]
    /\ done' = (done \/ pc = "done")
    /\ out' = IF pc = "write"
              THEN Append(out, IF call.mode = "stream" THEN streamNext(call.fmt, call.script[taken]).chunk
                               ELSE call.script[taken])
              ELSE out
    /\ window' = IF pc = "flush" THEN Timeout ELSE window
    /\ slow' = FALSE
    /\ UNCHANGED <<idleVars, call, got, taken, asked, result, gone, up, bedrockVars, quiet, held>>

\* A write after the deadline, or to a client that has left, fails and net/http
\* ends the request's context; only io.Copy looks at the error.
WriteFails ==
    /\ Writing /\ (gone \/ window = 0)
    /\ gone' = TRUE
    /\ Cancel("gone")
    /\ pc' = IF pc = "write" /\ call.mode # "stream" THEN "close" ELSE AfterWrite[pc]
    /\ result' = IF pc = "write" /\ call.mode # "stream" THEN "error" ELSE result
    /\ slow' = FALSE
    /\ UNCHANGED <<timer, callback, expired, body, call, got, taken, asked, out, done, window, up,
                   bedrockVars, quiet, held>>

\* The deferred Close of the stream or of the response's body.
CloseStream ==
    /\ pc = "close"
    /\ pc' = "ended"
    /\ IF Bedrock
       THEN /\ pipe' = IF pipe = "open" THEN "hung" ELSE pipe
            /\ body' = "closed" /\ UNCHANGED <<timer, callback, expired, ctx>>
       ELSE Close /\ UNCHANGED pipe
    /\ UNCHANGED <<call, got, taken, asked, out, done, result, clientVars, up, pump, sdk, history>>

\* The client leaves; net/http notices and ends the request's context.
ClientLeaves ==
    /\ ~gone /\ pc # "ended"
    /\ gone' = TRUE
    /\ Cancel("gone")
    /\ UNCHANGED <<timer, callback, expired, body, handlerVars, window, up, bedrockVars, history>>

\* net/http ends the context of a request whose handler has returned.
ContextEnds ==
    /\ pc = "ended" /\ ctx = "live"
    /\ Cancel("released")
    /\ UNCHANGED <<timer, callback, expired, body, handlerVars, clientVars, up, bedrockVars, history>>

(***************************************************************************)
(* Bedrock: invokeStream's goroutine                                       *)
(***************************************************************************)

\* case <-ctx.Done()
PumpCancelled ==
    /\ pump = "select" /\ ctx # "live"
    /\ pump' = "ended" /\ sdk' = FALSE
    /\ pipe' = IF pipe = "open" THEN "error" ELSE pipe
    /\ UNCHANGED got

\* case event, ok := <-events, with an event: its type is parsed and it is written
\* to the pipe, where the write waits for the reader.
PumpEvent ==
    /\ pump = "select" /\ got < up.sent
    /\ got' = got + 1
    /\ IF call.script[got + 1].type = "bad"
       THEN pump' = "ended" /\ pipe' = IF pipe = "open" THEN "error" ELSE pipe
       ELSE pump' = "write" /\ UNCHANGED pipe
    /\ UNCHANGED sdk

\* The same, when the channel is closed: at the end of the events or by an error.
PumpEnds ==
    /\ pump = "select" /\ AtEnd
    /\ pump' = "ended" /\ sdk' = FALSE
    /\ pipe' = IF pipe # "open" THEN pipe ELSE IF up.end = "eof" THEN "eof" ELSE "error"
    /\ UNCHANGED got

\* The reader has closed its end: the write fails.
PumpHungUp ==
    /\ pump = "write" /\ pipe = "hung"
    /\ pump' = "ended"
    /\ UNCHANGED <<pipe, sdk, got>>

Pump ==
    /\ PumpCancelled \/ PumpEvent \/ PumpEnds \/ PumpHungUp
    /\ UNCHANGED <<idleVars, call, pc, taken, asked, out, done, result, clientVars, up, history>>

\* io.Copy reads the pipe: an event, which releases the goroutine, or its end.
ReadPipe ==
    /\ pc = "next" /\ Bedrock
    /\ \/ /\ pump = "write"
          /\ pump' = "select" /\ taken' = got
          /\ pc' = "write" /\ Extend /\ UNCHANGED result
       \/ /\ pipe \in {"eof", "error"}
          /\ pc' = "close" /\ result' = (IF pipe = "eof" THEN "ok" ELSE "error")
          /\ UNCHANGED <<pump, taken, clientVars>>
    /\ UNCHANGED <<idleVars, call, got, asked, out, done, up, pipe, sdk, history>>

(***************************************************************************)
(* Time and the specification                                              *)
(***************************************************************************)

\* The handler waits for somebody else.
Waiting ==
    \/ pc = "upload"
    \/ pc = "header" /\ up = Arrived /\ ctx = "live"
    \/ pc \in {"errbody", "readall"} /\ got = up.sent /\ up.end = "open" /\ ctx = "live"
    \/ pc = "next" /\ taken = up.sent /\ up.end = "open" /\ ctx = "live"
    \/ Writing /\ ~gone /\ window > 0

\* A unit of time passes; a timer that has run out and its callback come first.
Tick ==
    /\ Waiting /\ ~gone
    /\ timer # 0 /\ callback = "none"
    /\ timer' = Elapse(timer) /\ window' = Elapse(window)
    /\ quiet' = IF quiet < Timeout THEN quiet + 1 ELSE quiet
    /\ held' = (held \/ Writing) /\ slow' = Writing
    /\ UNCHANGED <<callback, expired, ctx, body, handlerVars, gone, up, bedrockVars>>

\* What the handler does without the client's help.
Handler ==
    \/ ReadRequest \/ Send \/ GotHeader \/ NoHeader
    \/ ErrorBody \/ Fetch \/ ReadAllEnds \/ TakeEvent \/ EndOfBody \/ BreakOff \/ ReadPipe
    \/ WriteFails \/ CloseStream \/ ContextEnds

Timer == Alarm /\ UNCHANGED <<handlerVars, clientVars, up, bedrockVars, history>>

\* Nothing is left to do.
Finished ==
    /\ pc = "ended" /\ ctx # "live" /\ pump \in {"none", "ended"} /\ callback = "none"
    /\ UNCHANGED vars

Next == Upstream \/ Handler \/ WriteOk \/ ClientLeaves \/ Timer \/ Pump \/ Tick \/ Finished

Spec == Init /\ [][Next]_vars

\* Go schedules the handler, the timer's callback and the goroutine, and time goes
\* on; the server's ReadTimeout ends a request that is not sent.  Nothing is
\* assumed of the upstream, or of the client once its request is read.
FairSpec == Spec /\ WF_vars(Handler) /\ WF_vars(Timer) /\ WF_vars(Pump) /\ WF_vars(Tick)

(***************************************************************************)
(* Properties                                                              *)
(***************************************************************************)

PCs == {"upload", "send", "header", "errbody", "readall", "flush", "next", "write", "done", "close",
        "reply", "ended"}

TypeOK ==
    /\ IdleTypeOK
    /\ call \in Calls /\ pc \in PCs
    /\ taken \in 0..got /\ got \in 0..up.sent /\ up.sent \in 0..Len(call.script)
    /\ gone \in BOOLEAN /\ window \in 0..Timeout /\ quiet \in 0..Timeout
    /\ pump \in {"none", "select", "write", "ended"} /\ pipe \in {"open", "eof", "error", "hung"}

\* A handler that has returned has released what it held, on every path: the idle
\* timer is stopped, the upstream request's context has ended (or ends with the
\* request's own), the body is closed if there was one.  The goroutine of a Bedrock
\* stream that has ended has told the reader, and has left the SDK's stream open
\* only after an event that does not parse or a reader that hung up.
Released ==
    /\ TypeOK
    /\ pc \in {"reply", "ended"} =>
          /\ timer = Stopped /\ body # "open"
          /\ ctx = "live" => body = "none" \/ Bedrock
    /\ pump = "ended" =>
          /\ pipe # "open"
          /\ sdk => pipe = "hung" \/ call.script[got].type = "bad"

\* The idle timer runs out only when the upstream has been silent for Timeout
\* ("goes silent for timeout"), or while the handler was kept from reading by a
\* client that did not take what was written to it.  A write to a client that does
\* take it fails on the deadline ("catching a client that has stopped reading") only
\* where the deadline is not extended first: the header of a stream and the whole
\* answers, once Timeout has passed since the request came.
TimeoutsAreEarned ==
    [][/\ timer # 0 /\ timer' = 0 => quiet' = Timeout \/ held'
       /\ ~gone /\ gone' /\ Writing /\ window = 0 => slow \/ pc \in {"flush", "reply"}]_vars

\* What the client makes of the chunks that it got.
Seen(chunks) ==
    LET reasons == SelectSeq(chunks, LAMBDA c : c.finish # NoReason)
    IN  Reply(FlattenSeq([i \in DOMAIN chunks |-> chunks[i].content]),
              IF reasons = <<>> THEN NoReason ELSE reasons[Len(reasons)].finish)

\* How many events have been used and are not in hand any more.
Served == IF pc = "write" THEN taken - 1 ELSE taken

\* A relayed body is what the upstream sent: nothing lost, repeated or out of order
\* while the client is there, and a prefix of it after that.  [DONE] is written only
\* if the upstream ended its message or its body, never after an error, a timeout or
\* an event that does not parse.
RelayFaithful ==
    /\ call.mode \in {"copy", "bedrock"} =>
          /\ Len(out) <= Served /\ (~gone => Len(out) = Served)
          /\ \A i \in 1..Len(out) : out[i] = call.script[i]
    /\ done => /\ result = "ok"
               /\ \/ AtEnd /\ up.end = "eof"
                  \/ taken > 0 /\ streamNext(call.fmt, call.script[taken]).kind = "eof"

\* What a request says, whatever the format: the system prompt and the turns as
\* texts without line breaks, who speaks, and where to stop.
Words(text) == SelectSeq(text, LAMBDA w : w # Newline)
SystemOf(q) == FlattenSeq([i \in DOMAIN q.messages |->
                   IF IsSystem(q.messages[i]) THEN extractTextContent(q.messages[i].content) ELSE <<>>])
TurnsOf(q) == [i \in DOMAIN Others(q) |->
                  <<IF Others(q)[i].role = "model" THEN "assistant" ELSE Others(q)[i].role,
                    extractTextContent(Others(q)[i].content)>>]
StopsOf(s) == CASE s.form = "string" -> <<s.text>> [] s.form = "array" -> s.texts [] OTHER -> <<>>

\* The adapters change the form of what is said and not what is said, both ways.
\* Both translateRequest keep what the client said, in the order in which it was
\* said: the system prompt, the turns and their speakers, a limit if there is one,
\* and the stop sequences, apart from the empty one that they make of a null.
\* Streaming changes when the client gets the answer and not what it gets: as long
\* as the client is there, the chunks of Next put together are what
\* translateResponse would have made of the same message, up to the event in hand.
TranslationFaithful ==
    /\ pc = "header" /\ call.mode \in {"chat", "stream"} =>
          /\ Words(asked.system) \o SystemOf(asked) = SystemOf(call.req)
          /\ TurnsOf(asked) = TurnsOf(call.req)
          /\ call.req.max # <<>> => asked.max = call.req.max
          /\ SelectSeq(asked.stop, LAMBDA t : t # <<>>) = StopsOf(call.req.stop)
    /\ call.mode = "stream" /\ ~gone => Seen(out) = translateResponse(call.fmt, Answer(Events(Served)))

\* Every relay ends: an HTTP provider that says nothing more, at whatever point, is
\* given up after Timeout, a client that stops reading is given up after Timeout, and
\* no goroutine of a Bedrock stream outlives its request for ever.  Bedrock has no
\* idle timeout: there the handler is sure to end only once the client leaves.
RelayEnds ==
    /\ (pc = "send" /\ ~Bedrock) ~> pc = "ended"
    /\ (gone /\ pc # "upload") ~> pc = "ended"
    /\ pc = "ended" ~> pump \in {"none", "ended"}
=============================================================================
