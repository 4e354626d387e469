------------------------------ MODULE Adapters ------------------------------
(***************************************************************************)
(* The provider adapters as functions on messages: requests in OpenAI's    *)
(* format on their way to Anthropic and Gemini                             *)
(* (internal/provider/{anthropic,gemini}/translate.go), and the answers on *)
(* their way back, whole or event by event.  A text is a sequence of       *)
(* words, so that joining texts is concatenation.                          *)
(***************************************************************************)
EXTENDS Naturals, Sequences

Formats == {"openai", "anthropic", "gemini"}

\* The members of a sequence of sequences, put together, and whether a sequence has a member.
FlattenSeq(seqs) ==
    LET flat[n \in 0..Len(seqs)] == IF n = 0 THEN <<>> ELSE flat[n - 1] \o seqs[n]
    IN  flat[Len(seqs)]
Contains(s, x) == \E i \in DOMAIN s : s[i] = x

Newline == "\n"

\* What a translation that fails yields: a text, and a request.
Unreadable == <<"unreadable">>
NoRequest == [max |-> <<>>, system |-> Unreadable, messages |-> <<>>, stop |-> <<>>]

(***************************************************************************)
(* Requests.  JSON values have a form: "string" (one text), "array" (of    *)
(* parts, or of strings), "null", "missing" or "other".  max_tokens is <<>>*)
(* if the client sends none, and <<n>> if it sends n.                      *)
(***************************************************************************)

CONSTANTS DefaultMaxTokens   \* anthropic: max_tokens when the client sends none

\* The text of a content field; null unmarshals into the empty string.
extractTextContent(c) ==
    CASE c.form = "string" -> c.text
      [] c.form = "null" -> <<>>
      [] c.form = "array" -> FlattenSeq([i \in DOMAIN c.parts |->
                                 IF c.parts[i].type = "text" THEN c.parts[i].text ELSE <<>>])
      [] OTHER -> Unreadable

\* stop as a list of texts; null unmarshals into the empty string.
parseStopField(s) ==
    CASE s.form = "string" -> <<s.text>>
      [] s.form = "null" -> << <<>> >>
      [] s.form = "array" -> s.texts
      [] OTHER -> <<Unreadable>>

StopSequences(req) == IF req.stop.form = "missing" THEN <<>> ELSE parseStopField(req.stop)

IsSystem(msg) == msg.role = "system"
Others(req) == SelectSeq(req.messages, LAMBDA msg : ~IsSystem(msg))
SystemParts(req) ==
    LET system == SelectSeq(req.messages, IsSystem)
    IN  [i \in DOMAIN system |-> extractTextContent(system[i].content)]

\* strings.Join(parts, "\n")
Join(parts) ==
    FlattenSeq([i \in DOMAIN parts |-> IF i = 1 THEN parts[i] ELSE <<Newline>> \o parts[i]])

\* Variant: the system messages are taken from the last to the first.
anthropicRequestReversed(req) ==
    IF Contains(SystemParts(req) \o StopSequences(req), Unreadable) THEN NoRequest
    ELSE [max |-> IF req.max = <<>> THEN <<DefaultMaxTokens>> ELSE req.max,
          system |-> LET parts == SystemParts(req)
                     IN  Join([i \in DOMAIN parts |-> parts[Len(parts) + 1 - i]]),
          messages |-> Others(req), stop |-> StopSequences(req)]

\* Anthropic's translateRequest: system messages become one field, the others are
\* passed on as they are, max_tokens is required.
anthropicRequest(req) ==
    IF Contains(SystemParts(req) \o StopSequences(req), Unreadable) THEN NoRequest
    ELSE [max |-> IF req.max = <<>> THEN <<DefaultMaxTokens>> ELSE req.max, system |-> Join(SystemParts(req)),
          messages |-> Others(req), stop |-> StopSequences(req)]

mapRoleToGemini(role) == IF role = "assistant" THEN "model" ELSE role

\* Gemini's translateRequest: every message is reduced to its text.
geminiRequest(req) ==
    LET texts == [i \in DOMAIN Others(req) |-> extractTextContent(Others(req)[i].content)]
    IN  IF Contains(SystemParts(req) \o texts \o StopSequences(req), Unreadable) THEN NoRequest
        ELSE [max |-> req.max, system |-> Join(SystemParts(req)),
              messages |-> [i \in DOMAIN texts |->
                  [role |-> mapRoleToGemini(Others(req)[i].role), content |-> [form |-> "string", text |-> texts[i]]]],
              stop |-> StopSequences(req)]

\* openaicompat sends the body that it was given.
openaiRequest(req) ==
    [max |-> req.max, system |-> <<>>, messages |-> req.messages, stop |-> StopSequences(req)]

translateRequest(fmt, req) ==
    CASE fmt = "openai" -> openaiRequest(req)
      [] fmt = "anthropic" -> anthropicRequest(req)
      [] fmt = "gemini" -> geminiRequest(req)

(***************************************************************************)
(* Answers.  A stream is a sequence of events with a type, the texts of    *)
(* their parts, and a reason to stop ("" if there is none).  An event of   *)
(* type "bad" has a payload that does not parse.                           *)
(***************************************************************************)

NoReason == ""

\* finish_reason is null when the provider gives no reason.
mapStopReason(reason) ==
    CASE reason \in {"end_turn", "stop_sequence"} -> "stop"
      [] reason = "max_tokens" -> "length"
      [] OTHER -> reason

mapFinishReason(reason) ==
    CASE reason = "STOP" -> "stop"
      [] reason = "MAX_TOKENS" -> "length"
      [] reason \in {"SAFETY", "RECITATION"} -> "content_filter"
      [] OTHER -> reason

Reply(content, finish) == [content |-> content, finish |-> finish]

\* The translateResponse of Anthropic puts the text blocks together, that of Gemini
\* the parts of the first candidate; openaicompat returns the body that it was given.
anthropicResponse(answer) == Reply(FlattenSeq(answer.texts), mapStopReason(answer.reason))
geminiResponse(answer) == Reply(FlattenSeq(answer.texts), mapFinishReason(answer.reason))
openaiResponse(answer) == Reply(FlattenSeq(answer.texts), answer.reason)

translateResponse(fmt, answer) ==
    CASE fmt = "openai" -> openaiResponse(answer)
      [] fmt = "anthropic" -> anthropicResponse(answer)
      [] fmt = "gemini" -> geminiResponse(answer)

Step(kind, chunk) == [kind |-> kind, chunk |-> chunk]
Skip == Step("skip", Reply(<<>>, NoReason))
EndOfStream == Step("eof", Reply(<<>>, NoReason))
BadPayload == Step("fail", Reply(<<>>, NoReason))

\* sseStream.Next on one line: [DONE] ends the stream, a line with a colon is
\* passed on, data or not; others are skipped.
sseLine(e) ==
    CASE e.type = "[DONE]" -> EndOfStream
      [] e.type \in {"data", "field", "bad"} -> Step("chunk", Reply(FlattenSeq(e.texts), e.reason))
      [] OTHER -> Skip

\* Anthropic's translateStreamEvent; "error" is one of the types it does not know.
translateStreamEvent(e) ==
    CASE e.type = "message_stop" -> EndOfStream
      [] e.type = "bad" -> BadPayload
      [] e.type \in {"message_start", "text_delta"} -> Step("chunk", Reply(FlattenSeq(e.texts), NoReason))
      [] e.type = "message_delta" -> Step("chunk", Reply(<<>>, mapStopReason(e.reason)))
      [] OTHER -> Skip

\* Next of Anthropic's stream on one event that readEvent has put together.
anthropicNext(e) == translateStreamEvent(e)

\* Gemini's translateStreamChunk.
translateStreamChunk(e) ==
    CASE e.type = "candidate" -> Step("chunk", Reply(FlattenSeq(e.texts), mapFinishReason(e.reason)))
      [] e.type = "bad" -> BadPayload
      [] OTHER -> Skip

\* Next of Gemini's stream: a line that is not data is skipped.  A chunk with a
\* finishReason is done, but Next treats it like the others and reads on.
geminiNext(e) == IF e.type = "field" THEN Skip ELSE translateStreamChunk(e)

streamNext(fmt, e) ==
    CASE fmt = "openai" -> sseLine(e)
      [] fmt = "anthropic" -> anthropicNext(e)
      [] fmt = "gemini" -> geminiNext(e)
=============================================================================
