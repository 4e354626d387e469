------------------------------ MODULE MCRelay -------------------------------
(***************************************************************************)
(* Small instances of Relay for TLC: every way to relay an answer, streams *)
(* in the three formats with events that are skipped, unknown or broken,   *)
(* and requests with every form of content and stop field.                 *)
(***************************************************************************)
EXTENDS Relay

Event(type, texts, reason) == [type |-> type, texts |-> texts, reason |-> reason]
A == << <<"a">> >>
BC == << <<"b">>, <<"c">> >>

Scripts ==
    [openai |-> {<<Event("data", A, NoReason), Event("field", <<>>, NoReason), Event("data", BC, "stop"),
                   Event("[DONE]", <<>>, NoReason), Event("data", A, NoReason)>>,
                 <<Event("blank", <<>>, NoReason), Event("bad", <<>>, NoReason)>>},
     anthropic |-> {<<Event("message_start", <<>>, NoReason), Event("text_delta", A, NoReason),
                      Event("text_delta", BC, NoReason), Event("message_delta", <<>>, "max_tokens"),
                      Event("message_stop", <<>>, NoReason)>>,
                    <<Event("input_json_delta", A, NoReason), Event("message_delta", <<>>, NoReason),
                      Event("error", <<>>, NoReason)>>,
                    <<Event("text_delta", A, NoReason), Event("bad", <<>>, NoReason)>>},
     gemini |-> {<<Event("candidate", A, NoReason), Event("none", <<>>, NoReason), Event("candidate", BC, "SAFETY"),
                   Event("candidate", A, NoReason)>>,
                 <<Event("field", A, NoReason), Event("candidate", BC, "STOP"), Event("bad", <<>>, NoReason)>>}]

Str(t) == [form |-> "string", text |-> t]
Arr(ps) == [form |-> "array", parts |-> ps]
Part(type, t) == [type |-> type, text |-> t]
Form(f) == [form |-> f]
Msg(role, content) == [role |-> role, content |-> content]
Req(messages, max, stop) == [messages |-> messages, max |-> max, stop |-> stop]

Simple == Req(<<Msg("user", Str(<<"u">>))>>, <<>>, Form("missing"))
Requests ==
    {Req(<<Msg("system", Str(<<"s">>)), Msg("user", Arr(<<Part("text", <<"u">>), Part("image", <<"i">>), Part("text", <<"v">>)>>)),
           Msg("system", Arr(<<Part("text", <<"t">>)>>)), Msg("assistant", Str(<<"w">>)), Msg("user", Str(<<"x">>))>>,
         <<7>>, Str(<<"e">>)),
     Req(<<Msg("user", Form("missing")), Msg("system", Form("null"))>>, <<>>, [form |-> "array", texts |-> <<<<"e">>, <<"f">>>>]),
     Req(<<Msg("system", Form("other"))>>, <<>>, Form("missing")),
     Req(<<Msg("user", Form("null"))>>, <<0>>, Form("null")),
     Req(<<Msg("user", Str(<<"u">>))>>, <<1>>, Form("other"))}

Call(mode, fmt, script, req) == [mode |-> mode, fmt |-> fmt, script |-> script, req |-> req]

MCCalls ==
    UNION {{Call(mode, fmt, s, Simple) : s \in Scripts[fmt]} : mode \in {"chat", "stream"}, fmt \in Formats}
        \cup {Call("chat", fmt, <<>>, q) : fmt \in {"anthropic", "gemini"}, q \in Requests}
        \cup {Call(mode, "anthropic", s, Simple) : mode \in {"copy", "bedrock"}, s \in Scripts["anthropic"]}
=============================================================================
