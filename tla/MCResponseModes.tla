--------------------------- MODULE MCResponseModes ---------------------------
(* Upstream responses for AnthropicStream and ResponseModes. *)
EXTENDS ResponseModes

CONSTANTS a, b

Blank == [type |-> "other", text |-> <<>>, delta |-> <<>>, tool |-> NoTool,
          reason |-> "", usage |-> NoUsage, total |-> NoUsage]

Text(type, t)       == [Blank EXCEPT !.type = type, !.text = t]
Delta(type, t)      == [Blank EXCEPT !.type = type, !.delta = t]
Call(i, in)         == [Blank EXCEPT !.type = "tool-call",
                                     !.tool = [id |-> i, input |-> in]]
Finished(r, u, tot) == [Blank EXCEPT !.type = "finish", !.reason = r,
                                     !.usage = u, !.total = tot]

\* Every kind of event, with the text in either field, calls with an input that is
\* an object, absent, a string and a list, finishes with a reason that is known,
\* one that is not and none, and usage with a finish and without.
SomeEvents ==
    {Blank, [Blank EXCEPT !.usage = 2],
     Text("text", <<a>>), Text("text", <<>>), Delta("delta", <<b>>), Delta("text-delta", <<a>>),
     Text("reasoning-delta", <<a>>), Delta("reasoning-delta", <<b>>),
     Call("call1", "object"), Call("call2", "nil"), Call("call1", "string"),
     Call("call2", "array"),
     Finished("length", 4, NoUsage), Finished("", NoUsage, NoUsage),
     Finished("length", 4, 0), Finished("refusal", NoUsage, NoUsage)}

SomeReasons == {"", "stop", "length", "refusal"}
=============================================================================
