--------------------------- MODULE MCConversation ---------------------------
(* Turns for Conversation. *)
EXTENDS Conversation

CONSTANTS a, b, error

Names == [i \in ToolIDs |-> IF i = "call1" THEN "lookup" ELSE "write"]

Systems == [kind : {"system"}, text : {<<a>>}, blocks : BOOLEAN]
           \cup [kind : {"system"}, text : {<<>>}, blocks : {FALSE}]

Users == {[kind |-> "user", text |-> <<a>>, image |-> FALSE, blocks |-> FALSE],
          [kind |-> "user", text |-> <<b>>, image |-> TRUE, blocks |-> TRUE],
          [kind |-> "user", text |-> <<>>, image |-> FALSE, blocks |-> FALSE]}

Answer(thinking, text, calls, stream, blocks) ==
    [kind |-> "answer", thinking |-> thinking, text |-> text, calls |-> calls,
     stream |-> stream, blocks |-> blocks]

One == <<[id |-> "call1", input |-> "object"]>>
Nil == <<[id |-> "call2", input |-> "nil"]>>
Held == <<[id |-> "call1", input |-> "json"]>>
Str == <<[id |-> "call2", input |-> "string"]>>
Arr == <<[id |-> "call1", input |-> "array"]>>

\* A streamed answer has one call at most: a Chat Completions client cannot tell
\* several apart (ToolCallsSeparate).
AllAnswers == {Answer(<<>>, <<a>>, <<>>, TRUE, FALSE),
               Answer(<<b>>, <<a, b>>, One, TRUE, FALSE),
               Answer(<<>>, <<>>, Nil, TRUE, FALSE),
               Answer(<<b>>, <<>>, One \o Nil, FALSE, FALSE),
               Answer(<<>>, <<b>>, Nil \o One, FALSE, TRUE),
               Answer(<<>>, <<>>, Held, TRUE, FALSE),
               Answer(<<>>, <<>>, Str, TRUE, TRUE),
               Answer(<<>>, <<a>>, Arr \o Str, FALSE, FALSE)}

Results == [kind : {"result"}, id : ToolIDs, text : {<<>>, <<a>>}, error : {FALSE},
            blocks : {FALSE}]
           \cup [kind : {"result"}, id : ToolIDs, text : {<<error, b>>}, error : BOOLEAN,
                 blocks : BOOLEAN]
Setting(choice, max) == [choice |-> choice, max |-> max]
SomeSettings == {Setting("nil", 0), Setting("auto", 200000), Setting("none", 1),
                 Setting("any", 200001), Setting("tool", 4096)}
=============================================================================
