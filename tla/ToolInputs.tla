----------------------------- MODULE ToolInputs -----------------------------
(***************************************************************************)
(* What the four ways of answering make of the input of an upstream tool   *)
(* call.                                                                   *)
(***************************************************************************)
EXTENDS StreamEvents

\* The texts inputs are sent as.
ToolTexts == {"{}", "object", "array", "literal", "json-literal"}

\* AnthropicTranslator: json.Marshal of the input, an empty object if there is
\* none.  A string becomes a JSON string literal.
ToolContent(t) == <<"tool", t.id, CASE t.input = "nil"    -> "{}"
                                    [] t.input = "json"   -> "json-literal"
                                    [] t.input = "string" -> "literal"
                                    [] OTHER              -> t.input>>

\* The collector of Messages: the input as a map.  What is no object leaves it
\* empty.
InputMap(t) == <<"tool", t.id, IF t.input = "object" THEN "object" ELSE "{}">>

\* Mutant: an input that is no string is lost.
MutChatArguments(t) == IF t.input \in {"json", "string"} THEN t.input ELSE "{}"

\* OpenAITranslator: a string is passed on, nil is marshalled.
ChatArguments(t) == IF t.input = "nil" THEN "null" ELSE t.input

\* The collector of Chat Completions and both modes of Responses.
Arguments(t) == IF t.input = "nil" THEN "{}" ELSE t.input
=============================================================================
