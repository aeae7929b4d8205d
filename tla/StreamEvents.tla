---------------------------- MODULE StreamEvents ----------------------------
(***************************************************************************)
(* The events of an upstream response (CommandCodeEvent), with the fields  *)
(* that decide what becomes of them.  A text is a sequence of fragments,   *)
(* so that writing to a strings.Builder is concatenation; <<>> is an empty *)
(* or absent field.                                                        *)
(***************************************************************************)
EXTENDS Integers, Sequences

CONSTANTS Fragments,  \* pieces of text
          ToolIDs,    \* tool call IDs, each with its tool name
          Reasons     \* finish reasons, "" among them

\* A tool call.  Its input is absent or a JSON value: an object, a string, whose
\* text is the JSON of an object ("json") or no JSON, or anything else ("array").
Tool == [id : ToolIDs, input : {"nil", "object", "array", "json", "string"}]
NoTool == [id |-> "", input |-> "nil"]
NoUsage == -1

Event == [type   : {"text", "delta", "text-delta", "reasoning-delta",
                    "tool-call", "finish", "other"},
          text   : Seq(Fragments),
          delta  : Seq(Fragments),
          tool   : Tool \cup {NoTool},
          reason : Reasons,
          usage  : Nat \cup {NoUsage},   \* output tokens
          total  : Nat \cup {NoUsage}]   \* totalUsage

ASSUME EventAssumption == "" \in Reasons

TextDeltaContent(e) == IF e.text # <<>> THEN e.text ELSE e.delta

\* What handleText, handleDelta and handleTextDelta read.
TextOf(e) == CASE e.type = "text"       -> e.text
               [] e.type = "delta"      -> e.delta
               [] e.type = "text-delta" -> TextDeltaContent(e)
               [] OTHER                 -> <<>>

\* totalUsage is preferred to usage.
UsageOf(e) == IF e.total # NoUsage THEN e.total ELSE e.usage
=============================================================================
