---------------------------- MODULE ResponseModes ----------------------------
(***************************************************************************)
(* What a client gets for one and the same upstream response: the stream   *)
(* of AnthropicTranslator, in step with the other ways the proxy answers,  *)
(* which are functions of the events so far:                               *)
(*                                                                         *)
(*   CollectAnthropic  the non-streaming Messages response                 *)
(*   ChatChunks        the chunks of the OpenAITranslator                  *)
(*   CollectChat       the non-streaming Chat Completions response, from   *)
(*                     which the Responses endpoint builds its own         *)
(*   ResponsesEvents   the events of the streaming Responses endpoint      *)
(*                                                                         *)
(* AssembleBlocks and AssembleChat are the clients that put a streamed     *)
(* message back together.                                                  *)
(***************************************************************************)
EXTENDS AnthropicStream, SequencesExt

\* What every collector does with a finish event: the last finish reason and
\* usage that are there count.
Finish(acc, e) ==
    IF e.type # "finish" THEN acc
    ELSE [acc EXCEPT !.reason = IF e.reason # "" THEN e.reason ELSE @,
                     !.tokens = IF UsageOf(e) # NoUsage THEN UsageOf(e) ELSE @]
-----------------------------------------------------------------------------
(* The non-streaming Messages response. *)

Block(b, c) == [block |-> b, content |-> c]

flushText(acc) ==
    IF acc.text = <<>> THEN acc
    ELSE [acc EXCEPT !.content = Append(@, Block("text", TextContent(acc.text))),
                     !.text = <<>>]

flushReasoning(acc) ==
    IF acc.reasoning = <<>> THEN acc
    ELSE [acc EXCEPT !.content = Append(@, Block("thinking", TextContent(acc.reasoning))),
                     !.reasoning = <<>>]

CollectAnthropicEvent(acc, e) ==
    CASE e.type \in {"text", "delta", "text-delta"} ->
            [flushReasoning(acc) EXCEPT !.text = @ \o TextOf(e)]
      [] e.type = "reasoning-delta" ->
            [flushText(acc) EXCEPT !.reasoning = @ \o e.text]
      [] e.type = "tool-call" ->
            [flushText(flushReasoning(acc)) EXCEPT
                !.content = Append(@, Block("tool_use", InputMap(e.tool)))]
      [] OTHER -> Finish(acc, e)

CollectAnthropic(events) ==
    flushText(flushReasoning(
        FoldLeft(CollectAnthropicEvent,
                 [text |-> <<>>, reasoning |-> <<>>, content |-> <<>>,
                  reason |-> "stop", tokens |-> 0],
                 events)))

MapFinishReason(r) == CASE r = "length"                       -> "max_tokens"
                        [] r \in {"tool_calls", "tool-calls"} -> "tool_use"
                        [] r = "content_filter"               -> "stop_sequence"
                        [] OTHER                              -> "end_turn"
-----------------------------------------------------------------------------
(* Chat Completions. *)

Chunk(content, reasoning, tools, reason) ==
    [content |-> content, reasoning |-> reasoning, tools |-> tools, reason |-> reason]

\* A part of a tool call: its start carries the ID, what follows the arguments.
ToolPart(i, id, arguments) == [index |-> i, id |-> id, arguments |-> arguments]

\* ParseLine of the OpenAITranslator.  handleText sends a chunk even for an
\* empty text, which adds nothing to the message.
ChatChunks(e) ==
    CASE e.type = "text" \/ TextOf(e) # <<>> -> <<Chunk(TextOf(e), <<>>, <<>>, "")>>
      [] e.type = "reasoning-delta" /\ e.text # <<>> -> <<Chunk(<<>>, e.text, <<>>, "")>>
      [] e.type = "tool-call" ->
            << Chunk(<<>>, <<>>, <<ToolPart(0, e.tool.id, "")>>, ""),
               Chunk(<<>>, <<>>, <<ToolPart(0, "", ChatArguments(e.tool))>>, "") >>
      [] e.type = "finish" -> <<Chunk(<<>>, <<>>, <<>>, e.reason)>>
      [] OTHER -> <<>>

ChatStream(events) == FlattenSeq([i \in 1..Len(events) |-> ChatChunks(events[i])])

\* Mutant: only text-delta events are collected.
MutCollectChatEvent(acc, e) ==
    CASE e.type = "text-delta" -> [acc EXCEPT !.content = @ \o TextOf(e)]
      [] e.type = "reasoning-delta" -> [acc EXCEPT !.reasoning = @ \o e.text]
      [] e.type = "tool-call" ->
            [acc EXCEPT !.tools = Append(@, [id |-> e.tool.id,
                                             arguments |-> Arguments(e.tool)])]
      [] OTHER -> Finish(acc, e)

CollectChatEvent(acc, e) ==
    CASE e.type \in {"text", "delta", "text-delta"} ->
            [acc EXCEPT !.content = @ \o TextOf(e)]
      [] e.type = "reasoning-delta" -> [acc EXCEPT !.reasoning = @ \o e.text]
      [] e.type = "tool-call" ->
            [acc EXCEPT !.tools = Append(@, [id |-> e.tool.id,
                                             arguments |-> Arguments(e.tool)])]
      [] OTHER -> Finish(acc, e)

CollectChat(events) ==
    FoldLeft(CollectChatEvent,
             [content |-> <<>>, reasoning |-> <<>>, tools |-> <<>>,
              reason |-> "stop", tokens |-> 0],
             events)
-----------------------------------------------------------------------------
(* Responses. *)

\* What the JSON null prints as.
Nil == "<nil>"

\* fmt.Sprint(message.Content), in which the content of a message with tool
\* calls and no text is nil.
ResponsesText(chat) == IF chat.content = <<>> /\ chat.tools # <<>> THEN <<Nil>>
                                                                  ELSE chat.content

\* The output of BuildOpenAIResponseObject.
ResponsesOutput(text, tools) ==
    (IF text = <<>> THEN <<>> ELSE <<[type |-> "message", text |-> text]>>)
        \o [i \in 1..Len(tools) |-> [type |-> "function_call", call |-> tools[i]]]

ResponsesObject(events) == LET chat == CollectChat(events)
                           IN  ResponsesOutput(ResponsesText(chat), chat.tools)

\* Mutant: only text-delta events are passed on.
MutResponsesEvents(e) ==
    CASE e.type = "text-delta" /\ TextOf(e) # <<>> ->
            <<[type |-> "output_text.delta", delta |-> TextOf(e)]>>
      [] e.type = "tool-call" ->
            <<[type |-> "output_item.done",
               call |-> [id |-> e.tool.id, arguments |-> Arguments(e.tool)]]>>
      [] OTHER -> <<>>

\* The events of the stream between response.created and output_text.done.
ResponsesEvents(e) ==
    CASE TextOf(e) # <<>> -> <<[type |-> "output_text.delta", delta |-> TextOf(e)]>>
      [] e.type = "tool-call" ->
            <<[type |-> "output_item.done",
               call |-> [id |-> e.tool.id, arguments |-> Arguments(e.tool)]]>>
      [] OTHER -> <<>>

ResponsesStream(events) == FlattenSeq([i \in 1..Len(events) |-> ResponsesEvents(events[i])])

\* The output of the response that response.completed carries.
CompletedOutput(events) == ResponsesOutput(CollectChat(events).content, <<>>)
-----------------------------------------------------------------------------
(* The clients. *)

\* A Messages client: deltas of a text or thinking block are concatenated.
TextIn(c) == IF c[1] = "text" THEN c[2] ELSE <<>>

AssembleEvent(blocks, e) ==
    CASE e.type = "content_block_start" -> Append(blocks, Block(e.block, NoContent))
      [] e.type = "content_block_delta" ->
            [blocks EXCEPT ![e.index + 1].content =
                IF @ = NoContent THEN e.content
                ELSE TextContent(TextIn(@) \o TextIn(e.content))]
      [] OTHER -> blocks

AssembleBlocks(events) == FoldLeft(AssembleEvent, <<>>, events)

\* Text blocks next to each other, and thinking blocks, taken as one: where a
\* block is cut is not content.
Joins(x, y) == x.block = y.block /\ x.block \in {"text", "thinking"}
JoinBlock(acc, b) ==
    IF acc # <<>> /\ Joins(Last(acc), b)
    THEN [acc EXCEPT ![Len(acc)].content = TextContent(TextIn(@) \o TextIn(b.content))]
    ELSE Append(acc, b)

Join(blocks) == FoldLeft(JoinBlock, <<>>, blocks)

\* A Chat Completions client: the parts of a tool call have the same index.
AddParts(tools, parts) ==
    [i \in DOMAIN tools \cup {parts[j].index : j \in DOMAIN parts} |->
        (IF i \in DOMAIN tools THEN tools[i] ELSE <<>>)
            \o FlattenSeq([j \in DOMAIN parts |->
                              IF parts[j].index = i THEN <<parts[j]>> ELSE <<>>])]

AssembleChunk(message, c) ==
    [content   |-> message.content \o c.content,
     reasoning |-> message.reasoning \o c.reasoning,
     reason    |-> IF c.reason # "" THEN c.reason ELSE message.reason,
     tools     |-> AddParts(message.tools, c.tools)]

AssembleChat(chunks) ==
    FoldLeft(AssembleChunk,
             [content |-> <<>>, reasoning |-> <<>>, reason |-> "",
              tools |-> [i \in {} |-> <<>>]],
             chunks)

\* A Responses client: deltas are concatenated, calls come whole.
StreamedText(events) ==
    FlattenSeq([i \in DOMAIN events |->
        IF events[i].type = "output_text.delta" THEN events[i].delta ELSE <<>>])

StreamedCalls(events) ==
    FlattenSeq([i \in DOMAIN events |->
        IF events[i].type = "output_item.done" THEN <<events[i].call>> ELSE <<>>])

\* The parts that make one tool call.
PartsOf(id, arguments) == <<ToolPart(0, id, ""), ToolPart(0, "", arguments)>>
-----------------------------------------------------------------------------
(* Properties. *)

\* Where the two branches of Messages read an event differently.  Reasoning: the
\* stream takes it from `delta' if `text' is empty, the collector does not.
Spoken(e) == IF e.type = "reasoning-delta" THEN [e EXCEPT !.text = TextDeltaContent(e)] ELSE e
Heard(events) == [i \in DOMAIN events |-> Spoken(events[i])]

\* The input of a call: what is no object is sent as it is, and collected as {}.
AsObject(b) == IF \E id \in ToolIDs, s \in ToolTexts \ {"object", "{}"} :
                         b.content = <<"tool", id, s>>
               THEN [b EXCEPT !.content = <<"tool", @[2], "{}">>]
               ELSE b
AsObjects(blocks) == [i \in DOMAIN blocks |-> AsObject(blocks[i])]

\* Usage: outside of finish events only the stream counts it.
LastUsageInFinish ==
    \A i \in 1..Len(fed) :
        UsageOf(fed[i]) # NoUsage /\ fed[i].type # "finish" =>
            \E j \in (i + 1)..Len(fed) : fed[j].type = "finish" /\ UsageOf(fed[j]) # NoUsage

\* Several finishes: the stream reports the first, the collector the last.
FinishesAgree ==
    \A i, j \in 1..Len(fed) :
        i < j /\ fed[i].type = "finish" /\ fed[j].type = "finish" =>
            fed[j].reason \in {"", fed[i].reason}

UsagesAgree ==
    \A i, j \in 1..Len(fed) :
        i < j /\ fed[i].type = "finish" /\ fed[j].type = "finish" =>
            UsageOf(fed[j]) \in {NoUsage, UsageOf(fed[i])}

\* The stop reason and the tokens of message_delta.
FinishSent == out[CHOOSE i \in 1..Len(out) : out[i].type = "message_delta"].content
StopReasonSent   == FinishSent[2]
OutputTokensSent == FinishSent[3]

\* The reasons MapFinishReason knows.
KnownReasons == {"stop", "length", "tool_calls", "tool-calls", "content_filter"}

\* A Messages client that streams, and reads on after message_stop, gets the
\* content of the object, up to where text and thinking are cut into blocks, but
\* for reasoning that is in `delta' only, which it alone gets, and inputs that
\* are no objects, which the object has as {}.  If all finishes agree, it gets
\* the object's stop reason, but for a reason that the code does not know, which
\* it gets as it is and the object has as end_turn; and the object's output
\* tokens, or none where the object has 0.  The verdict on empty responses is the
\* same if usage that is no finish's is followed by a finish's.
MessagesModesAgree ==
    LET collected == CollectAnthropic(fed)
    IN  /\ Join(AsObjects(AssembleBlocks(out))) = Join(CollectAnthropic(Heard(fed)).content)
        /\ finished /\ FinishesAgree =>
              StopReasonSent = IF collected.reason \in KnownReasons
                               THEN MapFinishReason(collected.reason)
                               ELSE collected.reason
        /\ finished /\ UsagesAgree =>
              collected.tokens = IF OutputTokensSent = NoUsage THEN 0 ELSE OutputTokensSent
        /\ LastUsageInFinish => outputTokens = collected.tokens

\* A Chat Completions client gets the same text, reasoning and finish reason
\* whether it streams or not, and the same tool call if there is one and it has
\* an input (without one, its arguments are "null" or "{}").
ChatModesAgree ==
    LET streamed  == AssembleChat(ChatStream(fed))
        collected == CollectChat(fed)
    IN  /\ streamed.content = collected.content
        /\ streamed.reasoning = collected.reasoning
        /\ collected.reason = IF streamed.reason = "" THEN "stop" ELSE streamed.reason
        /\ (\E i \in 1..Len(fed) : fed[i].type = "tool-call")
               <=> DOMAIN streamed.tools # {}
        /\ Len(collected.tools) = 1 =>
              \E arguments \in {collected.tools[1].arguments}
                                 \cup (IF collected.tools[1].arguments = "{}"
                                       THEN {"null"} ELSE {}) :
                 streamed.tools[0] = PartsOf(collected.tools[1].id, arguments)

\* A Responses client that streams gets the text and the function calls that
\* the non-streaming response is made of, but for the printed nil that is the
\* text of one with calls and no text; and response.completed repeats the text
\* it was sent.
ResponsesModesAgree ==
    LET text  == StreamedText(ResponsesStream(fed))
        calls == StreamedCalls(ResponsesStream(fed))
    IN  /\ ResponsesObject(fed) =
              ResponsesOutput(IF text = <<>> /\ calls # <<>> THEN <<Nil>> ELSE text, calls)
        /\ CompletedOutput(fed) = ResponsesOutput(text, <<>>)

\* README: "Both compatible endpoints support tool calling in streaming and
\* non-streaming responses": a streaming client can tell two tool calls apart.
ToolCallsSeparate == Cardinality(DOMAIN AssembleChat(ChatStream(fed)).tools)
                         = Len(CollectChat(fed).tools)
=============================================================================
