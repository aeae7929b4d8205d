--------------------------- MODULE AnthropicStream ---------------------------
(***************************************************************************)
(* AnthropicTranslator: each event of the upstream response is translated  *)
(* by ParseLine into events of the Anthropic Messages API, which the loop  *)
(* of TranslateWithIdleTimeout writes one by one before it takes the next  *)
(* line.                                                                   *)
(***************************************************************************)
EXTENDS ToolInputs, FiniteSets

CONSTANTS Inputs,      \* the upstream events that may come
          MaxEvents    \* bound on their number

ASSUME StreamAssumption ==
    /\ \A e \in Inputs : e \in Event /\ (e.type = "tool-call" => e.tool \in Tool)
    /\ MaxEvents \in Nat

VARIABLES
    messageStarted, blockStarted, currentBlockType, currentBlockIndex,
    nextBlockIndex, finished,                              \* StreamContext
    outputTokens,
    fed,       \* the upstream events parsed
    out,       \* the events they were translated into
    written,   \* how many of these have been written
    returned   \* the loop has returned

context == <<messageStarted, blockStarted, currentBlockType, currentBlockIndex,
             nextBlockIndex, finished>>
vars == <<context, outputTokens, fed, out, written, returned>>

Init == /\ messageStarted = FALSE
        /\ blockStarted = FALSE
        /\ currentBlockType = ""
        /\ currentBlockIndex = 0
        /\ nextBlockIndex = 0
        /\ finished = FALSE
        /\ outputTokens = 0
        /\ fed = <<>>
        /\ out = <<>>
        /\ written = 0
        /\ returned = FALSE

\* What an event carries: text, a tool call, or a stop reason with the output
\* tokens, if they are known.
NoContent == <<"">>
TextContent(t)   == <<"text", t>>
StopReason(r, n) == <<"stop", r, n>>

SSEEvent(type, index, block, content) ==
    [type |-> type, index |-> index, block |-> block, content |-> content]

MessageStart       == SSEEvent("message_start", -1, "", NoContent)
Start(i, b)        == SSEEvent("content_block_start", i, b, NoContent)
BlockDelta(i, b, c) == SSEEvent("content_block_delta", i, b, c)
BlockStop(i)       == SSEEvent("content_block_stop", i, "", NoContent)
MessageDelta(r, n) == SSEEvent("message_delta", -1, "", StopReason(r, n))
MessageStop        == SSEEvent("message_stop", -1, "", NoContent)

mapAnthropicStreamStopReason(r) ==
    CASE r \in {"tool_calls", "tool-calls"} -> "tool_use"
      [] r = "length"                       -> "max_tokens"
      [] r = "content_filter"               -> "stop_sequence"
      [] r \in {"stop", ""}                 -> "end_turn"
      [] OTHER                              -> r
-----------------------------------------------------------------------------
(* ParseLine. *)

\* withMessageStart, and the append of its result.
Emit(events) ==
    /\ out' = out \o (IF messageStarted \/ events = <<>> THEN events
                                                        ELSE <<MessageStart>> \o events)
    /\ messageStarted' = (messageStarted \/ events # <<>>)

\* The next line is read when all that came of the last one is written.
Take(e) ==
    /\ ~returned
    /\ written = Len(out)
    /\ Len(fed) < MaxEvents
    /\ fed' = Append(fed, e)
    /\ outputTokens' = IF UsageOf(e) # NoUsage THEN UsageOf(e) ELSE outputTokens
    /\ UNCHANGED <<written, returned>>

\* closeTextBlock: a text or thinking block is open.
Closes == blockStarted /\ currentBlockType \in {"text", "thinking"}
closeTextBlock == IF Closes THEN <<BlockStop(currentBlockIndex)>> ELSE <<>>

\* A new block of type b, with its first delta, after the one that is open.
Open(b, t) == /\ currentBlockIndex' = nextBlockIndex
              /\ nextBlockIndex' = nextBlockIndex + 1
              /\ currentBlockType' = b
              /\ blockStarted' = TRUE
              /\ Emit(closeTextBlock \o <<Start(nextBlockIndex, b),
                         BlockDelta(nextBlockIndex, b, TextContent(t))>>)

\* One more delta of the open block.
Continue(t) == /\ Emit(<<BlockDelta(currentBlockIndex, currentBlockType,
                                    TextContent(t))>>)
               /\ UNCHANGED <<blockStarted, currentBlockType, currentBlockIndex,
                              nextBlockIndex>>

\* Mutant: text that follows thinking goes into the thinking block.
MutTextDelta(e) ==
    /\ TextOf(e) # <<>>
    /\ Take(e)
    /\ IF ~blockStarted THEN Open("text", TextOf(e)) ELSE Continue(TextOf(e))
    /\ UNCHANGED finished

handleTextContentDelta(e) ==
    /\ TextOf(e) # <<>>
    /\ Take(e)
    /\ IF ~blockStarted \/ currentBlockType # "text"
       THEN Open("text", TextOf(e))
       ELSE Continue(TextOf(e))
    /\ UNCHANGED finished

\* closeTextBlock has always closed the block by the time the code asks
\* whether to open one.
handleReasoningDelta(e) ==
    /\ e.type = "reasoning-delta"
    /\ TextDeltaContent(e) # <<>>
    /\ Take(e)
    /\ Open("thinking", TextDeltaContent(e))
    /\ UNCHANGED finished

handleToolCall(e) ==
    /\ e.type = "tool-call"
    /\ Take(e)
    /\ LET i == nextBlockIndex
       IN  Emit(closeTextBlock \o
                <<Start(i, "tool_use"), BlockDelta(i, "tool_use", ToolContent(e.tool)),
                  BlockStop(i)>>)
    /\ IF Closes THEN blockStarted' = FALSE /\ currentBlockType' = ""
                 ELSE UNCHANGED <<blockStarted, currentBlockType>>
    /\ nextBlockIndex' = nextBlockIndex + 1
    /\ UNCHANGED <<currentBlockIndex, finished>>

\* The stop reason and usage of this finish, and the end of the message.
FinishEvents(e) == <<MessageDelta(mapAnthropicStreamStopReason(e.reason), UsageOf(e)),
                     MessageStop>>

\* Mutant: the test of `finished' is missing.
MutFinish(e) ==
    /\ e.type = "finish"
    /\ Take(e)
    /\ finished' = TRUE
    /\ Emit(closeTextBlock \o FinishEvents(e))
    /\ IF Closes THEN blockStarted' = FALSE /\ currentBlockType' = ""
                 ELSE UNCHANGED <<blockStarted, currentBlockType>>
    /\ UNCHANGED <<currentBlockIndex, nextBlockIndex>>

\* finish and finish-step.
handleFinish(e) ==
    /\ e.type = "finish"
    /\ ~finished
    /\ Take(e)
    /\ finished' = TRUE
    /\ Emit(closeTextBlock \o FinishEvents(e))
    /\ IF Closes THEN blockStarted' = FALSE /\ currentBlockType' = ""
                 ELSE UNCHANGED <<blockStarted, currentBlockType>>
    /\ UNCHANGED <<currentBlockIndex, nextBlockIndex>>

\* Events of which nothing comes: other types, empty deltas, a second finish.
Nothing(e) ==
    \/ e.type = "other"
    \/ e.type \in {"text", "delta", "text-delta"} /\ TextOf(e) = <<>>
    \/ e.type = "reasoning-delta" /\ TextDeltaContent(e) = <<>>
    \/ e.type = "finish" /\ finished

Ignore(e) == /\ Nothing(e)
             /\ Take(e)
             /\ UNCHANGED <<context, out>>
-----------------------------------------------------------------------------
(* The loop. *)

\* writeSSEEvent
Write == /\ ~returned
         /\ written < Len(out)
         /\ written' = written + 1
         /\ UNCHANGED <<context, outputTokens, fed, out, returned>>

\* A write fails, or there is no further line: the body has ended, went idle
\* or could not be parsed.
Return == /\ ~returned
          /\ returned' = TRUE
          /\ UNCHANGED <<context, outputTokens, fed, out, written>>

ParseLine(e) == \/ handleTextContentDelta(e) \/ handleReasoningDelta(e)
                \/ handleToolCall(e) \/ handleFinish(e) \/ Ignore(e)

Next == \/ \E e \in Inputs : ParseLine(e)
        \/ Write
        \/ Return

Spec == Init /\ [][Next]_vars
-----------------------------------------------------------------------------
(* Properties. *)

Content == {NoContent} \cup ({"text"} \X Seq(Fragments))
           \cup ({"tool"} \X ToolIDs \X ToolTexts)
           \cup ({"stop"} \X {mapAnthropicStreamStopReason(r) : r \in Reasons}
                             \X (Nat \cup {NoUsage}))

\* What the client has received.
sse == SubSeq(out, 1, written)

Wire == INSTANCE AnthropicWire WITH Content <- Content, sse <- sse

TypeOK == /\ messageStarted \in BOOLEAN
          /\ blockStarted \in BOOLEAN
          /\ currentBlockType \in {"", "text", "thinking"}
          /\ currentBlockIndex \in Nat
          /\ nextBlockIndex \in Nat
          /\ finished \in BOOLEAN
          /\ outputTokens \in Nat
          /\ fed \in Seq(Inputs)
          /\ out \in Seq(Wire!WireEvent)
          /\ written \in 0..Len(out)
          /\ returned \in BOOLEAN

\* However text, thinking, tool calls and finishes alternate, and wherever the
\* stream is cut, the client receives one message_start, then well-formed
\* blocks, each with a number of its own, and message_delta and message_stop
\* once.  The blocks of what follows the first finish, as the later steps of a
\* response of several do, come after message_stop: no handler but handleFinish
\* looks at `finished'.
RefinesAnthropicWire == Wire!Spec
=============================================================================
