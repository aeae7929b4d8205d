---------------------------- MODULE AnthropicWire ----------------------------
(***************************************************************************)
(* The order in which a client of the Anthropic Messages API may receive   *)
(* the events of a streamed message: message_start, then content blocks    *)
(* one after the other, numbered from 0, each with its deltas, and once    *)
(* message_delta with message_stop.  A stream may be cut anywhere.  Blocks *)
(* may also come after message_stop, which the API does not know: their    *)
(* numbers go on.                                                          *)
(***************************************************************************)
EXTENDS Integers, Sequences

CONSTANT Content   \* what the events carry

VARIABLE sse

\* index and block are -1 and "" in events that belong to no content block;
\* block is also "" in content_block_stop.
WireEvent == [type    : {"message_start", "content_block_start",
                         "content_block_delta", "content_block_stop",
                         "message_delta", "message_stop"},
              index   : Int,
              block   : {"text", "thinking", "tool_use", ""},
              content : Content]

\* No block is open after e.
Between(e) == e.type \in {"message_start", "content_block_stop", "message_stop"}

\* n is the number of the next block: one more than that of any event so far.
IsNext(n, s) == /\ \A i \in 1..Len(s) : s[i].index < n
                /\ \E i \in 1..Len(s) : s[i].index = n - 1

\* f may be the next event after s.
Follows(s, f) ==
    LET e == s[Len(s)]
    IN  \/ /\ f.type = "content_block_start"
           /\ Between(e)
           /\ IsNext(f.index, s)
        \/ /\ f.type = "content_block_delta"
           /\ e.type \in {"content_block_start", "content_block_delta"}
           /\ f.index = e.index
           /\ f.block = e.block
        \/ /\ f.type = "content_block_stop"
           /\ e.type = "content_block_delta"
           /\ f.index = e.index
        \/ /\ f.type = "message_delta"
           /\ Between(e)
           /\ \A i \in 1..Len(s) : s[i].type # "message_delta"
        \/ f.type = "message_stop" /\ e.type = "message_delta"

Init == sse = <<>>

Next == /\ Len(sse') = Len(sse) + 1
        /\ LET e == sse'[Len(sse) + 1]
           IN  /\ sse' = Append(sse, e)
               /\ e \in WireEvent
               /\ IF sse = <<>> THEN e.type = "message_start" ELSE Follows(sse, e)

Spec == Init /\ [][Next]_sse
=============================================================================
