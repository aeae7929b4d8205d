------------------------ MODULE ResponseModes_proofs ------------------------
(***************************************************************************)
(* Proofs about AnthropicStream and ResponseModes, for upstream responses  *)
(* of every length and with every text, tool call, usage and finish        *)
(* reason, in any order: what AnthropicTranslator writes are the events of *)
(* one message of the Messages API, in order and with the blocks that      *)
(* follow its end, and a client of any of the three APIs gets the same     *)
(* whether it streams or not, but for what MessagesModesAgree,             *)
(* ChatModesAgree and ResponsesModesAgree name.                            *)
(*                                                                         *)
(* The collectors and the clients are folds; SequenceLemmas says how a     *)
(* fold over events of every number is reasoned about.                     *)
(***************************************************************************)
EXTENDS ResponseModes, SequenceLemmas, TLAPS
-----------------------------------------------------------------------------
(* The stream of AnthropicTranslator. *)

WireEvent == Wire!WireEvent

\* e may be the next event after s.
Grows(s, e) == IF s = <<>> THEN e.type = "message_start" ELSE Wire!Follows(s, e)

\* A beginning of a message.
Valid(s) == /\ s \in Seq(WireEvent)
            /\ \A i \in 1..Len(s) : Grows(SubSeq(s, 1, i - 1), s[i])

\* No block is open, and the next one has the number n.
Ready(s, n) == /\ s # <<>>
               /\ Wire!Between(s[Len(s)])
               /\ Wire!IsNext(n, s)

\* Block i of type b is open.
Opened(s, i, b) == /\ s # <<>>
                   /\ s[Len(s)].type \in {"content_block_start", "content_block_delta"}
                   /\ s[Len(s)].index = i
                   /\ s[Len(s)].block = b
                   /\ Wire!IsNext(i + 1, s)

\* It has a delta.
InBlock(s, i, b) == Opened(s, i, b) /\ s[Len(s)].type = "content_block_delta"

\* The message has not ended.
Unfinished(s) == \A i \in 1..Len(s) : s[i].type # "message_delta"

\* StreamContext describes the end of what was translated.
Position ==
    /\ messageStarted <=> out # <<>>
    /\ out = <<>> => nextBlockIndex = 0 /\ ~blockStarted /\ ~finished
    /\ blockStarted => /\ currentBlockType \in {"text", "thinking"}
                       /\ nextBlockIndex = currentBlockIndex + 1
                       /\ InBlock(out, currentBlockIndex, currentBlockType)
    /\ out # <<>> /\ ~blockStarted => Ready(out, nextBlockIndex)
    /\ ~finished => Unfinished(out)

\* The inductive invariant.
IInv == TypeOK /\ Valid(out) /\ Position
-----------------------------------------------------------------------------
(* Sequences of events. *)

\* A beginning of a message, and one more event.
LEMMA Extend ==
    ASSUME NEW s, Valid(s), NEW e \in WireEvent, Grows(s, e)
    PROVE  LET u == Append(s, e)
           IN  /\ Valid(u) /\ u # <<>> /\ Len(u) = Len(s) + 1 /\ u[Len(u)] = e
               /\ \A i \in 1..Len(s) : u[i] = s[i]
  <1> DEFINE u == Append(s, e)
             n == Len(s)
  <1>1. s \in Seq(WireEvent) /\ n \in Nat
    BY LenProperties DEF Valid
  <1>2. /\ u \in Seq(WireEvent) /\ u # <<>> /\ Len(u) = n + 1
        /\ (\A i \in 1..n : u[i] = s[i]) /\ u[n + 1] = e
    BY <1>1, AppendProperties
  <1>3. \A i \in 1..n : s[i] \in WireEvent
    BY <1>1, ElementOfSeq
  <1>4. SubSeq(s, 1, n) = s
    BY <1>1, SubSeqFull
  <1> HIDE DEF u, n
  <1>5. ASSUME NEW j \in 0..n PROVE SubSeq(u, 1, j) = SubSeq(s, 1, j)
    <2> DEFINE x == SubSeq(u, 1, j)
               y == SubSeq(s, 1, j)
    <2>1. \A i \in 1..j : u[i] \in WireEvent /\ s[i] \in WireEvent /\ u[i] = s[i]
      BY <1>1, <1>2, <1>3
    <2>2. x \in Seq(WireEvent) /\ Len(x) = j /\ \A i \in 1..j : x[i] = u[i]
      BY <1>1, <2>1, SubSeqProperties
    <2>3. y \in Seq(WireEvent) /\ Len(y) = j /\ \A i \in 1..j : y[i] = s[i]
      BY <1>1, <2>1, SubSeqProperties
    <2> HIDE DEF x, y
    <2>4. x = y
      BY <2>1, <2>2, <2>3, SeqEqual
    <2>5. QED
      BY <2>4 DEF x, y
  <1>6. ASSUME NEW i \in 1..(n + 1) PROVE Grows(SubSeq(u, 1, i - 1), u[i])
    <2>1. i - 1 \in 0..n
      BY <1>1
    <2>2. SubSeq(u, 1, i - 1) = SubSeq(s, 1, i - 1)
      BY <1>5, <2>1
    <2>3. CASE i = n + 1
      <3>1. SubSeq(s, 1, i - 1) = s
        BY <1>1, <1>4, <2>3
      <3>2. QED
        BY <1>2, <2>2, <2>3, <3>1
    <2>4. CASE i # n + 1
      <3>1. i \in 1..n
        BY <1>1, <2>4
      <3>2. u[i] = s[i] /\ Grows(SubSeq(s, 1, i - 1), s[i])
        BY <1>2, <3>1 DEF Valid, n
      <3>3. QED
        BY <2>2, <3>2
    <2>5. QED
      BY <2>3, <2>4
  <1>7. QED
    BY <1>2, <1>6 DEF Valid, n, u

\* The number of the next block after an event of the last one, or of none.
LEMMA NextAfter ==
    ASSUME NEW s \in Seq(WireEvent), NEW e \in WireEvent, NEW n \in Nat, Wire!IsNext(n, s)
    PROVE  /\ e.index = n => Wire!IsNext(n + 1, Append(s, e))
           /\ e.index < n => Wire!IsNext(n, Append(s, e))
  <1> DEFINE u == Append(s, e)
             l == Len(s)
  <1>1. l \in Nat /\ Len(u) = l + 1 /\ (\A i \in 1..l : u[i] = s[i]) /\ u[l + 1] = e
    BY AppendProperties, LenProperties
  <1>2. \A x \in WireEvent : x.index \in Int
    BY DEF WireEvent, Wire!WireEvent
  <1>3. (\A i \in 1..l : s[i].index \in Int) /\ e.index \in Int
    BY <1>2, ElementOfSeq
  <1>4. (\A i \in 1..l : s[i].index < n) /\ \E i \in 1..l : s[i].index = n - 1
    BY DEF Wire!IsNext
  <1> HIDE DEF u, l
  <1>5. ASSUME e.index = n PROVE Wire!IsNext(n + 1, u)
    <2>1. \A i \in 1..Len(u) : u[i].index < n + 1
      BY <1>1, <1>3, <1>4, <1>5
    <2>2. l + 1 \in 1..Len(u) /\ u[l + 1].index = (n + 1) - 1
      BY <1>1, <1>5
    <2>3. QED
      BY <2>1, <2>2 DEF Wire!IsNext
  <1>6. ASSUME e.index < n PROVE Wire!IsNext(n, u)
    <2>1. \A i \in 1..Len(u) : u[i].index < n
      BY <1>1, <1>4, <1>6
    <2>2. \E i \in 1..Len(u) : u[i].index = n - 1
      BY <1>1, <1>4
    <2>3. QED
      BY <2>1, <2>2 DEF Wire!IsNext
  <1>7. QED
    BY <1>5, <1>6 DEF u

(* What the events carry. *)

\* The events of a content block.
LEMMA BlockTypes ==
    ASSUME NEW t \in {"content_block_start", "content_block_delta"}, NEW i \in Nat,
           NEW b \in {"text", "thinking", "tool_use"}, NEW c \in Content
    PROVE  SSEEvent(t, i, b, c) \in WireEvent
  <1>1. b \in {"text", "thinking", "tool_use", ""}
    OBVIOUS
  <1>2. i \in Int
    OBVIOUS
  <1>3. [type |-> t, index |-> i, block |-> b, content |-> c] \in WireEvent
    BY <1>1, <1>2 DEF WireEvent, Wire!WireEvent
  <1>4. QED
    BY <1>3 DEF SSEEvent

\* Every event that is emitted is one a client knows.
LEMMA EventTypes ==
    /\ NoContent \in Content
    /\ \A t \in Seq(Fragments) : TextContent(t) \in Content
    /\ \A t \in Tool : ToolContent(t) \in Content
    /\ \A r \in Reasons, n \in Nat \cup {NoUsage} :
          StopReason(mapAnthropicStreamStopReason(r), n) \in Content
    /\ MessageStart \in WireEvent /\ MessageStop \in WireEvent
    /\ \A i \in Nat : BlockStop(i) \in WireEvent
    /\ \A i \in Nat, b \in {"text", "thinking", "tool_use"} :
          /\ Start(i, b) \in WireEvent
          /\ \A c \in Content : BlockDelta(i, b, c) \in WireEvent
    /\ \A r \in Reasons, n \in Nat \cup {NoUsage} :
          MessageDelta(mapAnthropicStreamStopReason(r), n) \in WireEvent
  <1>1. NoContent \in Content
    BY DEF Content
  <1>2. ASSUME NEW t \in Seq(Fragments) PROVE TextContent(t) \in Content
    BY DEF Content, TextContent
  <1>3. ASSUME NEW t \in Tool PROVE ToolContent(t) \in Content
    <2>1. t.id \in ToolIDs /\ t.input \in {"nil", "object", "array", "json", "string"}
      BY DEF Tool
    <2>2. ToolContent(t) \in {"tool"} \X ToolIDs \X ToolTexts
      BY <2>1 DEF ToolContent, ToolTexts
    <2>3. QED
      BY <2>2 DEF Content
  <1>4. ASSUME NEW r \in Reasons, NEW n \in Nat \cup {NoUsage}
        PROVE  StopReason(mapAnthropicStreamStopReason(r), n) \in Content
    BY DEF Content, StopReason
  <1>5. MessageStart \in WireEvent /\ MessageStop \in WireEvent
    BY <1>1 DEF MessageStart, MessageStop, SSEEvent, WireEvent, Wire!WireEvent
  <1>6. ASSUME NEW i \in Nat PROVE BlockStop(i) \in WireEvent
    BY <1>1 DEF BlockStop, SSEEvent, WireEvent, Wire!WireEvent
  <1>7. ASSUME NEW i \in Nat, NEW b \in {"text", "thinking", "tool_use"}
        PROVE  /\ Start(i, b) \in WireEvent
               /\ \A c \in Content : BlockDelta(i, b, c) \in WireEvent
    BY <1>1, BlockTypes DEF Start, BlockDelta
  <1>8. ASSUME NEW r \in Reasons, NEW n \in Nat \cup {NoUsage}
        PROVE  MessageDelta(mapAnthropicStreamStopReason(r), n) \in WireEvent
    BY <1>4 DEF MessageDelta, SSEEvent, WireEvent, Wire!WireEvent
  <1>9. QED
    BY <1>1, <1>2, <1>3, <1>4, <1>5, <1>6, <1>7, <1>8

\* The texts of an upstream event.
LEMMA TextTypes ==
    ASSUME NEW e \in Inputs
    PROVE  TextOf(e) \in Seq(Fragments) /\ TextDeltaContent(e) \in Seq(Fragments)
  <1>1. e.text \in Seq(Fragments) /\ e.delta \in Seq(Fragments)
    BY StreamAssumption DEF Event
  <1>2. <<>> \in Seq(Fragments)
    OBVIOUS
  <1>3. QED
    BY <1>1, <1>2 DEF TextOf, TextDeltaContent

\* The tokens of an upstream event.
LEMMA UsageTypes ==
    ASSUME NEW e \in Inputs, UsageOf(e) # NoUsage
    PROVE  UsageOf(e) \in Nat
  BY StreamAssumption DEF UsageOf, Event
-----------------------------------------------------------------------------
(* What the handlers append. *)

\* One event.
LEMMA Single == ASSUME NEW e \in WireEvent PROVE <<e>> \in Seq(WireEvent) /\ <<e>> # <<>>
  OBVIOUS

\* message_start.
LEMMA FirstEvent ==
    LET u == <<MessageStart>> IN Valid(u) /\ Ready(u, 0) /\ Unfinished(u) /\ u \in Seq(WireEvent)
  <1> DEFINE z == <<>>
             u == Append(z, MessageStart)
             v == <<MessageStart>>
  <1>1. MessageStart \in WireEvent
    BY EventTypes
  <1>2. MessageStart.type = "message_start" /\ MessageStart.index = -1
    BY DEF MessageStart, SSEEvent
  <1>3. z \in Seq(WireEvent) /\ Len(z) = 0 /\ Valid(z) /\ Grows(z, MessageStart)
    BY <1>2, EmptySeq DEF Valid, Grows
  <1>4. u = v
    OBVIOUS
  <1> HIDE DEF v, z
  <1>5. Valid(u) /\ u # <<>> /\ Len(u) = 1 /\ u[1] = MessageStart
    <2>1. Valid(u) /\ u # <<>> /\ Len(u) = Len(z) + 1 /\ u[Len(u)] = MessageStart
      BY <1>1, <1>3, Extend
    <2>2. Len(z) + 1 = 1
      BY <1>3
    <2>3. QED
      BY <2>1, <2>2
  <1> HIDE DEF u
  <1>6. Wire!IsNext(0, u)
    BY <1>2, <1>5 DEF Wire!IsNext
  <1>7. QED
    BY <1>2, <1>4, <1>5, <1>6 DEF Ready, Wire!Between, Unfinished, Valid, v

\* The message has not ended if the one more event does not end it.
LEMMA StillUnfinished ==
    ASSUME NEW s \in Seq(WireEvent), NEW e \in WireEvent, e.type # "message_delta", Unfinished(s)
    PROVE  Unfinished(Append(s, e))
  <1> DEFINE u == Append(s, e)
             l == Len(s)
  <1>1. l \in Nat /\ Len(u) = l + 1 /\ (\A i \in 1..l : u[i] = s[i]) /\ u[l + 1] = e
    BY AppendProperties, LenProperties
  <1> HIDE DEF u
  <1>2. QED
    BY <1>1 DEF Unfinished, u

\* A block is opened.
LEMMA BlockStart ==
    ASSUME NEW s, NEW n \in Nat, Valid(s), Ready(s, n), NEW b \in {"text", "thinking", "tool_use"}
    PROVE  LET u == Append(s, Start(n, b))
           IN  Valid(u) /\ Opened(u, n, b) /\ (Unfinished(s) => Unfinished(u))
  <1> DEFINE e == Start(n, b)
             u == Append(s, e)
  <1>1. e \in WireEvent /\ s \in Seq(WireEvent) /\ s # <<>>
    BY EventTypes DEF Valid, Ready
  <1>2. e.type = "content_block_start" /\ e.index = n /\ e.block = b
    BY DEF Start, SSEEvent
  <1> HIDE DEF e
  <1>3. Grows(s, e)
    BY <1>1, <1>2 DEF Grows, Ready, Wire!Follows
  <1>4. Valid(u) /\ u # <<>> /\ u[Len(u)] = e
    BY <1>1, <1>3, Extend
  <1>5. Wire!IsNext(n + 1, u)
    BY <1>1, <1>2, NextAfter DEF Ready
  <1>6. Unfinished(s) => Unfinished(u)
    BY <1>1, <1>2, StillUnfinished
  <1>7. QED
    BY <1>2, <1>4, <1>5, <1>6 DEF Opened, e

\* A delta of the open block.
LEMMA DeltaEvent ==
    ASSUME NEW s, NEW n \in Nat, NEW b \in {"text", "thinking", "tool_use"}, NEW c \in Content,
           Valid(s), Opened(s, n, b)
    PROVE  LET u == Append(s, BlockDelta(n, b, c))
           IN  Valid(u) /\ InBlock(u, n, b) /\ (Unfinished(s) => Unfinished(u))
  <1> DEFINE e == BlockDelta(n, b, c)
             u == Append(s, e)
  <1>1. e \in WireEvent /\ s \in Seq(WireEvent) /\ s # <<>>
    BY EventTypes DEF Valid, Opened
  <1>2. e.type = "content_block_delta" /\ e.index = n /\ e.block = b
    BY DEF BlockDelta, SSEEvent
  <1> HIDE DEF e
  <1>3. Grows(s, e)
    BY <1>1, <1>2 DEF Grows, Opened, Wire!Follows
  <1>4. Valid(u) /\ u # <<>> /\ u[Len(u)] = e
    BY <1>1, <1>3, Extend
  <1>5. n + 1 \in Nat /\ Wire!IsNext(n + 1, s) /\ e.index < n + 1
    BY <1>2 DEF Opened
  <1>6. Wire!IsNext(n + 1, u)
    BY <1>1, <1>5, NextAfter
  <1>7. Unfinished(s) => Unfinished(u)
    BY <1>1, <1>2, StillUnfinished
  <1>8. QED
    BY <1>2, <1>4, <1>6, <1>7 DEF InBlock, Opened, e

\* The open block is closed.
LEMMA StopEvent ==
    ASSUME NEW s, NEW n \in Nat, NEW b, Valid(s), InBlock(s, n, b)
    PROVE  LET u == Append(s, BlockStop(n))
           IN  Valid(u) /\ Ready(u, n + 1) /\ (Unfinished(s) => Unfinished(u))
  <1> DEFINE e == BlockStop(n)
             u == Append(s, e)
  <1>1. e \in WireEvent /\ s \in Seq(WireEvent) /\ s # <<>>
    BY EventTypes DEF Valid, InBlock, Opened
  <1>2. e.type = "content_block_stop" /\ e.index = n
    BY DEF BlockStop, SSEEvent
  <1> HIDE DEF e
  <1>3. Grows(s, e)
    BY <1>1, <1>2 DEF Grows, InBlock, Opened, Wire!Follows
  <1>4. Valid(u) /\ u # <<>> /\ u[Len(u)] = e
    BY <1>1, <1>3, Extend
  <1>5. n + 1 \in Nat /\ Wire!IsNext(n + 1, s) /\ e.index < n + 1
    BY <1>2 DEF InBlock, Opened
  <1>6. Wire!IsNext(n + 1, u)
    BY <1>1, <1>5, NextAfter
  <1>7. Unfinished(s) => Unfinished(u)
    BY <1>1, <1>2, StillUnfinished
  <1>8. QED
    BY <1>2, <1>4, <1>6, <1>7 DEF Ready, Wire!Between, e

\* A block with its first delta.
LEMMA NewBlock ==
    ASSUME NEW s, NEW n \in Nat, Valid(s), Ready(s, n),
           NEW b \in {"text", "thinking"}, NEW c \in Content
    PROVE  LET u == s \o <<Start(n, b), BlockDelta(n, b, c)>>
           IN  Valid(u) /\ InBlock(u, n, b) /\ (Unfinished(s) => Unfinished(u))
  <1>1. /\ Start(n, b) \in WireEvent /\ BlockDelta(n, b, c) \in WireEvent
        /\ s \in Seq(WireEvent)
    BY EventTypes DEF Valid
  <1>2. s \o <<Start(n, b), BlockDelta(n, b, c)>>
            = Append(Append(s, Start(n, b)), BlockDelta(n, b, c))
    BY <1>1, TwoMore
  <1> DEFINE t == Append(s, Start(n, b))
  <1>3. Valid(t) /\ Opened(t, n, b) /\ (Unfinished(s) => Unfinished(t))
    BY BlockStart
  <1> HIDE DEF t
  <1>4. LET u == Append(t, BlockDelta(n, b, c))
        IN  Valid(u) /\ InBlock(u, n, b) /\ (Unfinished(t) => Unfinished(u))
    BY <1>3, DeltaEvent
  <1>5. QED
    BY <1>2, <1>3, <1>4 DEF t

\* One more delta of the open block.
LEMMA MoreOfBlock ==
    ASSUME NEW s, NEW n \in Nat, NEW b \in {"text", "thinking"}, NEW c \in Content,
           Valid(s), InBlock(s, n, b)
    PROVE  LET u == s \o <<BlockDelta(n, b, c)>>
           IN  Valid(u) /\ InBlock(u, n, b) /\ (Unfinished(s) => Unfinished(u))
  <1>1. BlockDelta(n, b, c) \in WireEvent /\ s \in Seq(WireEvent)
    BY EventTypes DEF Valid
  <1>2. s \o <<BlockDelta(n, b, c)>> = Append(s, BlockDelta(n, b, c))
    BY <1>1, AppendIsConcat
  <1>3. Opened(s, n, b)
    BY DEF InBlock
  <1>4. QED
    BY <1>2, <1>3, DeltaEvent

\* A tool call, whole.
LEMMA ToolBlock ==
    ASSUME NEW s, NEW n \in Nat, Valid(s), Ready(s, n), NEW c \in Content
    PROVE  LET u == s \o <<Start(n, "tool_use"), BlockDelta(n, "tool_use", c),
                           BlockStop(n)>>
           IN  Valid(u) /\ Ready(u, n + 1) /\ (Unfinished(s) => Unfinished(u))
  <1> DEFINE e == Start(n, "tool_use")
             d == BlockDelta(n, "tool_use", c)
             f == BlockStop(n)
  <1>1. e \in WireEvent /\ d \in WireEvent /\ f \in WireEvent /\ s \in Seq(WireEvent)
    BY EventTypes DEF Valid
  <1>2. s \o <<e, d, f>> = Append(Append(Append(s, e), d), f)
    BY <1>1, ThreeMore
  <1>3. LET t == Append(s, e)
        IN  Valid(t) /\ Opened(t, n, "tool_use") /\ (Unfinished(s) => Unfinished(t))
    BY BlockStart
  <1>4. LET t == Append(Append(s, e), d)
        IN  Valid(t) /\ InBlock(t, n, "tool_use") /\ (Unfinished(s) => Unfinished(t))
    BY <1>3, DeltaEvent
  <1>5. LET t == Append(Append(Append(s, e), d), f)
        IN  Valid(t) /\ Ready(t, n + 1) /\ (Unfinished(s) => Unfinished(t))
    BY <1>4, StopEvent
  <1>6. QED
    BY <1>2, <1>5

\* The end of the message, after which more blocks may come.
LEMMA MessageEnd ==
    ASSUME NEW s, NEW n \in Nat, Valid(s), Ready(s, n), Unfinished(s),
           NEW r \in Reasons, NEW k \in Nat \cup {NoUsage}
    PROVE  LET u == s \o <<MessageDelta(mapAnthropicStreamStopReason(r), k), MessageStop>>
           IN  Valid(u) /\ Ready(u, n)
  <1> DEFINE e == MessageDelta(mapAnthropicStreamStopReason(r), k)
             f == MessageStop
             t == Append(s, e)
             u == Append(t, f)
  <1>1. e \in WireEvent /\ f \in WireEvent /\ s \in Seq(WireEvent) /\ s # <<>>
    BY EventTypes DEF Valid, Ready
  <1>2. e.type = "message_delta" /\ e.index = -1 /\ f.type = "message_stop" /\ f.index = -1
    BY DEF MessageDelta, MessageStop, SSEEvent
  <1>3. s \o <<e, f>> = u
    BY <1>1, TwoMore
  <1> HIDE DEF e, f
  <1>4. Grows(s, e)
    BY <1>1, <1>2 DEF Grows, Ready, Wire!Follows, Unfinished
  <1>5. Valid(t) /\ t # <<>> /\ t[Len(t)] = e
    BY <1>1, <1>4, Extend
  <1>6. Wire!IsNext(n, t)
    BY <1>1, <1>2, NextAfter DEF Ready
  <1>7. t \in Seq(WireEvent)
    BY <1>5 DEF Valid
  <1> HIDE DEF t
  <1>8. Grows(t, f)
    BY <1>2, <1>5 DEF Grows, Wire!Follows
  <1>9. Valid(u) /\ u # <<>> /\ u[Len(u)] = f
    BY <1>1, <1>5, <1>8, Extend
  <1>10. Wire!IsNext(n, u)
    BY <1>1, <1>2, <1>6, <1>7, NextAfter
  <1>11. QED
    BY <1>2, <1>3, <1>9, <1>10 DEF Ready, Wire!Between, e, f

\* Emit puts message_start or the end of the open block before what it is
\* given, and nothing if neither is due: then no block is open.
LEMMA Opening ==
    ASSUME IInv,
           NEW tail \in Seq(WireEvent), tail # <<>>, Emit(closeTextBlock \o tail)
    PROVE  /\ messageStarted'
           /\ \E s : /\ Valid(s) /\ Ready(s, nextBlockIndex) /\ out' = s \o tail
                     /\ ~finished => Unfinished(s)
  <1> DEFINE stop == BlockStop(currentBlockIndex)
  <1>1. /\ Valid(out) /\ out \in Seq(WireEvent)
        /\ currentBlockIndex \in Nat /\ nextBlockIndex \in Nat
        /\ messageStarted \in BOOLEAN /\ blockStarted \in BOOLEAN
    BY DEF IInv, TypeOK, Valid
  <1>2. Position
    BY DEF IInv
  <1>3. stop \in WireEvent
    BY <1>1, EventTypes
  <1>4. CASE ~messageStarted
    <2> DEFINE s == <<MessageStart>>
    <2>1. out = <<>> /\ ~blockStarted /\ nextBlockIndex = 0
      BY <1>2, <1>4 DEF Position
    <2>2. closeTextBlock = <<>> /\ closeTextBlock \o tail = tail
      BY <2>1, ConcatEmptySeq DEF closeTextBlock, Closes
    <2>3. Valid(s) /\ Ready(s, 0) /\ Unfinished(s) /\ s \in Seq(WireEvent)
      BY FirstEvent
    <2>4. messageStarted' /\ out' = out \o (s \o tail)
      BY <1>4, <2>2 DEF Emit
    <2>5. out' = s \o tail
      BY <2>1, <2>3, <2>4, ConcatProperties, ConcatEmptySeq
    <2> HIDE DEF s
    <2>6. QED
      BY <2>1, <2>3, <2>4, <2>5
  <1>5. CASE messageStarted /\ blockStarted
    <2> DEFINE t == <<stop>>
               s == Append(out, stop)
    <2>1. /\ InBlock(out, currentBlockIndex, currentBlockType)
          /\ currentBlockType \in {"text", "thinking"}
          /\ nextBlockIndex = currentBlockIndex + 1
      BY <1>2, <1>5 DEF Position
    <2>2. closeTextBlock = t
      BY <2>1, <1>5 DEF closeTextBlock, Closes
    <2>3. t \in Seq(WireEvent)
      BY <1>3, Single
    <2>4. messageStarted' /\ out' = out \o (t \o tail)
      BY <1>5, <2>2 DEF Emit
    <2>5. Valid(s) /\ Ready(s, nextBlockIndex) /\ (Unfinished(out) => Unfinished(s))
      BY <1>1, <2>1, StopEvent
    <2>6. out' = (out \o t) \o tail
      BY <1>1, <2>3, <2>4, ConcatAssociative
    <2>7. out \o t = s
      BY <1>1, <1>3, AppendIsConcat
    <2>8. ~finished => Unfinished(out)
      BY <1>2 DEF Position
    <2> HIDE DEF s, t
    <2>9. QED
      BY <2>4, <2>5, <2>6, <2>7, <2>8
  <1>6. CASE messageStarted /\ ~blockStarted
    <2>1. out # <<>> /\ Ready(out, nextBlockIndex) /\ (~finished => Unfinished(out))
      BY <1>2, <1>6 DEF Position
    <2>2. closeTextBlock = <<>> /\ closeTextBlock \o tail = tail
      BY <1>6, ConcatEmptySeq DEF closeTextBlock, Closes
    <2>3. messageStarted' /\ out' = out \o tail
      BY <1>6, <2>2 DEF Emit
    <2>4. QED
      BY <1>1, <2>1, <2>3
  <1>7. QED
    BY <1>4, <1>5, <1>6
-----------------------------------------------------------------------------
(* The inductive invariant. *)

\* TypeOK in four parts.
Flags == /\ messageStarted \in BOOLEAN /\ blockStarted \in BOOLEAN
         /\ finished \in BOOLEAN /\ returned \in BOOLEAN
BlockType == currentBlockType \in {"", "text", "thinking"}
Numbers == /\ currentBlockIndex \in Nat /\ nextBlockIndex \in Nat
           /\ outputTokens \in Nat
Sequences == /\ fed \in Seq(Inputs)
             /\ out \in Seq(WireEvent)
             /\ written \in 0..Len(out)

\* TypeOK is the conjunction of its parts.
LEMMA Parts == TypeOK <=> Flags /\ BlockType /\ Numbers /\ Sequences
  BY DEF TypeOK, Flags, BlockType, Numbers, Sequences, WireEvent

\* What every handler does to the output and its flag.
LEMMA EmitFlag == ASSUME NEW events, Emit(events) PROVE messageStarted' \in BOOLEAN
  BY DEF Emit

\* What every handler does to the input.
LEMMA TakeTypes ==
    ASSUME NEW e \in Inputs, Take(e), Flags, Numbers, Sequences
    PROVE  /\ fed' \in Seq(Inputs)
           /\ outputTokens' \in Nat
           /\ written' = Len(out)
           /\ returned' \in BOOLEAN
  <1>1. fed' \in Seq(Inputs)
    BY DEF Take, Sequences
  <1>2. outputTokens' \in Nat
    BY UsageTypes DEF Take, Numbers
  <1>3. written' = Len(out)
    BY DEF Take
  <1>4. returned' \in BOOLEAN
    BY DEF Take, Flags
  <1>5. QED
    BY <1>1, <1>2, <1>3, <1>4

\* A handler that opens a block.
LEMMA OpenTypes ==
    ASSUME NEW e \in Inputs, Take(e), Flags, BlockType, Numbers, Sequences,
           finished' = finished,
           NEW b \in {"text", "thinking"}, NEW t, Open(b, t)
    PROVE  Flags' /\ BlockType' /\ Numbers'
  <1>1. Flags'
    BY TakeTypes, EmitFlag DEF Open, Flags
  <1>2. BlockType'
    BY DEF Open, BlockType
  <1>3. currentBlockIndex' = nextBlockIndex /\ nextBlockIndex' = nextBlockIndex + 1
    BY DEF Open
  <1>4. Numbers'
    BY <1>3, TakeTypes DEF Numbers
  <1>5. QED
    BY <1>1, <1>2, <1>4

\* TypeOK is preserved by every step, given what it does to the output.
LEMMA TypeStep ==
    ASSUME IInv, [Next]_vars, out' \in Seq(WireEvent), Len(out) <= Len(out')
    PROVE  TypeOK'
  <1>1. Flags /\ BlockType /\ Numbers /\ Sequences
    BY Parts DEF IInv
  <1>2. Len(out) \in Nat /\ Len(out') \in Nat
    BY <1>1, LenProperties DEF Sequences
  <1>3. SUFFICES Flags' /\ BlockType' /\ Numbers' /\ Sequences'
    BY DEF TypeOK, Flags, BlockType, Numbers, Sequences, WireEvent
  <1>4. ASSUME NEW e \in Inputs, Take(e) PROVE Sequences'
    BY <1>1, <1>2, <1>4, TakeTypes DEF Sequences
  <1>5. ASSUME NEW e \in Inputs, handleTextContentDelta(e)
        PROVE  Flags' /\ BlockType' /\ Numbers' /\ Sequences'
    <2>1. Take(e) /\ finished' = finished
      BY <1>5 DEF handleTextContentDelta
    <2>2. CASE Open("text", TextOf(e))
      BY <1>1, <1>4, <2>1, <2>2, OpenTypes
    <2>3. CASE Continue(TextOf(e))
      <3>1. Flags'
        BY <1>1, <2>1, <2>3, TakeTypes, EmitFlag DEF Continue, Flags
      <3>2. BlockType'
        BY <1>1, <2>3 DEF Continue, BlockType
      <3>3. Numbers'
        BY <1>1, <2>1, <2>3, TakeTypes DEF Continue, Numbers
      <3>4. QED
        BY <1>4, <2>1, <3>1, <3>2, <3>3
    <2>4. QED
      BY <1>5, <2>2, <2>3 DEF handleTextContentDelta
  <1>6. ASSUME NEW e \in Inputs, handleReasoningDelta(e)
        PROVE  Flags' /\ BlockType' /\ Numbers' /\ Sequences'
    <2>1. Take(e) /\ finished' = finished /\ Open("thinking", TextDeltaContent(e))
      BY <1>6 DEF handleReasoningDelta
    <2>2. QED
      BY <1>1, <1>4, <2>1, OpenTypes
  <1>7. ASSUME NEW e \in Inputs, handleToolCall(e)
        PROVE  Flags' /\ BlockType' /\ Numbers' /\ Sequences'
    <2>1. /\ Take(e) /\ finished' = finished
          /\ currentBlockIndex' = currentBlockIndex
          /\ nextBlockIndex' = nextBlockIndex + 1
          /\ \/ blockStarted' = FALSE /\ currentBlockType' = ""
             \/ blockStarted' = blockStarted /\ currentBlockType' = currentBlockType
      BY <1>7 DEF handleToolCall
    <2>2. messageStarted' \in BOOLEAN
      BY <1>7, EmitFlag DEF handleToolCall
    <2>3. Flags'
      BY <1>1, <2>1, <2>2, TakeTypes DEF Flags
    <2>4. BlockType'
      BY <1>1, <2>1 DEF BlockType
    <2>5. Numbers'
      <3>1. nextBlockIndex' = nextBlockIndex + 1 /\ currentBlockIndex' = currentBlockIndex
        BY <2>1
      <3>2. outputTokens' \in Nat
        BY <1>1, <2>1, TakeTypes
      <3>3. QED
        BY <1>1, <3>1, <3>2 DEF Numbers
    <2>6. QED
      BY <1>4, <2>1, <2>3, <2>4, <2>5
  <1>8. ASSUME NEW e \in Inputs, handleFinish(e)
        PROVE  Flags' /\ BlockType' /\ Numbers' /\ Sequences'
    <2>1. /\ Take(e) /\ finished' = TRUE
          /\ currentBlockIndex' = currentBlockIndex
          /\ nextBlockIndex' = nextBlockIndex
          /\ \/ blockStarted' = FALSE /\ currentBlockType' = ""
             \/ blockStarted' = blockStarted /\ currentBlockType' = currentBlockType
      BY <1>8 DEF handleFinish
    <2>2. messageStarted' \in BOOLEAN
      BY <1>8, EmitFlag DEF handleFinish
    <2>3. Flags'
      BY <1>1, <2>1, <2>2, TakeTypes DEF Flags
    <2>4. BlockType'
      BY <1>1, <2>1 DEF BlockType
    <2>5. Numbers'
      BY <1>1, <2>1, TakeTypes DEF Numbers
    <2>6. QED
      BY <1>4, <2>1, <2>3, <2>4, <2>5
  <1>9. ASSUME NEW e \in Inputs, Ignore(e)
        PROVE  Flags' /\ BlockType' /\ Numbers' /\ Sequences'
    <2>1. Take(e) /\ UNCHANGED context
      BY <1>9 DEF Ignore
    <2>2. Flags'
      BY <1>1, <2>1, TakeTypes DEF context, Flags
    <2>3. BlockType'
      BY <1>1, <2>1 DEF context, BlockType
    <2>4. Numbers'
      BY <1>1, <2>1, TakeTypes DEF context, Numbers
    <2>5. QED
      BY <1>4, <2>1, <2>2, <2>3, <2>4
  <1>10. CASE Write
    <2>1. written' \in 0..Len(out') /\ fed' \in Seq(Inputs)
      BY <1>1, <1>2, <1>10 DEF Write, Sequences
    <2>2. QED
      BY <1>1, <1>10, <2>1 DEF Write, context, Flags, BlockType, Numbers, Sequences
  <1>11. CASE Return
    BY <1>1, <1>11 DEF Return, context, Flags, BlockType, Numbers, Sequences
  <1>12. CASE UNCHANGED vars
    BY <1>1, <1>12 DEF vars, context, Flags, BlockType, Numbers, Sequences
  <1>13. QED
    BY <1>5, <1>6, <1>7, <1>8, <1>9, <1>10, <1>11, <1>12 DEF Next, ParseLine

\* What has been translated stays.
Kept == /\ Len(out) <= Len(out')
        /\ \A i \in 1..Len(out) : out'[i] = out[i]

\* Emit only adds to the output.
LEMMA EmitKeeps ==
    ASSUME out \in Seq(WireEvent), NEW events \in Seq(WireEvent), Emit(events)
    PROVE  Kept
  <1> DEFINE added == IF messageStarted \/ events = <<>> THEN events
                                                         ELSE <<MessageStart>> \o events
  <1>1. out' = out \o added
    BY DEF Emit
  <1>2. added \in Seq(WireEvent)
    <2>1. <<MessageStart>> \in Seq(WireEvent)
      BY EventTypes, Single
    <2>2. <<MessageStart>> \o events \in Seq(WireEvent)
      BY <2>1, ConcatProperties
    <2>3. QED
      BY <2>2
  <1> HIDE DEF added
  <1>3. Len(out) \in Nat /\ Len(added) \in Nat
    BY <1>2, LenProperties
  <1>4. /\ Len(out') = Len(out) + Len(added)
        /\ \A i \in 1..(Len(out) + Len(added)) :
              out'[i] = IF i <= Len(out) THEN out[i] ELSE added[i - Len(out)]
    BY <1>1, <1>2, ConcatProperties
  <1>5. QED
    BY <1>3, <1>4 DEF Kept

\* The end of the open block, if it is due, is a known event.
LEMMA CloseType ==
    ASSUME currentBlockIndex \in Nat
    PROVE  closeTextBlock \in Seq(WireEvent)
  <1>1. BlockStop(currentBlockIndex) \in WireEvent
    BY EventTypes
  <1>2. <<BlockStop(currentBlockIndex)>> \in Seq(WireEvent) /\ <<>> \in Seq(WireEvent)
    BY <1>1, Single, EmptySeq
  <1>3. QED
    BY <1>2 DEF closeTextBlock

\* Closing and adding something else only adds to the output.
LEMMA ClosingKeeps ==
    ASSUME IInv, NEW tail \in Seq(WireEvent), Emit(closeTextBlock \o tail)
    PROVE  Kept
  <1>1. out \in Seq(WireEvent) /\ currentBlockIndex \in Nat
    BY Parts DEF IInv, Numbers, Sequences
  <1>2. closeTextBlock \o tail \in Seq(WireEvent)
    BY <1>1, CloseType, ConcatProperties
  <1>3. QED
    BY <1>1, <1>2, EmitKeeps

\* A block is opened: the context describes it.
LEMMA OpenStep ==
    ASSUME IInv, finished' = finished,
           NEW b \in {"text", "thinking"}, NEW t \in Seq(Fragments), Open(b, t)
    PROVE  Valid(out') /\ Position' /\ Kept
  <1> DEFINE n == nextBlockIndex
             tail == <<Start(n, b), BlockDelta(n, b, TextContent(t))>>
  <1>1. n \in Nat
    BY Parts DEF IInv, Numbers
  <1>2. TextContent(t) \in Content
    BY EventTypes
  <1>3. Start(n, b) \in WireEvent /\ BlockDelta(n, b, TextContent(t)) \in WireEvent
    BY <1>1, <1>2, EventTypes
  <1>4. tail \in Seq(WireEvent) /\ tail # <<>>
    BY <1>3
  <1>5. Emit(closeTextBlock \o tail)
    BY DEF Open
  <1>6. PICK s : /\ Valid(s) /\ Ready(s, n) /\ out' = s \o tail
                 /\ ~finished => Unfinished(s)
    BY <1>4, <1>5, Opening
  <1>7. messageStarted'
    BY <1>4, <1>5, Opening
  <1>8. Valid(out') /\ InBlock(out', n, b) /\ (Unfinished(s) => Unfinished(out'))
    BY <1>1, <1>2, <1>6, NewBlock
  <1>9. /\ currentBlockIndex' = n /\ nextBlockIndex' = n + 1
        /\ currentBlockType' = b /\ blockStarted'
    BY DEF Open
  <1>10. out' # <<>>
    BY <1>8 DEF InBlock, Opened
  <1>11. Position'
    BY <1>6, <1>7, <1>8, <1>9, <1>10 DEF Position
  <1>12. QED
    BY <1>4, <1>5, <1>8, <1>11, ClosingKeeps

\* A block is continued.
LEMMA ContinueStep ==
    ASSUME IInv, blockStarted, finished' = finished,
           NEW t \in Seq(Fragments), Continue(t)
    PROVE  Valid(out') /\ Position' /\ Kept
  <1> DEFINE n == currentBlockIndex
             b == currentBlockType
             d == BlockDelta(n, b, TextContent(t))
  <1>1. /\ n \in Nat /\ out \in Seq(WireEvent) /\ Valid(out) /\ Position
    BY Parts DEF IInv, Numbers, Sequences
  <1>2. /\ b \in {"text", "thinking"} /\ nextBlockIndex = n + 1
        /\ InBlock(out, n, b) /\ out # <<>> /\ messageStarted
        /\ ~finished => Unfinished(out)
    BY <1>1 DEF Position, InBlock, Opened
  <1>3. TextContent(t) \in Content
    BY EventTypes
  <1>4. d \in WireEvent
    BY <1>1, <1>2, <1>3, EventTypes
  <1>5. Emit(<<d>>)
    BY DEF Continue
  <1>6. messageStarted' /\ out' = out \o <<d>>
    BY <1>2, <1>5 DEF Emit
  <1>7. Valid(out') /\ InBlock(out', n, b) /\ (Unfinished(out) => Unfinished(out'))
    BY <1>1, <1>2, <1>3, <1>6, MoreOfBlock
  <1>8. /\ blockStarted' /\ currentBlockType' = b /\ currentBlockIndex' = n
        /\ nextBlockIndex' = n + 1
    BY <1>2 DEF Continue
  <1>9. out' # <<>>
    BY <1>7 DEF InBlock, Opened
  <1>10. Position'
    BY <1>2, <1>6, <1>7, <1>8, <1>9 DEF Position
  <1>11. Kept
    BY <1>1, <1>4, <1>5, Single, EmitKeeps
  <1>12. QED
    BY <1>7, <1>10, <1>11

\* A tool call: a block of its own, after the open one.
LEMMA ToolStep ==
    ASSUME IInv, NEW e \in Inputs, handleToolCall(e)
    PROVE  Valid(out') /\ Position' /\ Kept
  <1> DEFINE n == nextBlockIndex
             c == ToolContent(e.tool)
             tail == <<Start(n, "tool_use"), BlockDelta(n, "tool_use", c), BlockStop(n)>>
  <1>1. n \in Nat /\ Position
    BY Parts DEF IInv, Numbers
  <1>2. c \in Content
    BY StreamAssumption, EventTypes DEF handleToolCall
  <1>3. /\ Start(n, "tool_use") \in WireEvent
        /\ BlockDelta(n, "tool_use", c) \in WireEvent
        /\ BlockStop(n) \in WireEvent
    BY <1>1, <1>2, EventTypes
  <1>4. tail \in Seq(WireEvent) /\ tail # <<>>
    BY <1>3
  <1>5. Emit(closeTextBlock \o tail)
    BY DEF handleToolCall
  <1>6. PICK s : /\ Valid(s) /\ Ready(s, n) /\ out' = s \o tail
                 /\ ~finished => Unfinished(s)
    BY <1>4, <1>5, Opening
  <1>7. messageStarted'
    BY <1>4, <1>5, Opening
  <1>8. Valid(out') /\ Ready(out', n + 1) /\ (Unfinished(s) => Unfinished(out'))
    BY <1>1, <1>2, <1>6, ToolBlock
  <1>9. ~blockStarted'
    BY <1>1 DEF handleToolCall, Closes, Position
  <1>10. nextBlockIndex' = n + 1 /\ finished' = finished
    BY DEF handleToolCall
  <1>11. out' # <<>>
    BY <1>8 DEF Ready
  <1>12. Position'
    BY <1>6, <1>7, <1>8, <1>9, <1>10, <1>11 DEF Position
  <1>13. QED
    BY <1>4, <1>5, <1>8, <1>12, ClosingKeeps

\* The message ends.
LEMMA FinishStep ==
    ASSUME IInv, NEW e \in Inputs, handleFinish(e)
    PROVE  Valid(out') /\ Position' /\ Kept
  <1> DEFINE n == nextBlockIndex
             tail == FinishEvents(e)
  <1>1. n \in Nat /\ Position
    BY Parts DEF IInv, Numbers
  <1>2. e.reason \in Reasons /\ UsageOf(e) \in Nat \cup {NoUsage}
    BY StreamAssumption, UsageTypes DEF Event
  <1>3. tail \in Seq(WireEvent) /\ tail # <<>>
    <2> DEFINE m == MessageDelta(mapAnthropicStreamStopReason(e.reason), UsageOf(e))
    <2>1. m \in WireEvent /\ MessageStop \in WireEvent /\ tail = <<m, MessageStop>>
      BY <1>2, EventTypes DEF FinishEvents
    <2> HIDE DEF m
    <2>2. QED
      BY <2>1
  <1>4. ~finished /\ Emit(closeTextBlock \o tail)
    BY DEF handleFinish
  <1>5. PICK s : Valid(s) /\ Ready(s, n) /\ Unfinished(s) /\ out' = s \o tail
    BY <1>3, <1>4, Opening
  <1>6. messageStarted'
    BY <1>3, <1>4, Opening
  <1>7. Valid(out') /\ Ready(out', n)
    BY <1>1, <1>2, <1>5, MessageEnd DEF FinishEvents
  <1>8. ~blockStarted'
    BY <1>1 DEF handleFinish, Closes, Position
  <1>9. nextBlockIndex' = n /\ finished'
    BY DEF handleFinish
  <1>10. out' # <<>>
    BY <1>7 DEF Ready
  <1>11. Position'
    BY <1>6, <1>7, <1>8, <1>9, <1>10 DEF Position
  <1>12. QED
    BY <1>3, <1>4, <1>7, <1>11, ClosingKeeps

\* A step of the translator leaves a beginning of a message, described by the
\* context, and takes nothing back.
LEMMA OutputStep ==
    ASSUME IInv, [Next]_vars
    PROVE  Valid(out') /\ Position' /\ Kept
  <1>1. Valid(out) /\ Position
    BY DEF IInv
  <1>2. ASSUME UNCHANGED <<context, out>>
        PROVE  Valid(out') /\ Position' /\ Kept
    <2>1. out' = out
      BY <1>2
    <2>2. Len(out) \in Nat
      BY <1>1, LenProperties DEF Valid
    <2>3. Kept
      BY <2>1, <2>2 DEF Kept
    <2>4. Position'
      BY <1>1, <1>2 DEF Position, context
    <2>5. QED
      BY <1>1, <2>1, <2>3, <2>4
  <1>4. ASSUME NEW e \in Inputs, handleTextContentDelta(e)
        PROVE  Valid(out') /\ Position' /\ Kept
    <2>1. finished' = finished
      BY <1>4 DEF handleTextContentDelta
    <2>3. TextOf(e) \in Seq(Fragments)
      BY TextTypes
    <2>4. CASE ~blockStarted \/ currentBlockType # "text"
      <3>1. Open("text", TextOf(e))
        BY <1>4, <2>4 DEF handleTextContentDelta
      <3>2. QED
        BY <2>1, <2>3, <3>1, OpenStep
    <2>5. CASE ~(~blockStarted \/ currentBlockType # "text")
      <3>1. Continue(TextOf(e))
        BY <1>4, <2>5 DEF handleTextContentDelta
      <3>2. QED
        BY <2>1, <2>3, <2>5, <3>1, ContinueStep
    <2>6. QED
      BY <2>4, <2>5
  <1>5. ASSUME NEW e \in Inputs, handleReasoningDelta(e)
        PROVE  Valid(out') /\ Position' /\ Kept
    <2>1. finished' = finished /\ Open("thinking", TextDeltaContent(e))
      BY <1>5 DEF handleReasoningDelta
    <2>2. TextDeltaContent(e) \in Seq(Fragments)
      BY TextTypes
    <2>3. QED
      BY <2>1, <2>2, OpenStep
  <1>6. ASSUME NEW e \in Inputs, handleToolCall(e)
        PROVE  Valid(out') /\ Position' /\ Kept
    BY <1>6, ToolStep
  <1>7. ASSUME NEW e \in Inputs, handleFinish(e)
        PROVE  Valid(out') /\ Position' /\ Kept
    BY <1>7, FinishStep
  <1>8. ASSUME NEW e \in Inputs, Ignore(e)
        PROVE  UNCHANGED <<context, out>>
    BY <1>8 DEF Ignore
  <1>9. CASE Write
    BY <1>2, <1>9 DEF Write
  <1>10. CASE Return
    BY <1>2, <1>10 DEF Return
  <1>11. CASE UNCHANGED vars
    BY <1>2, <1>11 DEF vars
  <1>12. QED
    BY <1>2, <1>4, <1>5, <1>6, <1>7, <1>8, <1>9, <1>10, <1>11 DEF Next, ParseLine

\* The inductive invariant holds initially and is preserved by every step.
LEMMA Invariance == Spec => []IInv
  <1>1. Init => IInv
    <2> SUFFICES ASSUME Init PROVE IInv
      OBVIOUS
    <2>1. out = <<>> /\ <<>> \in Seq(WireEvent) /\ Len(<<>>) = 0
      BY EmptySeq DEF Init
    <2>2. Valid(out)
      BY <2>1 DEF Valid
    <2>3. Flags /\ BlockType /\ Numbers
      BY DEF Init, Flags, BlockType, Numbers
    <2>4. Sequences
      <3>1. fed \in Seq(Inputs)
        BY EmptySeq DEF Init
      <3>2. written \in 0..Len(out)
        <4>1. written = 0 /\ Len(out) = 0
          BY <2>1 DEF Init
        <4>2. QED
          BY <4>1
      <3>3. QED
        BY <2>1, <3>1, <3>2 DEF Sequences
    <2>5. Position
      <3>1. Unfinished(out)
        BY <2>1 DEF Unfinished
      <3>2. QED
        BY <2>1, <3>1 DEF Init, Position
    <2>6. QED
      BY <2>2, <2>3, <2>4, <2>5, Parts DEF IInv
  <1>2. IInv /\ [Next]_vars => IInv'
    <2> SUFFICES ASSUME IInv, [Next]_vars PROVE IInv'
      OBVIOUS
    <2>1. Valid(out') /\ Position' /\ Kept
      BY OutputStep
    <2>2. TypeOK'
      BY <2>1, TypeStep DEF Valid, Kept
    <2>3. QED
      BY <2>1, <2>2 DEF IInv
  <1>3. QED
    BY <1>1, <1>2, PTL DEF Spec

\* The context and the output of the translator keep their types.
THEOREM Typing == Spec => []TypeOK
  BY Invariance, PTL DEF IInv
-----------------------------------------------------------------------------
(* What the client receives. *)

\* A step writes nothing, or the next event of the output.
LEMMA WriteStep ==
    ASSUME IInv, [Next]_vars
    PROVE  \/ sse' = sse
           \/ written < Len(out) /\ written' = written + 1 /\ out' = out
  <1>1. out \in Seq(WireEvent) /\ written \in 0..Len(out) /\ Len(out) \in Nat
    BY Parts, LenProperties DEF IInv, Sequences
  <1>2. Kept /\ out' \in Seq(WireEvent)
    BY OutputStep DEF Valid
  <1>3. Len(out') \in Nat
    BY <1>2, LenProperties
  <1>4. ASSUME written' = written PROVE sse' = sse
    <2> DEFINE s == SubSeq(out, 1, written)
               t == SubSeq(out', 1, written)
    <2>1. \A i \in 1..written : out[i] \in WireEvent /\ out'[i] \in WireEvent /\ out'[i] = out[i]
      BY <1>1, <1>2, <1>3, ElementOfSeq DEF Kept
    <2>2. /\ s \in Seq(WireEvent) /\ Len(s) = written
          /\ \A i \in 1..written : s[i] = out[i]
      BY <1>1, <2>1, SubSeqProperties
    <2>3. /\ t \in Seq(WireEvent) /\ Len(t) = written
          /\ \A i \in 1..written : t[i] = out'[i]
      BY <1>1, <2>1, SubSeqProperties
    <2>4. s = t
      BY <1>1, <2>1, <2>2, <2>3, SeqEqual
    <2>5. QED
      BY <1>4, <2>4 DEF sse
  <1>5. ASSUME NEW e \in Inputs, ParseLine(e) PROVE written' = written
    BY <1>5 DEF ParseLine, handleTextContentDelta, handleReasoningDelta,
                handleToolCall, handleFinish, Ignore, Take
  <1>6. CASE Write
    BY <1>6 DEF Write
  <1>7. CASE Return
    BY <1>4, <1>7 DEF Return
  <1>8. CASE UNCHANGED vars
    BY <1>4, <1>8 DEF vars
  <1>9. QED
    BY <1>4, <1>5, <1>6, <1>7, <1>8 DEF Next

\* The next event of the output may follow those that were written.
LEMMA WireStep ==
    ASSUME IInv, [Next]_vars
    PROVE  [Wire!Next]_sse
  <1>1. /\ out \in Seq(WireEvent) /\ written \in 0..Len(out) /\ Len(out) \in Nat
        /\ Valid(out)
    BY Parts, LenProperties DEF IInv, Sequences
  <1>2. CASE sse' = sse
    BY <1>2
  <1>3. CASE written < Len(out) /\ written' = written + 1 /\ out' = out
    <2> DEFINE n == written + 1
               e == out[n]
    <2>1. n \in 1..Len(out) /\ written \in Nat
      BY <1>1, <1>3
    <2>2. \A i \in 1..n : out[i] \in WireEvent
      BY <1>1, <2>1, ElementOfSeq
    <2>3. /\ sse \in Seq(WireEvent) /\ Len(sse) = written
          /\ \A i \in 1..written : sse[i] = out[i]
      BY <2>1, <2>2, SubSeqProperties DEF sse
    <2>4. /\ sse' \in Seq(WireEvent) /\ Len(sse') = n
          /\ \A i \in 1..n : sse'[i] = out[i]
      <3>1. sse' = SubSeq(out, 1, n)
        BY <1>3 DEF sse
      <3>2. QED
        BY <2>1, <2>2, <3>1, SubSeqProperties
    <2>5. e \in WireEvent /\ sse'[Len(sse) + 1] = e /\ Len(sse') = Len(sse) + 1
      BY <2>1, <2>2, <2>3, <2>4
    <2>6. sse' = Append(sse, e)
      <3> DEFINE a == Append(sse, e)
      <3>1. /\ a \in Seq(WireEvent) /\ Len(a) = n
            /\ \A i \in 1..n : a[i] = IF i = n THEN e ELSE sse[i]
        BY <2>1, <2>3, <2>5, AppendProperties
      <3>2. \A i \in 1..n : a[i] = sse'[i]
        BY <2>1, <2>3, <2>4, <3>1
      <3>3. QED
        BY <2>4, <3>1, <3>2, SeqEqual
    <2>7. Grows(sse, e)
      <3>1. Grows(SubSeq(out, 1, n - 1), out[n])
        BY <1>1, <2>1 DEF Valid
      <3>2. n - 1 = written
        BY <2>1
      <3>3. QED
        BY <3>1, <3>2 DEF sse
    <2>8. QED
      BY <2>5, <2>6, <2>7 DEF Wire!Next, WireEvent, Grows
  <1>4. QED
    BY <1>2, <1>3, WriteStep

\* A Messages client receives the events of one message, in order, wherever the
\* stream is cut, and however content, tool calls and finishes alternate: blocks
\* after message_stop are numbered on, and there is no second message_stop.
THEOREM Refinement == Spec => RefinesAnthropicWire
  <1>1. Init => Wire!Init
    <2>1. SubSeq(<<>>, 1, 0) = <<>>
      BY SubSeqEmpty
    <2>2. Init => out = <<>> /\ written = 0
      BY DEF Init
    <2>3. QED
      BY <2>1, <2>2 DEF Wire!Init, sse
  <1>2. IInv /\ [Next]_vars => [Wire!Next]_sse
    BY WireStep
  <1>3. QED
    BY <1>1, <1>2, Invariance, PTL DEF Spec, RefinesAnthropicWire, Wire!Spec
-----------------------------------------------------------------------------
(* Responses: the collector of Chat Completions, and what a client is sent. *)

\* The types of what the collectors gather.
Call == [id : ToolIDs, arguments : {"{}", "object", "array", "json", "string"}]
ChatAnswer == [content : Seq(Fragments), reasoning : Seq(Fragments), tools : Seq(Call),
               reason : Reasons \cup {"stop"}, tokens : Nat]

\* The events the code knows.
Known == {e \in Event : e.type = "tool-call" => e.tool \in Tool}

\* The fields of an event that are read.
LEMMA KnownTypes ==
    ASSUME NEW e \in Known
    PROVE  /\ e \in Event /\ e.text \in Seq(Fragments) /\ e.delta \in Seq(Fragments)
           /\ TextOf(e) \in Seq(Fragments)
           /\ e.reason \in Reasons
           /\ UsageOf(e) # NoUsage => UsageOf(e) \in Nat
           /\ e.type = "tool-call" => e.tool \in Tool
  <1>1. e \in Event /\ (e.type = "tool-call" => e.tool \in Tool)
    BY DEF Known
  <1>2. e.text \in Seq(Fragments) /\ e.delta \in Seq(Fragments)
    BY <1>1 DEF Event
  <1>3. TextOf(e) \in Seq(Fragments)
    BY <1>2, EmptySeq DEF TextOf, TextDeltaContent
  <1>4. UsageOf(e) # NoUsage => UsageOf(e) \in Nat
    BY <1>1 DEF Event, UsageOf
  <1>5. e.reason \in Reasons
    BY <1>1 DEF Event
  <1>6. QED
    BY <1>1, <1>2, <1>3, <1>4, <1>5

\* Those of an upstream event.
LEMMA InputTypes ==
    ASSUME NEW e \in Inputs
    PROVE  /\ e \in Known
           /\ e \in Event /\ e.text \in Seq(Fragments) /\ e.delta \in Seq(Fragments)
           /\ TextOf(e) \in Seq(Fragments)
           /\ e.reason \in Reasons
           /\ UsageOf(e) # NoUsage => UsageOf(e) \in Nat
           /\ e.type = "tool-call" => e.tool \in Tool
  <1>1. e \in Known
    BY StreamAssumption DEF Known
  <1>2. QED
    BY <1>1, KnownTypes

NoChat == [content |-> <<>>, reasoning |-> <<>>, tools |-> <<>>, reason |-> "stop", tokens |-> 0]

\* What an event does to what has been collected.
LEMMA CollectChatCases ==
    ASSUME NEW acc \in ChatAnswer, NEW e \in Inputs
    PROVE  /\ CollectChatEvent(acc, e) \in ChatAnswer
           /\ CollectChatEvent(acc, e) =
                 [content |-> acc.content \o TextOf(e),
                  reasoning |-> IF e.type = "reasoning-delta" THEN acc.reasoning \o e.text
                                ELSE acc.reasoning,
                  tools |-> IF e.type = "tool-call"
                            THEN Append(acc.tools, [id |-> e.tool.id,
                                                    arguments |-> Arguments(e.tool)])
                            ELSE acc.tools,
                  reason |-> IF e.type = "finish" /\ e.reason # "" THEN e.reason
                             ELSE acc.reason,
                  tokens |-> IF e.type = "finish" /\ UsageOf(e) # NoUsage THEN UsageOf(e)
                             ELSE acc.tokens]
  <1> DEFINE r == [content |-> acc.content \o TextOf(e),
                  reasoning |-> IF e.type = "reasoning-delta" THEN acc.reasoning \o e.text
                                ELSE acc.reasoning,
                  tools |-> IF e.type = "tool-call"
                            THEN Append(acc.tools, [id |-> e.tool.id,
                                                    arguments |-> Arguments(e.tool)])
                            ELSE acc.tools,
                  reason |-> IF e.type = "finish" /\ e.reason # "" THEN e.reason
                             ELSE acc.reason,
                  tokens |-> IF e.type = "finish" /\ UsageOf(e) # NoUsage THEN UsageOf(e)
                             ELSE acc.tokens]
  <1>1. /\ acc.content \in Seq(Fragments) /\ acc.reasoning \in Seq(Fragments)
        /\ acc.tools \in Seq(Call) /\ acc.reason \in Reasons \cup {"stop"} /\ acc.tokens \in Nat
        /\ acc = [content |-> acc.content, reasoning |-> acc.reasoning, tools |-> acc.tools,
                  reason |-> acc.reason, tokens |-> acc.tokens]
    BY DEF ChatAnswer
  <1>2. /\ e \in Event /\ e.text \in Seq(Fragments) /\ TextOf(e) \in Seq(Fragments)
        /\ e.reason \in Reasons /\ (UsageOf(e) # NoUsage => UsageOf(e) \in Nat)
        /\ (e.type = "tool-call" => e.tool \in Tool)
    BY InputTypes
  <1>3. r \in ChatAnswer
    <2>1. /\ acc.content \o TextOf(e) \in Seq(Fragments)
          /\ acc.reasoning \o e.text \in Seq(Fragments)
      BY <1>1, <1>2, ConcatProperties
    <2>2. e.type = "tool-call" =>
              Append(acc.tools, [id |-> e.tool.id, arguments |-> Arguments(e.tool)]) \in Seq(Call)
      <3>1. e.tool \in Tool => [id |-> e.tool.id, arguments |-> Arguments(e.tool)] \in Call
        BY DEF Tool, Call, Arguments
      <3>2. QED
        BY <1>1, <1>2, <3>1, AppendProperties
    <2>3. QED
      BY <1>1, <1>2, <2>1, <2>2 DEF ChatAnswer
  <1>4. CollectChatEvent(acc, e) = r
    <2>1. e.type \notin {"text", "delta", "text-delta"} => acc.content \o TextOf(e) = acc.content
      BY <1>1, ConcatEmptySeq DEF TextOf
    <2>2. CASE e.type \in {"text", "delta", "text-delta"}
      BY <1>1, <2>2 DEF CollectChatEvent
    <2>3. CASE e.type = "reasoning-delta"
      BY <1>1, <2>1, <2>3 DEF CollectChatEvent
    <2>4. CASE e.type = "tool-call"
      BY <1>1, <2>1, <2>4 DEF CollectChatEvent
    <2>5. CASE e.type \in {"finish", "other"}
      BY <1>1, <2>1, <2>5 DEF CollectChatEvent, Finish
    <2>6. QED
      BY <1>2, <2>2, <2>3, <2>4, <2>5 DEF Event
  <1>5. QED
    BY <1>3, <1>4

\* The fields of what is collected for Chat Completions.
LEMMA CollectChatFields ==
    ASSUME NEW acc \in ChatAnswer, NEW e \in Inputs, NEW c, c = CollectChatEvent(acc, e)
    PROVE  /\ c.content = acc.content \o TextOf(e)
           /\ c.reasoning = IF e.type = "reasoning-delta" THEN acc.reasoning \o e.text
                            ELSE acc.reasoning
           /\ c.tools = IF e.type = "tool-call"
                        THEN Append(acc.tools, [id |-> e.tool.id, arguments |-> Arguments(e.tool)])
                        ELSE acc.tools
           /\ c.reason = IF e.type = "finish" /\ e.reason # "" THEN e.reason ELSE acc.reason
           /\ c.tokens = IF e.type = "finish" /\ UsageOf(e) # NoUsage THEN UsageOf(e)
                         ELSE acc.tokens
  <1> DEFINE x1 == acc.content \o TextOf(e)
             x2 == IF e.type = "reasoning-delta" THEN acc.reasoning \o e.text
                   ELSE acc.reasoning
             x3 == IF e.type = "tool-call"
                   THEN Append(acc.tools, [id |-> e.tool.id, arguments |-> Arguments(e.tool)])
                   ELSE acc.tools
             x4 == IF e.type = "finish" /\ e.reason # "" THEN e.reason ELSE acc.reason
             x5 == IF e.type = "finish" /\ UsageOf(e) # NoUsage THEN UsageOf(e) ELSE acc.tokens
  <1>1. c = [content |-> x1, reasoning |-> x2, tools |-> x3, reason |-> x4, tokens |-> x5]
    BY CollectChatCases
  <1> HIDE DEF x1, x2, x3, x4, x5
  <1>2. c.content = x1 /\ c.reasoning = x2 /\ c.tools = x3 /\ c.reason = x4 /\ c.tokens = x5
    BY <1>1
  <1>3. QED
    BY <1>2 DEF x1, x2, x3, x4, x5

CollectChatStep == [x \in ChatAnswer \X Inputs |-> CollectChatEvent(x[1], x[2])]

\* Collecting one more event is a step.
LEMMA ChatStep == NoChat \in ChatAnswer /\ IsStep(CollectChatStep, ChatAnswer, Inputs)
  <1>1. NoChat \in ChatAnswer
    BY EmptySeq DEF NoChat, ChatAnswer
  <1>2. QED
    BY <1>1, CollectChatCases DEF CollectChatStep, IsStep

\* CollectChat is a run.
LEMMA CollectChatIsRun ==
    ASSUME NEW s \in Seq(Inputs)
    PROVE  CollectChat(s) = Run(ChatAnswer, CollectChatStep, NoChat, s)
  <1> DEFINE Body(f) == [S \in SUBSET (DOMAIN s) |->
                           IF S = {} THEN NoChat
                           ELSE CollectChatEvent(f[S \ {Max(S)}], s[Max(S)])]
             it == CHOOSE f : f = Body(f)
  <1>1. DOMAIN s = 1..Len(s)
    BY LenProperties
  <1>2. \A a \in ChatAnswer, e \in Inputs : CollectChatStep[<<a, e>>] = CollectChatEvent(a, e)
    BY DEF CollectChatStep
  <1>3. PICK g : Total(g, ChatAnswer, Inputs, CollectChatStep, NoChat, s)
    BY ChatStep, TotalExists
  <1>4. g = Body(g)
    BY <1>1, <1>2, <1>3 DEF Total
  <1>5. it = Body(it)
    BY <1>4
  <1> HIDE DEF it
  <1>6. Folds(it, ChatAnswer, CollectChatStep, NoChat, s)
    BY <1>1, <1>2, <1>3, <1>5 DEF Folds, Total
  <1>7. it[1..Len(s)] = Run(ChatAnswer, CollectChatStep, NoChat, s)
    BY ChatStep, <1>6, FoldValue
  <1>8. CollectChat(s) = it[DOMAIN s]
    BY DEF it, CollectChat, NoChat, FoldLeft, MapThenFoldSet
  <1>9. QED
    BY <1>1, <1>7, <1>8

\* What has been collected, one event at a time.
LEMMA CollectChatAppend ==
    ASSUME NEW s \in Seq(Inputs), NEW e \in Inputs
    PROVE  /\ CollectChat(s) \in ChatAnswer
           /\ CollectChat(Append(s, e)) = CollectChatEvent(CollectChat(s), e)
  <1>1. Append(s, e) \in Seq(Inputs)
    BY AppendProperties
  <1>2. /\ CollectChat(s) = Run(ChatAnswer, CollectChatStep, NoChat, s)
        /\ CollectChat(Append(s, e)) = Run(ChatAnswer, CollectChatStep, NoChat, Append(s, e))
    BY <1>1, CollectChatIsRun
  <1>3. /\ Run(ChatAnswer, CollectChatStep, NoChat, s) \in ChatAnswer
        /\ Run(ChatAnswer, CollectChatStep, NoChat, Append(s, e))
              = CollectChatStep[<<Run(ChatAnswer, CollectChatStep, NoChat, s), e>>]
    BY ChatStep, RunAppend
  <1>4. \A a \in ChatAnswer : CollectChatStep[<<a, e>>] = CollectChatEvent(a, e)
    BY DEF CollectChatStep
  <1>5. QED
    BY <1>2, <1>3, <1>4

\* What is collected of no events.
LEMMA CollectChatEmpty == CollectChat(<<>>) = NoChat
  <1>1. <<>> \in Seq(Inputs)
    BY EmptySeq
  <1>2. CollectChat(<<>>) = Run(ChatAnswer, CollectChatStep, NoChat, <<>>)
    BY <1>1, CollectChatIsRun
  <1>3. Run(ChatAnswer, CollectChatStep, NoChat, <<>>) = NoChat
    BY ChatStep, RunEmpty DEF IsStep
  <1>4. QED
    BY <1>2, <1>3

Sent == [type : {"output_text.delta"}, delta : Seq(Fragments)]
        \cup [type : {"output_item.done"}, call : Call]
SentOf == [e \in Inputs |-> ResponsesEvents(e)]
TextSent == [x \in Sent |-> IF x.type = "output_text.delta" THEN x.delta ELSE <<>>]
CallSent == [x \in Sent |-> IF x.type = "output_item.done" THEN <<x.call>> ELSE <<>>]

\* What is sent for each event, as functions.
LEMMA SentMaps ==
    /\ IsMap(SentOf, Inputs, Sent)
    /\ IsMap(TextSent, Sent, Fragments)
    /\ IsMap(CallSent, Sent, Call)
  <1>1. ASSUME NEW e \in Inputs PROVE ResponsesEvents(e) \in Seq(Sent)
    <2>1. CASE TextOf(e) # <<>>
      <3> DEFINE x == [type |-> "output_text.delta", delta |-> TextOf(e)]
      <3>1. x \in Sent
        BY InputTypes DEF Sent
      <3>2. ResponsesEvents(e) = <<x>>
        BY <2>1 DEF ResponsesEvents, TextOf
      <3> HIDE DEF x
      <3>3. <<x>> \in Seq(Sent)
        BY <3>1
      <3>4. QED
        BY <3>2, <3>3
    <2>2. CASE TextOf(e) = <<>> /\ e.type = "tool-call"
      <3>1. [id |-> e.tool.id, arguments |-> Arguments(e.tool)] \in Call
        BY <2>2, InputTypes DEF Tool, Call, Arguments
      <3>2. QED
        BY <2>2, <3>1 DEF ResponsesEvents, Sent
    <2>3. CASE TextOf(e) = <<>> /\ e.type # "tool-call"
      BY <2>3, EmptySeq DEF ResponsesEvents
    <2>4. QED
      BY <2>1, <2>2, <2>3
  <1>2. ASSUME NEW x \in Sent
        PROVE  /\ (IF x.type = "output_text.delta" THEN x.delta ELSE <<>>) \in Seq(Fragments)
               /\ (IF x.type = "output_item.done" THEN <<x.call>> ELSE <<>>) \in Seq(Call)
    BY EmptySeq DEF Sent
  <1>3. QED
    BY <1>1, <1>2 DEF IsMap, SentOf, TextSent, CallSent

\* The two streams, as what comes of each event.
LEMMA SentIsEach ==
    /\ \A s \in Seq(Inputs) : ResponsesStream(s) = Each(SentOf, s)
    /\ \A x \in Seq(Sent) : StreamedText(x) = Each(TextSent, x)
    /\ \A x \in Seq(Sent) : StreamedCalls(x) = Each(CallSent, x)
  <1>1. ASSUME NEW s \in Seq(Inputs) PROVE ResponsesStream(s) = Each(SentOf, s)
    <2>1. DOMAIN s = 1..Len(s) /\ \A i \in 1..Len(s) : s[i] \in Inputs
      BY LenProperties, ElementOfSeq
    <2>2. [i \in 1..Len(s) |-> ResponsesEvents(s[i])] = [i \in DOMAIN s |-> SentOf[s[i]]]
      BY <2>1 DEF SentOf
    <2>3. QED
      BY <2>2 DEF ResponsesStream, Each
  <1>2. ASSUME NEW x \in Seq(Sent)
        PROVE  StreamedText(x) = Each(TextSent, x) /\ StreamedCalls(x) = Each(CallSent, x)
    <2>1. DOMAIN x = 1..Len(x) /\ \A i \in 1..Len(x) : x[i] \in Sent
      BY LenProperties, ElementOfSeq
    <2>2. [i \in DOMAIN x |-> IF x[i].type = "output_text.delta" THEN x[i].delta ELSE <<>>]
              = [i \in DOMAIN x |-> TextSent[x[i]]]
      BY <2>1 DEF TextSent
    <2>3. [i \in DOMAIN x |-> IF x[i].type = "output_item.done" THEN <<x[i].call>> ELSE <<>>]
              = [i \in DOMAIN x |-> CallSent[x[i]]]
      BY <2>1 DEF CallSent
    <2>4. QED
      BY <2>2, <2>3 DEF StreamedText, StreamedCalls, Each
  <1>3. QED
    BY <1>1, <1>2

\* One event sends its text and its call.
LEMMA SentByOne ==
    ASSUME NEW e \in Inputs
    PROVE  /\ Each(TextSent, ResponsesEvents(e)) = TextOf(e)
           /\ Each(CallSent, ResponsesEvents(e))
                 = IF e.type = "tool-call"
                   THEN <<[id |-> e.tool.id, arguments |-> Arguments(e.tool)]>> ELSE <<>>
  <1>1. Each(TextSent, <<>>) = <<>> /\ Each(CallSent, <<>>) = <<>>
    BY EachEmpty
  <1>2. CASE TextOf(e) # <<>>
    <2> DEFINE x == [type |-> "output_text.delta", delta |-> TextOf(e)]
    <2>1. x \in Sent /\ TextSent[x] = TextOf(e) /\ CallSent[x] = <<>>
      BY InputTypes DEF Sent, TextSent, CallSent
    <2>2. ResponsesEvents(e) = <<x>> /\ e.type # "tool-call"
      BY <1>2 DEF ResponsesEvents, TextOf
    <2> HIDE DEF x
    <2>3. QED
      BY <2>1, <2>2, EachOne, SentMaps
  <1>3. CASE TextOf(e) = <<>> /\ e.type = "tool-call"
    <2> DEFINE c == [id |-> e.tool.id, arguments |-> Arguments(e.tool)]
               x == [type |-> "output_item.done", call |-> c]
    <2>1. c \in Call
      BY <1>3, InputTypes DEF Tool, Call, Arguments
    <2>2. x \in Sent /\ TextSent[x] = <<>> /\ CallSent[x] = <<c>>
      BY <2>1 DEF Sent, TextSent, CallSent
    <2>3. ResponsesEvents(e) = <<x>>
      BY <1>3 DEF ResponsesEvents
    <2> HIDE DEF x
    <2>4. QED
      BY <1>3, <2>2, <2>3, EachOne, SentMaps
  <1>4. CASE TextOf(e) = <<>> /\ e.type # "tool-call"
    BY <1>1, <1>4 DEF ResponsesEvents
  <1>5. QED
    BY <1>2, <1>3, <1>4

\* The streamed text and calls are those that are collected.
SentIsCollected(s) ==
    /\ StreamedText(ResponsesStream(s)) = CollectChat(s).content
    /\ StreamedCalls(ResponsesStream(s)) = CollectChat(s).tools

\* What a Responses client was sent is what was collected.
LEMMA SentCollected == \A s \in Seq(Inputs) : SentIsCollected(s)
  <1> DEFINE T == {s \in Seq(Inputs) : SentIsCollected(s)}
  <1>1. <<>> \in T
    <2>1. <<>> \in Seq(Inputs) /\ <<>> \in Seq(Sent)
      BY EmptySeq
    <2>2. ResponsesStream(<<>>) = <<>> /\ StreamedText(<<>>) = <<>> /\ StreamedCalls(<<>>) = <<>>
      BY <2>1, SentIsEach, EachEmpty
    <2>3. CollectChat(<<>>) = NoChat
      BY CollectChatEmpty
    <2>4. QED
      BY <2>1, <2>2, <2>3 DEF SentIsCollected, NoChat
  <1>2. ASSUME NEW s \in Seq(Inputs), NEW e \in Inputs, s \in T PROVE Append(s, e) \in T
    <2> DEFINE t == Append(s, e)
               c == CollectChat(s)
               x == ResponsesStream(s)
               y == ResponsesEvents(e)
    <2>1. t \in Seq(Inputs)
      BY AppendProperties
    <2>2. x \in Seq(Sent) /\ ResponsesStream(t) = x \o y /\ y \in Seq(Sent)
      <3>1. Each(SentOf, s) \in Seq(Sent) /\ Each(SentOf, t) = Each(SentOf, s) \o SentOf[e]
        BY SentMaps, EachProperties
      <3>2. SentOf[e] = y
        BY DEF SentOf
      <3>3. y \in Seq(Sent)
        BY <3>2, SentMaps DEF IsMap
      <3>4. QED
        BY <2>1, <3>1, <3>2, <3>3, SentIsEach
    <2>3. c \in ChatAnswer /\ CollectChat(t) = CollectChatEvent(c, e)
      BY CollectChatAppend
    <2>4. StreamedText(x) = c.content /\ StreamedCalls(x) = c.tools
      BY <1>2 DEF SentIsCollected
    <2> HIDE DEF x, y, t, c
    <2>5. x \o y \in Seq(Sent)
      BY <2>2, ConcatProperties
    <2>6. /\ Each(TextSent, x \o y) = Each(TextSent, x) \o Each(TextSent, y)
          /\ Each(CallSent, x \o y) = Each(CallSent, x) \o Each(CallSent, y)
      BY <2>2, SentMaps, EachConcat
    <2>7. Each(TextSent, x) = c.content /\ Each(CallSent, x) = c.tools
      BY <2>2, <2>4, SentIsEach
    <2>8. /\ Each(TextSent, y) = TextOf(e)
          /\ Each(CallSent, y) = IF e.type = "tool-call"
                   THEN <<[id |-> e.tool.id, arguments |-> Arguments(e.tool)]>> ELSE <<>>
      BY SentByOne DEF y
    <2>9. StreamedText(x \o y) = CollectChat(t).content
      <3>1. CollectChat(t).content = c.content \o TextOf(e)
        BY <2>3, CollectChatFields
      <3>2. QED
        BY <2>5, <2>6, <2>7, <2>8, <3>1, SentIsEach
    <2>10. StreamedCalls(x \o y) = CollectChat(t).tools
      <3> DEFINE call == [id |-> e.tool.id, arguments |-> Arguments(e.tool)]
      <3>1. CollectChat(t).tools = IF e.type = "tool-call" THEN Append(c.tools, call) ELSE c.tools
        BY <2>3, CollectChatFields
      <3>2. c.tools \in Seq(Call) /\ (e.type = "tool-call" => call \in Call)
        BY <2>3, InputTypes DEF ChatAnswer, Tool, Call, Arguments
      <3>3. StreamedCalls(x \o y) = c.tools \o Each(CallSent, y)
        BY <2>5, <2>6, <2>7, SentIsEach
      <3> HIDE DEF call
      <3>4. CASE e.type = "tool-call"
        <4>1. Append(c.tools, call) = c.tools \o <<call>>
          BY <3>2, <3>4, AppendIsConcat
        <4>2. Each(CallSent, y) = <<call>>
          BY <2>8, <3>4 DEF call
        <4>3. QED
          BY <3>1, <3>3, <3>4, <4>1, <4>2
      <3>5. CASE e.type # "tool-call"
        <4>1. c.tools \o <<>> = c.tools
          BY <3>2, ConcatEmptySeq
        <4>2. QED
          BY <2>8, <3>1, <3>3, <3>5, <4>1
      <3>6. QED
        BY <3>4, <3>5
    <2>11. QED
      BY <2>1, <2>2, <2>9, <2>10 DEF SentIsCollected, t
  <1> HIDE DEF T
  <1>3. \A s \in Seq(Inputs) : s \in T
    BY <1>1, <1>2, SeqInduction
  <1>4. QED
    BY <1>3 DEF T

\* Whatever events there are, a Responses client gets the same in both modes.
LEMMA ResponsesAgree ==
    ASSUME fed \in Seq(Inputs)
    PROVE  ResponsesModesAgree
  <1>1. SentIsCollected(fed)
    BY SentCollected
  <1>2. QED
    BY <1>1 DEF SentIsCollected, ResponsesModesAgree, ResponsesObject,
                ResponsesText, CompletedOutput
-----------------------------------------------------------------------------
(* Chat Completions: the client that puts the chunks together. *)

Part == [index : {0}, id : ToolIDs \cup {""}, arguments : {"", "null", "object", "array", "json", "string"}]
PartList == {<<>>} \cup {<<p>> : p \in Part}
ChatChunk == [content : Seq(Fragments), reasoning : Seq(Fragments),
              tools : PartList, reason : Reasons]
Parted == [{} -> Seq(Part)] \cup [{0} -> Seq(Part)]
ChatMessage == [content : Seq(Fragments), reasoning : Seq(Fragments), reason : Reasons,
                tools : Parted]
NoMessage == [content |-> <<>>, reasoning |-> <<>>, reason |-> "",
              tools |-> [i \in {} |-> <<>>]]

\* The parts of the only call there is, with one more.
WithPart(t, p) == [i \in {0} |-> (IF 0 \in DOMAIN t THEN t[0] ELSE <<>>) \o <<p>>]

\* A list of parts with one more is a list of parts.
LEMMA WithPartType ==
    ASSUME NEW t \in Parted, NEW p \in Part
    PROVE  WithPart(t, p) \in Parted
  <1> DEFINE z == IF 0 \in DOMAIN t THEN t[0] ELSE <<>>
             u == <<p>>
  <1>1. z \in Seq(Part) /\ u \in Seq(Part)
    <2>1. CASE t \in [{} -> Seq(Part)]
      BY <2>1, EmptySeq
    <2>2. CASE t \in [{0} -> Seq(Part)]
      BY <2>2
    <2>3. QED
      BY <2>1, <2>2 DEF Parted
  <1> HIDE DEF z, u
  <1>2. z \o u \in Seq(Part)
    BY <1>1, ConcatProperties
  <1>3. [i \in {0} |-> z \o u] \in Parted
    BY <1>2 DEF Parted
  <1>4. QED
    BY <1>3 DEF WithPart, z, u

\* What a chunk adds to the calls.
LEMMA ToolsOf ==
    ASSUME NEW t \in Parted, NEW q \in PartList
    PROVE  AddParts(t, q) = IF q = <<>> THEN t ELSE WithPart(t, q[1])
  <1> DEFINE D == {q[j].index : j \in DOMAIN q}
             P(i) == IF i \in DOMAIN t THEN t[i] ELSE <<>>
             F(i) == FlattenSeq([j \in DOMAIN q |-> IF q[j].index = i THEN <<q[j]>> ELSE <<>>])
  <1>0. SUFFICES [i \in DOMAIN t \cup D |-> P(i) \o F(i)]
                    = IF q = <<>> THEN t ELSE WithPart(t, q[1])
    BY Zenon DEF AddParts
  <1>1. CASE q = <<>>
    <2>1. DOMAIN q = {} /\ {q[j].index : j \in DOMAIN q} = {}
      BY <1>1
    <2>2. \A i : [j \in DOMAIN q |-> IF q[j].index = i THEN <<q[j]>> ELSE <<>>] = <<>>
      BY <1>1, <2>1
    <2>3. FlattenSeq(<<>>) = <<>>
      BY EmptySeq, FlattenProperties
    <2>4. ASSUME NEW i \in DOMAIN t PROVE t[i] \o <<>> = t[i]
      <3>1. t[i] \in Seq(Part)
        BY DEF Parted
      <3>2. QED
        BY <3>1, ConcatEmptySeq
    <2>5. t = [i \in DOMAIN t |-> t[i]]
      BY DEF Parted
    <2>6. D = {} /\ (\A i : F(i) = <<>>) /\ \A i \in DOMAIN t : P(i) = t[i]
      BY <2>1, <2>2, <2>3
    <2> HIDE DEF D, F, P
    <2>7. [i \in DOMAIN t \cup D |-> P(i) \o F(i)] = [i \in DOMAIN t |-> t[i]]
      BY <2>4, <2>6
    <2>8. QED
      BY <1>1, <2>5, <2>7
  <1>2. CASE q # <<>>
    <2>1. PICK p \in Part : q = <<p>>
      BY <1>2 DEF PartList
    <2>2. p.index = 0 /\ DOMAIN q = {1} /\ q[1] = p
      <3>1. p.index = 0
        BY DEF Part
      <3>2. DOMAIN <<p>> = {1} /\ <<p>>[1] = p
        OBVIOUS
      <3>3. QED
        BY <2>1, <3>1, <3>2
    <2>3. {q[j].index : j \in DOMAIN q} = {0}
      BY <2>2
    <2>4. DOMAIN t \cup {0} = {0}
      BY DEF Parted
    <2>5. [j \in DOMAIN q |-> IF q[j].index = 0 THEN <<q[j]>> ELSE <<>>] = <<<<p>>>>
      BY <2>1, <2>2
    <2>6. FlattenSeq(<<<<p>>>>) = <<p>>
      <3> DEFINE x == <<p>>
                 z == <<>>
      <3>1. x \in Seq(Part) /\ z \in Seq(Seq(Part)) /\ Append(z, x) = <<x>> /\ z = <<>>
        BY EmptySeq
      <3>2. <<>> \o x = x
        BY <3>1, ConcatEmptySeq
      <3> HIDE DEF x, z
      <3>3. FlattenSeq(Append(z, x)) = FlattenSeq(z) \o x /\ FlattenSeq(<<>>) = <<>>
        BY <3>1, FlattenProperties
      <3>4. FlattenSeq(<<x>>) = x
        BY <3>1, <3>2, <3>3
      <3>5. QED
        BY <3>4 DEF x
    <2>7. D = {0} /\ F(0) = <<p>>
      BY <2>3, <2>5, <2>6
    <2> HIDE DEF D, F
    <2>8. [i \in DOMAIN t \cup D |-> P(i) \o F(i)] = [i \in {0} |-> P(0) \o <<p>>]
      BY <2>4, <2>7
    <2>9. WithPart(t, p) = [i \in {0} |-> P(0) \o <<p>>]
      BY DEF WithPart
    <2>10. QED
      BY <1>2, <2>2, <2>8, <2>9
  <1>3. QED
    BY <1>1, <1>2

\* What a chunk of each kind does to the message.
LEMMA AssembleFields ==
    ASSUME NEW m \in ChatMessage, NEW c \in ChatChunk, NEW n, n = AssembleChunk(m, c)
    PROVE  /\ n \in ChatMessage
           /\ n.content = m.content \o c.content
           /\ n.reasoning = m.reasoning \o c.reasoning
           /\ n.reason = IF c.reason # "" THEN c.reason ELSE m.reason
           /\ n.tools = IF c.tools = <<>> THEN m.tools ELSE WithPart(m.tools, c.tools[1])
  <1> DEFINE x1 == m.content \o c.content
             x2 == m.reasoning \o c.reasoning
             x3 == IF c.reason # "" THEN c.reason ELSE m.reason
             x4 == IF c.tools = <<>> THEN m.tools ELSE WithPart(m.tools, c.tools[1])
  <1>1. /\ m.content \in Seq(Fragments) /\ m.reasoning \in Seq(Fragments)
        /\ m.reason \in Reasons /\ m.tools \in Parted
    BY DEF ChatMessage
  <1>2. /\ c.content \in Seq(Fragments) /\ c.reasoning \in Seq(Fragments)
        /\ c.reason \in Reasons /\ c.tools \in PartList
    BY DEF ChatChunk
  <1>3. n = [content |-> x1, reasoning |-> x2, reason |-> x3, tools |-> x4]
    <2>1. x4 = AddParts(m.tools, c.tools)
      BY <1>1, <1>2, ToolsOf
    <2> HIDE DEF x4
    <2>2. QED
      BY <2>1 DEF AssembleChunk
  <1>4. x1 \in Seq(Fragments) /\ x2 \in Seq(Fragments) /\ x3 \in Reasons
    BY <1>1, <1>2, ConcatProperties
  <1>5. x4 \in Parted
    <2>1. CASE c.tools = <<>>
      BY <1>1, <2>1
    <2>2. CASE c.tools # <<>>
      <3>1. c.tools[1] \in Part
        BY <1>2, <2>2 DEF PartList
      <3>2. QED
        BY <1>1, <2>2, <3>1, WithPartType
    <2>3. QED
      BY <2>1, <2>2
  <1> HIDE DEF x1, x2, x3, x4
  <1>6. n \in ChatMessage /\ n.content = x1 /\ n.reasoning = x2 /\ n.reason = x3 /\ n.tools = x4
    BY <1>3, <1>4, <1>5 DEF ChatMessage
  <1>7. QED
    BY <1>6 DEF x1, x2, x3, x4

AssembleStep == [x \in ChatMessage \X ChatChunk |-> AssembleChunk(x[1], x[2])]

\* Assembling one more chunk is a step.
LEMMA AssembleIsStep == NoMessage \in ChatMessage /\ IsStep(AssembleStep, ChatMessage, ChatChunk)
  <1>1. [i \in {} |-> <<>>] \in Parted
    BY DEF Parted
  <1>2. NoMessage \in ChatMessage
    BY <1>1, EmptySeq, EventAssumption DEF NoMessage, ChatMessage
  <1>3. QED
    BY <1>2, AssembleFields DEF AssembleStep, IsStep

\* AssembleChat is a run.
LEMMA AssembleIsRun ==
    ASSUME NEW s \in Seq(ChatChunk)
    PROVE  AssembleChat(s) = Run(ChatMessage, AssembleStep, NoMessage, s)
  <1> DEFINE Body(f) == [S \in SUBSET (DOMAIN s) |->
                           IF S = {} THEN NoMessage
                           ELSE AssembleChunk(f[S \ {Max(S)}], s[Max(S)])]
             it == CHOOSE f : f = Body(f)
  <1>1. DOMAIN s = 1..Len(s)
    BY LenProperties
  <1>2. \A a \in ChatMessage, e \in ChatChunk : AssembleStep[<<a, e>>] = AssembleChunk(a, e)
    BY DEF AssembleStep
  <1>3. PICK g : Total(g, ChatMessage, ChatChunk, AssembleStep, NoMessage, s)
    BY AssembleIsStep, TotalExists
  <1>4. g = Body(g)
    BY <1>1, <1>2, <1>3 DEF Total
  <1>5. it = Body(it)
    BY <1>4
  <1> HIDE DEF it
  <1>6. Folds(it, ChatMessage, AssembleStep, NoMessage, s)
    BY <1>1, <1>2, <1>3, <1>5 DEF Folds, Total
  <1>7. it[1..Len(s)] = Run(ChatMessage, AssembleStep, NoMessage, s)
    BY AssembleIsStep, <1>6, FoldValue
  <1>8. AssembleChat(s) = it[DOMAIN s]
    BY DEF it, AssembleChat, NoMessage, FoldLeft, MapThenFoldSet
  <1>9. QED
    BY <1>1, <1>7, <1>8

\* One more chunk.
LEMMA AssembleAppend ==
    ASSUME NEW s \in Seq(ChatChunk), NEW c \in ChatChunk
    PROVE  /\ AssembleChat(s) \in ChatMessage
           /\ AssembleChat(Append(s, c)) = AssembleChunk(AssembleChat(s), c)
  <1>1. Append(s, c) \in Seq(ChatChunk)
    BY AppendProperties
  <1>2. /\ AssembleChat(s) = Run(ChatMessage, AssembleStep, NoMessage, s)
        /\ AssembleChat(Append(s, c)) = Run(ChatMessage, AssembleStep, NoMessage, Append(s, c))
    BY <1>1, AssembleIsRun
  <1>3. /\ Run(ChatMessage, AssembleStep, NoMessage, s) \in ChatMessage
        /\ Run(ChatMessage, AssembleStep, NoMessage, Append(s, c))
              = AssembleStep[<<Run(ChatMessage, AssembleStep, NoMessage, s), c>>]
    BY AssembleIsStep, RunAppend
  <1>4. \A a \in ChatMessage : AssembleStep[<<a, c>>] = AssembleChunk(a, c)
    BY DEF AssembleStep
  <1>5. QED
    BY <1>2, <1>3, <1>4

\* What is assembled of no chunks.
LEMMA AssembleEmpty == AssembleChat(<<>>) = NoMessage
  <1>1. <<>> \in Seq(ChatChunk)
    BY EmptySeq
  <1>2. AssembleChat(<<>>) = Run(ChatMessage, AssembleStep, NoMessage, <<>>)
    BY <1>1, AssembleIsRun
  <1>3. Run(ChatMessage, AssembleStep, NoMessage, <<>>) = NoMessage
    BY AssembleIsStep, RunEmpty DEF IsStep
  <1>4. QED
    BY <1>2, <1>3

\* The parts of a call.
StartPart(e) == ToolPart(0, e.tool.id, "")
ArgumentPart(e) == ToolPart(0, "", ChatArguments(e.tool))

\* The parts of a tool call are parts.
LEMMA PartTypes ==
    ASSUME NEW e \in Inputs, e.type = "tool-call"
    PROVE  StartPart(e) \in Part /\ ArgumentPart(e) \in Part
  <1>1. e.tool.id \in ToolIDs /\ e.tool.input \in {"nil", "object", "array", "json", "string"}
    BY InputTypes DEF Tool
  <1>2. QED
    BY <1>1 DEF StartPart, ArgumentPart, ToolPart, Part, ChatArguments

\* What an event does to the assembled message.
Adds(m, e, n) ==
    /\ n.content = m.content \o TextOf(e)
    /\ n.reasoning = IF e.type = "reasoning-delta" THEN m.reasoning \o e.text
                     ELSE m.reasoning
    /\ n.reason = IF e.type = "finish" /\ e.reason # "" THEN e.reason ELSE m.reason
    /\ n.tools = IF e.type = "tool-call"
                 THEN WithPart(WithPart(m.tools, StartPart(e)), ArgumentPart(e))
                 ELSE m.tools

\* What the chunks of an event add to the message.
LEMMA ChunksAdd ==
    ASSUME NEW x \in Seq(ChatChunk), NEW e \in Inputs,
           NEW m, m = AssembleChat(x), NEW n, n = AssembleChat(x \o ChatChunks(e))
    PROVE  /\ ChatChunks(e) \in Seq(ChatChunk)
           /\ m \in ChatMessage /\ n \in ChatMessage
           /\ Adds(m, e, n)
  <1> DEFINE none == <<>>
  <1> USE DEF Adds
  <1>1. none \in Seq(Fragments) /\ none \in PartList /\ "" \in Reasons
    BY EmptySeq, EventAssumption DEF PartList
  <1>2. /\ e \in Event /\ e.text \in Seq(Fragments) /\ TextOf(e) \in Seq(Fragments)
        /\ e.reason \in Reasons
    BY InputTypes
  <1>3. \A a \in Seq(Fragments) : a \o none = a
    BY ConcatEmptySeq
  <1>4. x \o <<>> = x
    BY ConcatEmptySeq
  <1>5. \A c \in ChatChunk : <<c>> \in Seq(ChatChunk) /\ x \o <<c>> = Append(x, c)
    BY AppendIsConcat
  <1>6. e.type \notin {"text", "delta", "text-delta"} => TextOf(e) = none
    BY DEF TextOf
  <1>7. ASSUME NEW c \in ChatChunk, ChatChunks(e) = <<c>>
        PROVE  /\ m \in ChatMessage /\ n \in ChatMessage /\ ChatChunks(e) \in Seq(ChatChunk)
               /\ n.content = m.content \o c.content
               /\ n.reasoning = m.reasoning \o c.reasoning
               /\ n.reason = IF c.reason # "" THEN c.reason ELSE m.reason
               /\ c.tools = none => n.tools = m.tools
    <2>1. m \in ChatMessage /\ n = AssembleChunk(m, c)
      BY <1>5, <1>7, AssembleAppend
    <2>2. QED
      BY <1>5, <1>7, <2>1, AssembleFields
  <1>8. m \in ChatMessage /\ m.content \in Seq(Fragments) /\ m.reasoning \in Seq(Fragments)
    <2> DEFINE c == Chunk(none, none, none, "")
               empty == ""
    <2>0. c = Chunk(none, none, none, empty) /\ empty \in Reasons
      BY <1>1
    <2> HIDE DEF c, none, empty
    <2>1. c \in ChatChunk
      BY ONLY <1>1, <2>0 DEF Chunk, ChatChunk
    <2>2. m \in ChatMessage
      BY <2>1, AssembleAppend
    <2>3. QED
      BY <2>2 DEF ChatMessage
  <1>9. CASE e.type = "text" \/ TextOf(e) # none
    <2> DEFINE t == TextOf(e)
               c == Chunk(t, none, none, "")
    <2>1. ChatChunks(e) = <<c>>
      BY <1>9 DEF ChatChunks, TextOf
    <2>2. e.type \notin {"reasoning-delta", "finish", "tool-call"}
      BY <1>6, <1>9
    <2> DEFINE empty == ""
    <2>0. c = Chunk(t, none, none, empty) /\ empty \in Reasons /\ t \in Seq(Fragments)
      BY <1>1, <1>2
    <2> HIDE DEF c, none, t, empty
    <2>3. /\ c \in ChatChunk /\ c.content = t /\ c.reasoning = none
          /\ c.tools = none /\ c.reason = empty
      BY ONLY <1>1, <2>0 DEF Chunk, ChatChunk
    <2> USE DEF t, empty
    <2>4. QED
      BY <1>3, <1>7, <1>8, <2>1, <2>2, <2>3
  <1>10. CASE e.type = "reasoning-delta"
    <2>1. CASE e.text # none
      <3> DEFINE t == e.text
                 c == Chunk(none, t, none, "")
      <3>1. ChatChunks(e) = <<c>>
        BY <1>10, <2>1 DEF ChatChunks, TextOf
      <3> DEFINE empty == ""
      <3>0. c = Chunk(none, t, none, empty) /\ empty \in Reasons /\ t \in Seq(Fragments)
        BY <1>1, <1>2
      <3> HIDE DEF c, none, t, empty
      <3>2. /\ c \in ChatChunk /\ c.content = none /\ c.reasoning = t
            /\ c.tools = none /\ c.reason = empty
        BY ONLY <1>1, <3>0 DEF Chunk, ChatChunk
      <3> USE DEF t, empty
      <3>3. QED
        BY <1>3, <1>6, <1>7, <1>8, <1>10, <3>1, <3>2
    <2>2. CASE e.text = none
      <3>1. ChatChunks(e) = <<>>
        BY <1>10, <2>2 DEF ChatChunks, TextOf
      <3>2. n = m /\ <<>> \in Seq(ChatChunk)
        BY <1>4, <3>1, EmptySeq
      <3> HIDE DEF none
      <3>3. QED
        BY <1>3, <1>6, <1>8, <1>10, <2>2, <3>1, <3>2
    <2>3. QED
      BY <2>1, <2>2
  <1>11. CASE e.type = "tool-call"
    <2> DEFINE p == StartPart(e)
               q == ArgumentPart(e)
               ps == <<p>>
               qs == <<q>>
               empty == ""
               a == Chunk(none, none, ps, empty)
               b == Chunk(none, none, qs, empty)
    <2>1. ChatChunks(e) = <<a, b>>
      BY <1>11 DEF ChatChunks, TextOf, StartPart, ArgumentPart
    <2>2. p \in Part /\ q \in Part
      BY <1>11, PartTypes
    <2> HIDE DEF none, p, q
    <2>3. /\ ps \in PartList /\ qs \in PartList
          /\ ps # <<>> /\ qs # <<>> /\ ps[1] = p /\ qs[1] = q
          /\ empty \in Reasons
      BY <1>1, <2>2 DEF PartList
    <2>4. a = Chunk(none, none, ps, empty) /\ b = Chunk(none, none, qs, empty)
      OBVIOUS
    <2> HIDE DEF a, b, ps, qs, empty
    <2>41. /\ a \in ChatChunk /\ a.content = none /\ a.reasoning = none
           /\ a.tools = ps /\ a.reason = empty
      BY ONLY <1>1, <2>3, <2>4 DEF Chunk, ChatChunk
    <2>42. /\ b \in ChatChunk /\ b.content = none /\ b.reasoning = none
           /\ b.tools = qs /\ b.reason = empty
      BY ONLY <1>1, <2>3, <2>4 DEF Chunk, ChatChunk
    <2> DEFINE y == Append(x, a)
               w == AssembleChat(y)
    <2>5. y \in Seq(ChatChunk) /\ x \o <<a, b>> = Append(y, b) /\ <<a, b>> \in Seq(ChatChunk)
      BY <2>41, <2>42, TwoMore
    <2> HIDE DEF y
    <2>6. w = AssembleChunk(m, a) /\ n = AssembleChunk(w, b)
      <3>1. AssembleChat(Append(x, a)) = AssembleChunk(m, a)
        BY <2>41, AssembleAppend
      <3>2. AssembleChat(Append(y, b)) = AssembleChunk(AssembleChat(y), b)
        BY <2>42, <2>5, AssembleAppend
      <3>3. QED
        BY <2>1, <2>5, <3>1, <3>2 DEF y
    <2> HIDE DEF w
    <2>7. /\ w \in ChatMessage /\ w.content = m.content \o none
          /\ w.reasoning = m.reasoning \o none
          /\ w.reason = m.reason /\ w.tools = WithPart(m.tools, p)
      <3>1. /\ w \in ChatMessage /\ w.content = m.content \o a.content
            /\ w.reasoning = m.reasoning \o a.reasoning
            /\ w.reason = IF a.reason # "" THEN a.reason ELSE m.reason
            /\ w.tools = IF a.tools = <<>> THEN m.tools ELSE WithPart(m.tools, a.tools[1])
        BY ONLY <1>8, <2>41, <2>6, AssembleFields
      <3>2. QED
        BY <2>3, <2>41, <3>1 DEF empty
    <2>8. /\ n \in ChatMessage /\ n.content = w.content \o none
          /\ n.reasoning = w.reasoning \o none
          /\ n.reason = w.reason /\ n.tools = WithPart(w.tools, q)
      <3>1. /\ n \in ChatMessage /\ n.content = w.content \o b.content
            /\ n.reasoning = w.reasoning \o b.reasoning
            /\ n.reason = IF b.reason # "" THEN b.reason ELSE w.reason
            /\ n.tools = IF b.tools = <<>> THEN w.tools ELSE WithPart(w.tools, b.tools[1])
        BY ONLY <2>42, <2>6, <2>7, AssembleFields
      <3>2. QED
        BY <2>3, <2>42, <3>1 DEF empty
    <2>9. n.content = m.content /\ n.reasoning = m.reasoning
      BY <1>3, <1>8, <2>7, <2>8
    <2>10. m.content = m.content \o TextOf(e)
      BY <1>3, <1>6, <1>8, <1>11
    <2>11. QED
      BY <1>8, <1>11, <2>1, <2>5, <2>7, <2>8, <2>9, <2>10 DEF p, q
  <1>12. CASE e.type = "finish"
    <2> DEFINE r == e.reason
               c == Chunk(none, none, none, r)
    <2>1. ChatChunks(e) = <<c>>
      BY <1>12 DEF ChatChunks, TextOf
    <2>0. c = Chunk(none, none, none, r) /\ r \in Reasons
      BY <1>2
    <2> HIDE DEF c, none, r
    <2>2. /\ c \in ChatChunk /\ c.content = none /\ c.reasoning = none
          /\ c.tools = none /\ c.reason = r
      BY ONLY <1>1, <2>0 DEF Chunk, ChatChunk
    <2> USE DEF r
    <2>3. QED
      BY <1>3, <1>6, <1>7, <1>8, <1>12, <2>1, <2>2
  <1>13. CASE e.type \in {"delta", "text-delta", "other"} /\ TextOf(e) = none
    <2>1. ChatChunks(e) = <<>>
      BY <1>13 DEF ChatChunks
    <2>2. n = m /\ <<>> \in Seq(ChatChunk)
      BY <1>4, <2>1, EmptySeq
    <2> HIDE DEF none
    <2>3. QED
      BY <1>3, <1>6, <1>8, <1>13, <2>1, <2>2
  <1>14. QED
    BY <1>2, <1>9, <1>10, <1>11, <1>12, <1>13 DEF Event
-----------------------------------------------------------------------------
(* Chat Completions: both modes. *)

\* The two parts of a tool call, one after the other.
LEMMA TwoParts ==
    ASSUME NEW t \in Parted, NEW p \in Part, NEW q \in Part,
           NEW w, w = WithPart(WithPart(t, p), q)
    PROVE  DOMAIN w = {0} /\ (DOMAIN t = {} => w[0] = <<p, q>>)
  <1>1. DOMAIN w = {0}
    BY DEF WithPart
  <1>2. ASSUME DOMAIN t = {} PROVE w[0] = <<p, q>>
    <2> DEFINE u == WithPart(t, p)
               x == <<p>>
    <2>1. x \in Seq(Part) /\ <<>> \o x = x
      BY ConcatEmptySeq
    <2>2. 0 \in DOMAIN u /\ u[0] = x
      <3>1. 0 \notin DOMAIN t
        BY <1>2
      <3>2. u[0] = <<>> \o x /\ 0 \in DOMAIN u
        BY <3>1 DEF WithPart
      <3>3. QED
        BY <2>1, <3>2
    <2>3. w[0] = u[0] \o <<q>>
      <3> HIDE DEF u
      <3>1. WithPart(u, q)[0] = u[0] \o <<q>>
        BY <2>2 DEF WithPart
      <3>2. QED
        BY <3>1 DEF u
    <2>4. x \o <<q>> = <<p, q>>
      BY PairIs
    <2>5. QED
      BY <2>2, <2>3, <2>4
  <1>3. QED
    BY <1>1, <1>2

HasCall(s) == \E i \in 1..Len(s) : s[i].type = "tool-call"

\* There is a tool call among one more event.
LEMMA CallAppend ==
    ASSUME NEW s \in Seq(Inputs), NEW e \in Inputs
    PROVE  HasCall(Append(s, e)) <=> HasCall(s) \/ e.type = "tool-call"
  <1> DEFINE t == Append(s, e)
             n == Len(s)
  <1>1. /\ n \in Nat /\ Len(t) = n + 1 /\ t[n + 1] = e
        /\ \A i \in 1..n : t[i] = s[i]
    BY AppendProperties, LenProperties
  <1> HIDE DEF t, n
  <1>2. HasCall(t) <=> HasCall(s) \/ e.type = "tool-call"
    <2>1. HasCall(s) <=> \E i \in 1..n : s[i].type = "tool-call"
      BY DEF HasCall, n
    <2>2. ASSUME HasCall(t) PROVE HasCall(s) \/ e.type = "tool-call"
      <3>1. PICK i \in 1..(n + 1) : t[i].type = "tool-call"
        BY <1>1, <2>2 DEF HasCall
      <3>2. CASE i = n + 1
        BY <1>1, <3>1, <3>2
      <3>3. CASE i # n + 1
        <4>1. i \in 1..n
          BY <1>1, <3>3
        <4>2. QED
          BY <1>1, <2>1, <3>1, <4>1
      <3>4. QED
        BY <3>2, <3>3
    <2>3. ASSUME HasCall(s) PROVE HasCall(t)
      <3>1. PICK i \in 1..n : s[i].type = "tool-call"
        BY <2>1, <2>3
      <3>2. i \in 1..(n + 1) /\ t[i].type = "tool-call"
        BY <1>1, <3>1
      <3>3. QED
        BY <1>1, <3>2 DEF HasCall
    <2>4. ASSUME e.type = "tool-call" PROVE HasCall(t)
      <3>1. n + 1 \in 1..(n + 1)
        BY <1>1
      <3>2. QED
        BY <1>1, <2>4, <3>1 DEF HasCall
    <2>5. QED
      BY <2>2, <2>3, <2>4
  <1>3. QED
    BY <1>2 DEF t

ChatOf == [e \in Inputs |-> ChatChunks(e)]

\* The chunks of each event, as a function.
LEMMA ChatMaps == IsMap(ChatOf, Inputs, ChatChunk)
  <1>1. ASSUME NEW e \in Inputs PROVE ChatChunks(e) \in Seq(ChatChunk)
    <2>1. <<>> \in Seq(ChatChunk)
      BY EmptySeq
    <2>2. QED
      BY <2>1, ChunksAdd
  <1>2. QED
    BY <1>1 DEF IsMap, ChatOf

\* The chunks of one more event come at the end.
LEMMA ChatStreamProperties ==
    /\ ChatStream(<<>>) = <<>>
    /\ \A s \in Seq(Inputs) : \A e \in Inputs :
          /\ ChatStream(s) \in Seq(ChatChunk)
          /\ ChatStream(Append(s, e)) = ChatStream(s) \o ChatChunks(e)
  <1>1. ASSUME NEW s \in Seq(Inputs) PROVE ChatStream(s) = Each(ChatOf, s)
    <2>1. DOMAIN s = 1..Len(s) /\ \A i \in 1..Len(s) : s[i] \in Inputs
      BY LenProperties, ElementOfSeq
    <2>2. [i \in 1..Len(s) |-> ChatChunks(s[i])] = [i \in DOMAIN s |-> ChatOf[s[i]]]
      BY <2>1 DEF ChatOf
    <2>3. QED
      BY <2>2 DEF ChatStream, Each
  <1>2. ChatStream(<<>>) = <<>>
    <2>1. <<>> \in Seq(Inputs)
      BY EmptySeq
    <2>2. QED
      BY <1>1, <2>1, EachEmpty
  <1>3. ASSUME NEW s \in Seq(Inputs), NEW e \in Inputs
        PROVE  /\ ChatStream(s) \in Seq(ChatChunk)
               /\ ChatStream(Append(s, e)) = ChatStream(s) \o ChatChunks(e)
    <2>1. /\ Each(ChatOf, s) \in Seq(ChatChunk)
          /\ Each(ChatOf, Append(s, e)) = Each(ChatOf, s) \o ChatOf[e]
      BY ChatMaps, EachProperties
    <2>2. Append(s, e) \in Seq(Inputs) /\ ChatOf[e] = ChatChunks(e)
      BY AppendProperties DEF ChatOf
    <2>3. QED
      BY <1>1, <2>1, <2>2
  <1>4. QED
    BY <1>2, <1>3

\* The message that is put together is the one that is collected.
Same(m, c) ==
    /\ m.content = c.content
    /\ m.reasoning = c.reasoning
    /\ c.reason = IF m.reason = "" THEN "stop" ELSE m.reason
OneCall(m, c) ==
    Len(c.tools) = 1 =>
        \E arguments \in {c.tools[1].arguments}
                            \cup (IF c.tools[1].arguments = "{}" THEN {"null"} ELSE {}) :
            m.tools[0] = PartsOf(c.tools[1].id, arguments)
Calls(has, m, c) == IF has THEN DOMAIN m.tools = {0} /\ c.tools # <<>>
                           ELSE DOMAIN m.tools = {} /\ c.tools = <<>>
Assembled(s) == LET m == AssembleChat(ChatStream(s))
                    c == CollectChat(s)
                IN  Same(m, c) /\ OneCall(m, c) /\ Calls(HasCall(s), m, c)

\* The message that is assembled is the one that is collected.
LEMMA ChatAssembled == \A s \in Seq(Inputs) : Assembled(s)
  <1> DEFINE T == {s \in Seq(Inputs) : Assembled(s)}
  <1>1. <<>> \in T
    <2>1. <<>> \in Seq(Inputs) /\ HasCall(<<>>) = FALSE
      <3>1. Len(<<>>) = 0 /\ 1..0 = {}
        BY EmptySeq
      <3>2. QED
        BY <3>1, EmptySeq DEF HasCall
    <2>2. AssembleChat(ChatStream(<<>>)) = NoMessage /\ CollectChat(<<>>) = NoChat
      BY ChatStreamProperties, AssembleEmpty, CollectChatEmpty
    <2>3. Same(NoMessage, NoChat)
      BY DEF Same, NoMessage, NoChat
    <2>4. OneCall(NoMessage, NoChat)
      <3>1. NoChat.tools = <<>> /\ Len(<<>>) # 1
        BY EmptySeq DEF NoChat
      <3>2. QED
        BY <3>1 DEF OneCall
    <2>5. Calls(FALSE, NoMessage, NoChat)
      <3>1. NoChat.tools = <<>> /\ NoMessage.tools = [i \in {} |-> <<>>]
        BY DEF NoChat, NoMessage
      <3>2. QED
        BY <3>1 DEF Calls
    <2>6. Assembled(<<>>)
      BY <2>1, <2>2, <2>3, <2>4, <2>5, Zenon DEF Assembled
    <2>7. QED
      BY <2>1, <2>6
  <1>2. ASSUME NEW s \in Seq(Inputs), NEW e \in Inputs, s \in T PROVE Append(s, e) \in T
    <2> DEFINE t == Append(s, e)
               x == ChatStream(s)
               m == AssembleChat(x)
               n == AssembleChat(x \o ChatChunks(e))
               c == CollectChat(s)
               d == CollectChat(t)
    <2>1. t \in Seq(Inputs)
      BY AppendProperties
    <2>2. x \in Seq(ChatChunk) /\ ChatStream(t) = x \o ChatChunks(e)
      BY ChatStreamProperties
    <2>3. HasCall(t) <=> HasCall(s) \/ e.type = "tool-call"
      BY CallAppend
    <2>4. Same(m, c) /\ OneCall(m, c) /\ Calls(HasCall(s), m, c)
      BY <1>2 DEF Assembled
    <2>5. c \in ChatAnswer /\ d = CollectChatEvent(c, e)
      BY CollectChatAppend
    <2>6. AssembleChat(ChatStream(t)) = n
      BY <2>2
    <2> HIDE DEF t, x, m, n, c, d
    <2>7. /\ d.content = c.content \o TextOf(e)
          /\ d.reasoning = IF e.type = "reasoning-delta" THEN c.reasoning \o e.text
                           ELSE c.reasoning
          /\ d.tools = IF e.type = "tool-call"
                       THEN Append(c.tools, [id |-> e.tool.id, arguments |-> Arguments(e.tool)])
                       ELSE c.tools
          /\ d.reason = IF e.type = "finish" /\ e.reason # "" THEN e.reason ELSE c.reason
      BY <2>5, CollectChatFields
    <2>8. m \in ChatMessage /\ Adds(m, e, n)
      BY <2>2, ChunksAdd DEF m, n
    <2>9. Same(n, d)
      BY <2>4, <2>7, <2>8 DEF Same, Adds
    <2>10. OneCall(n, d) /\ Calls(HasCall(t), n, d)
      <3>1. CASE e.type # "tool-call"
        <4>1. n.tools = m.tools /\ d.tools = c.tools /\ (HasCall(t) <=> HasCall(s))
          BY <2>3, <2>7, <2>8, <3>1 DEF Adds
        <4>2. QED
          BY <2>4, <4>1 DEF OneCall, Calls
      <3>2. CASE e.type = "tool-call"
        <4> DEFINE p == StartPart(e)
                   q == ArgumentPart(e)
                   call == [id |-> e.tool.id, arguments |-> Arguments(e.tool)]
        <4>1. p \in Part /\ q \in Part
          BY <3>2, PartTypes
        <4>2. call \in Call /\ call.id = e.tool.id /\ call.arguments = Arguments(e.tool)
          BY <3>2, InputTypes DEF Call, Tool, Arguments
        <4>3. c.tools \in Seq(Call) /\ m.tools \in Parted
          BY <2>5, <2>8 DEF ChatAnswer, ChatMessage
        <4>4. n.tools = WithPart(WithPart(m.tools, p), q) /\ d.tools = Append(c.tools, call)
          BY <2>7, <2>8, <3>2 DEF Adds
        <4>5. \/ Arguments(e.tool) = ChatArguments(e.tool)
              \/ Arguments(e.tool) = "{}" /\ ChatArguments(e.tool) = "null"
          BY DEF Arguments, ChatArguments
        <4>6. PartsOf(e.tool.id, ChatArguments(e.tool)) = <<p, q>>
          BY DEF PartsOf, StartPart, ArgumentPart
        <4> HIDE DEF p, q, call
        <4>7. DOMAIN n.tools = {0} /\ (DOMAIN m.tools = {} => n.tools[0] = <<p, q>>)
          BY <4>1, <4>3, <4>4, TwoParts
        <4>8. /\ Len(c.tools) \in Nat /\ Len(d.tools) = Len(c.tools) + 1
              /\ d.tools[Len(c.tools) + 1] = call /\ d.tools # <<>>
          BY <4>2, <4>3, <4>4, AppendProperties, LenProperties, EmptySeq
        <4>9. Calls(HasCall(t), n, d)
          BY <2>3, <3>2, <4>7, <4>8 DEF Calls
        <4>10. ASSUME Len(d.tools) = 1
               PROVE  \E arguments \in {d.tools[1].arguments}
                            \cup (IF d.tools[1].arguments = "{}" THEN {"null"} ELSE {}) :
                          n.tools[0] = PartsOf(d.tools[1].id, arguments)
          <5>1. Len(c.tools) = 0 /\ d.tools[1] = call
            BY <4>8, <4>10
          <5>2. c.tools = <<>>
            BY <4>3, <5>1, EmptySeq
          <5>3. DOMAIN m.tools = {}
            BY <2>4, <5>2 DEF Calls
          <5>4. n.tools[0] = PartsOf(call.id, ChatArguments(e.tool))
            BY <4>2, <4>6, <4>7, <5>3
          <5>5. ChatArguments(e.tool) \in {call.arguments}
                            \cup (IF call.arguments = "{}" THEN {"null"} ELSE {})
            BY <4>2, <4>5
          <5>6. QED
            BY <5>1, <5>4, <5>5
        <4>11. QED
          BY <4>9, <4>10 DEF OneCall
      <3>3. QED
        BY <3>1, <3>2
    <2>11. Assembled(t)
      BY <2>6, <2>9, <2>10 DEF Assembled, d
    <2>12. QED
      BY <2>1, <2>11 DEF t
  <1> HIDE DEF T
  <1>3. \A s \in Seq(Inputs) : s \in T
    BY <1>1, <1>2, SeqInduction
  <1>4. QED
    BY <1>3 DEF T

\* Whatever events there are, a Chat Completions client gets the same in both modes.
LEMMA ChatAgree ==
    ASSUME fed \in Seq(Inputs)
    PROVE  ChatModesAgree
  <1> DEFINE m == AssembleChat(ChatStream(fed))
             c == CollectChat(fed)
  <1>1. Same(m, c) /\ OneCall(m, c) /\ Calls(HasCall(fed), m, c)
    BY ChatAssembled DEF Assembled
  <1> HIDE DEF m, c
  <1>2. HasCall(fed) <=> DOMAIN m.tools # {}
    BY <1>1 DEF Calls
  <1>3. QED
    BY <1>1, <1>2 DEF Same, OneCall, HasCall, ChatModesAgree, m, c
-----------------------------------------------------------------------------
(* Messages: the client that puts the blocks together, and the blocks joined. *)

\* A block, as the client puts it together and as it is collected.
OneBlock == [block : {"text", "thinking", "tool_use", ""}, content : Content]
Blocks == Seq(OneBlock)
NoBlocks == <<>>

\* The text of what a block carries.
LEMMA TextInType ==
    ASSUME NEW c \in Content
    PROVE  /\ TextIn(c) \in Seq(Fragments)
           /\ \A t \in Seq(Fragments) : /\ TextIn(TextContent(t)) = t
                                        /\ TextContent(t) \in Content
                                        /\ TextContent(t) # NoContent
  <1>1. <<>> \in Seq(Fragments)
    BY EmptySeq
  <1>2. TextIn(c) \in Seq(Fragments)
    <2>1. CASE c = NoContent
      BY <1>1, <2>1 DEF NoContent, TextIn
    <2>2. CASE c \in {"text"} \X Seq(Fragments)
      BY <2>2 DEF TextIn
    <2>3. CASE c \in {"tool"} \X ToolIDs \X ToolTexts
      <3>1. c[1] = "tool"
        BY <2>3
      <3>2. QED
        BY <1>1, <3>1 DEF TextIn
    <2>4. CASE c \in {"stop"} \X {mapAnthropicStreamStopReason(r) : r \in Reasons}
                              \X (Nat \cup {NoUsage})
      <3>1. c[1] = "stop"
        BY <2>4
      <3>2. QED
        BY <1>1, <3>1 DEF TextIn
    <2>5. QED
      BY <2>1, <2>2, <2>3, <2>4 DEF Content
  <1>3. ASSUME NEW t \in Seq(Fragments)
        PROVE  /\ TextIn(TextContent(t)) = t
               /\ TextContent(t) \in Content
               /\ TextContent(t) # NoContent
    BY EventTypes DEF TextIn, TextContent, NoContent
  <1>4. QED
    BY <1>2, <1>3

\* The fields of a block.
LEMMA BlockFields ==
    ASSUME NEW b, NEW c
    PROVE  Block(b, c).block = b /\ Block(b, c).content = c
  BY DEF Block
-----------------------------------------------------------------------------
\* A block that continues the last one.
LEMMA JoinTypes ==
    /\ NoBlocks \in Blocks
    /\ \A acc \in Blocks, b \in OneBlock : JoinBlock(acc, b) \in Blocks
  <1>1. NoBlocks \in Blocks
    BY EmptySeq DEF NoBlocks, Blocks
  <1>2. ASSUME NEW acc \in Blocks, NEW b \in OneBlock PROVE JoinBlock(acc, b) \in Blocks
    <2> DEFINE n == Len(acc)
               v == TextContent(TextIn(acc[n].content) \o TextIn(b.content))
    <2>1. acc \in Seq(OneBlock) /\ n \in Nat /\ b.content \in Content
      BY LenProperties DEF Blocks, OneBlock
    <2>2. CASE acc # <<>> /\ Joins(Last(acc), b)
      <3>1. n \in 1..n /\ acc[n] \in OneBlock
        BY <2>1, <2>2, EmptySeq, ElementOfSeq
      <3>2. acc[n].content \in Content
        BY <3>1 DEF OneBlock
      <3>3. v \in Content
        <4>1. TextIn(acc[n].content) \o TextIn(b.content) \in Seq(Fragments)
          BY <2>1, <3>2, TextInType, ConcatProperties
        <4>2. QED
          BY <4>1, EventTypes
      <3>4. JoinBlock(acc, b) = [acc EXCEPT ![n] = [acc[n] EXCEPT !.content = v]]
        BY <2>2 DEF JoinBlock
      <3> HIDE DEF v
      <3> DEFINE r == [acc[n] EXCEPT !.content = v]
      <3>5. r \in OneBlock
        BY <3>1, <3>3 DEF OneBlock
      <3> HIDE DEF r
      <3>6. [acc EXCEPT ![n] = r] \in Seq(OneBlock)
        BY <2>1, <3>1, <3>5, ExceptSeq
      <3>7. QED
        BY <3>4, <3>6 DEF Blocks, r
    <2>3. CASE ~(acc # <<>> /\ Joins(Last(acc), b))
      <3>1. JoinBlock(acc, b) = Append(acc, b)
        BY <2>3 DEF JoinBlock
      <3>2. Append(acc, b) \in Seq(OneBlock)
        BY <2>1, AppendProperties
      <3>3. QED
        BY <3>1, <3>2 DEF Blocks
    <2>4. QED
      BY <2>2, <2>3
  <1>3. QED
    BY <1>1, <1>2

JoinStep == [x \in Blocks \X OneBlock |-> JoinBlock(x[1], x[2])]

\* Joining one more block is a step.
LEMMA JoinIsStep == NoBlocks \in Blocks /\ IsStep(JoinStep, Blocks, OneBlock)
  BY JoinTypes DEF JoinStep, IsStep

\* Join is a run.
LEMMA JoinIsRun ==
    ASSUME NEW s \in Seq(OneBlock)
    PROVE  Join(s) = Run(Blocks, JoinStep, NoBlocks, s)
  <1> DEFINE Body(f) == [S \in SUBSET (DOMAIN s) |->
                           IF S = {} THEN NoBlocks ELSE JoinBlock(f[S \ {Max(S)}], s[Max(S)])]
             it == CHOOSE f : f = Body(f)
  <1>1. DOMAIN s = 1..Len(s)
    BY LenProperties
  <1>2. \A a \in Blocks, b \in OneBlock : JoinStep[<<a, b>>] = JoinBlock(a, b)
    BY DEF JoinStep
  <1>3. PICK g : Total(g, Blocks, OneBlock, JoinStep, NoBlocks, s)
    BY JoinIsStep, TotalExists
  <1>4. g = Body(g)
    BY <1>1, <1>2, <1>3 DEF Total
  <1>5. it = Body(it)
    BY <1>4
  <1> HIDE DEF it
  <1>6. Folds(it, Blocks, JoinStep, NoBlocks, s)
    BY <1>1, <1>2, <1>3, <1>5 DEF Folds, Total
  <1>7. it[1..Len(s)] = Run(Blocks, JoinStep, NoBlocks, s)
    BY JoinIsStep, <1>6, FoldValue
  <1>8. Join(s) = it[DOMAIN s]
    BY DEF it, Join, NoBlocks, FoldLeft, MapThenFoldSet
  <1>9. QED
    BY <1>1, <1>7, <1>8

\* One more block.
LEMMA JoinAppend ==
    ASSUME NEW s \in Seq(OneBlock), NEW b \in OneBlock
    PROVE  /\ Join(s) \in Blocks
           /\ Join(Append(s, b)) = JoinBlock(Join(s), b)
  <1>1. Append(s, b) \in Seq(OneBlock)
    BY AppendProperties
  <1>2. /\ Join(s) = Run(Blocks, JoinStep, NoBlocks, s)
        /\ Join(Append(s, b)) = Run(Blocks, JoinStep, NoBlocks, Append(s, b))
    BY <1>1, JoinIsRun
  <1>3. /\ Run(Blocks, JoinStep, NoBlocks, s) \in Blocks
        /\ Run(Blocks, JoinStep, NoBlocks, Append(s, b))
              = JoinStep[<<Run(Blocks, JoinStep, NoBlocks, s), b>>]
    BY JoinIsStep, RunAppend
  <1>4. \A a \in Blocks : JoinStep[<<a, b>>] = JoinBlock(a, b)
    BY DEF JoinStep
  <1>5. QED
    BY <1>2, <1>3, <1>4

\* No blocks are joined to none.
LEMMA JoinEmpty == Join(<<>>) = NoBlocks
  <1>1. <<>> \in Seq(OneBlock)
    BY EmptySeq
  <1>2. Join(<<>>) = Run(Blocks, JoinStep, NoBlocks, <<>>)
    BY <1>1, JoinIsRun
  <1>3. Run(Blocks, JoinStep, NoBlocks, <<>>) = NoBlocks
    BY JoinIsStep, RunEmpty DEF IsStep
  <1>4. QED
    BY <1>2, <1>3

-----------------------------------------------------------------------------
\* The client of Messages.
LEMMA AssembledTypes ==
    /\ NoBlocks \in Blocks
    /\ \A bs \in Blocks, e \in WireEvent : AssembleEvent(bs, e) \in Blocks
  <1>1. NoBlocks \in Blocks
    BY JoinTypes
  <1>2. ASSUME NEW bs \in Blocks, NEW e \in WireEvent PROVE AssembleEvent(bs, e) \in Blocks
    <2>1. bs \in Seq(OneBlock) /\ Len(bs) \in Nat /\ DOMAIN bs = 1..Len(bs)
      BY LenProperties DEF Blocks
    <2>2. e.block \in {"text", "thinking", "tool_use", ""} /\ e.content \in Content
          /\ e.index \in Int
      BY DEF WireEvent, Wire!WireEvent
    <2>3. CASE e.type = "content_block_start"
      <3> DEFINE b == Block(e.block, NoContent)
      <3>1. b \in OneBlock
        BY <2>2, EventTypes DEF Block, OneBlock
      <3>2. AssembleEvent(bs, e) = Append(bs, b)
        BY <2>3 DEF AssembleEvent
      <3> HIDE DEF b
      <3>3. Append(bs, b) \in Seq(OneBlock)
        BY <2>1, <3>1, AppendProperties
      <3>4. QED
        BY <3>2, <3>3 DEF Blocks
    <2>4. CASE e.type = "content_block_delta"
      <3> DEFINE n == e.index + 1
                 v == IF bs[n].content = NoContent THEN e.content
                      ELSE TextContent(TextIn(bs[n].content) \o TextIn(e.content))
      <3>1. AssembleEvent(bs, e) = [bs EXCEPT ![n] = [bs[n] EXCEPT !.content = v]]
        BY <2>4 DEF AssembleEvent
      <3>2. CASE n \in DOMAIN bs
        <4>0. n \in 1..Len(bs)
          BY <2>1, <3>2
        <4>1. bs[n] \in OneBlock /\ bs[n].content \in Content
          <5> HIDE DEF n
          <5>1. bs[n] \in OneBlock
            BY <2>1, <4>0, ElementOfSeq
          <5>2. QED
            BY <5>1 DEF OneBlock
        <4>2. TextIn(bs[n].content) \o TextIn(e.content) \in Seq(Fragments)
          BY <2>2, <4>1, TextInType, ConcatProperties
        <4>3. v \in Content
          BY <2>2, <4>2, EventTypes
        <4> HIDE DEF v, n
        <4> DEFINE r == [bs[n] EXCEPT !.content = v]
        <4>4. r \in OneBlock
          BY <4>1, <4>3 DEF OneBlock
        <4> HIDE DEF r
        <4>5. [bs EXCEPT ![n] = r] \in Seq(OneBlock)
          BY <2>1, <4>0, <4>4, ExceptSeq
        <4>6. QED
          BY <3>1, <4>5 DEF Blocks, r
      <3>3. CASE n \notin DOMAIN bs
        <4> HIDE DEF v, n
        <4>1. [bs EXCEPT ![n] = [bs[n] EXCEPT !.content = v]] = bs
          BY <2>1, <3>3
        <4>2. QED
          BY <3>1, <4>1
      <3>4. QED
        BY <3>2, <3>3
    <2>5. CASE e.type \notin {"content_block_start", "content_block_delta"}
      <3>1. AssembleEvent(bs, e) = bs
        BY <2>5 DEF AssembleEvent
      <3>2. QED
        BY <3>1
    <2>6. QED
      BY <2>3, <2>4, <2>5
  <1>3. QED
    BY <1>1, <1>2

AssembledStep == [x \in Blocks \X WireEvent |-> AssembleEvent(x[1], x[2])]

\* Assembling one more event is a step.
LEMMA AssembledIsStep == NoBlocks \in Blocks /\ IsStep(AssembledStep, Blocks, WireEvent)
  BY AssembledTypes DEF AssembledStep, IsStep

\* AssembleBlocks is a run.
LEMMA AssembledIsRun ==
    ASSUME NEW s \in Seq(WireEvent)
    PROVE  AssembleBlocks(s) = Run(Blocks, AssembledStep, NoBlocks, s)
  <1> DEFINE Body(f) == [S \in SUBSET (DOMAIN s) |->
                           IF S = {} THEN NoBlocks ELSE AssembleEvent(f[S \ {Max(S)}], s[Max(S)])]
             it == CHOOSE f : f = Body(f)
  <1>1. DOMAIN s = 1..Len(s)
    BY LenProperties
  <1>2. \A a \in Blocks, e \in WireEvent : AssembledStep[<<a, e>>] = AssembleEvent(a, e)
    BY DEF AssembledStep
  <1>3. PICK g : Total(g, Blocks, WireEvent, AssembledStep, NoBlocks, s)
    BY AssembledIsStep, TotalExists
  <1>4. g = Body(g)
    BY <1>1, <1>2, <1>3 DEF Total
  <1>5. it = Body(it)
    BY <1>4
  <1> HIDE DEF it
  <1>6. Folds(it, Blocks, AssembledStep, NoBlocks, s)
    BY <1>1, <1>2, <1>3, <1>5 DEF Folds, Total
  <1>7. it[1..Len(s)] = Run(Blocks, AssembledStep, NoBlocks, s)
    BY AssembledIsStep, <1>6, FoldValue
  <1>8. AssembleBlocks(s) = it[DOMAIN s]
    BY DEF it, AssembleBlocks, NoBlocks, FoldLeft, MapThenFoldSet
  <1>9. QED
    BY <1>1, <1>7, <1>8

\* One more event.
LEMMA AssembledAppend ==
    ASSUME NEW s \in Seq(WireEvent), NEW e \in WireEvent
    PROVE  /\ AssembleBlocks(s) \in Blocks
           /\ AssembleBlocks(Append(s, e)) = AssembleEvent(AssembleBlocks(s), e)
  <1>1. Append(s, e) \in Seq(WireEvent)
    BY AppendProperties
  <1>2. /\ AssembleBlocks(s) = Run(Blocks, AssembledStep, NoBlocks, s)
        /\ AssembleBlocks(Append(s, e)) = Run(Blocks, AssembledStep, NoBlocks, Append(s, e))
    BY <1>1, AssembledIsRun
  <1>3. /\ Run(Blocks, AssembledStep, NoBlocks, s) \in Blocks
        /\ Run(Blocks, AssembledStep, NoBlocks, Append(s, e))
              = AssembledStep[<<Run(Blocks, AssembledStep, NoBlocks, s), e>>]
    BY AssembledIsStep, RunAppend
  <1>4. \A a \in Blocks : AssembledStep[<<a, e>>] = AssembleEvent(a, e)
    BY DEF AssembledStep
  <1>5. QED
    BY <1>2, <1>3, <1>4

\* No events make no blocks.
LEMMA AssembledEmpty == AssembleBlocks(<<>>) = NoBlocks
  <1>1. <<>> \in Seq(WireEvent)
    BY EmptySeq
  <1>2. AssembleBlocks(<<>>) = Run(Blocks, AssembledStep, NoBlocks, <<>>)
    BY <1>1, AssembledIsRun
  <1>3. Run(Blocks, AssembledStep, NoBlocks, <<>>) = NoBlocks
    BY AssembledIsStep, RunEmpty DEF IsStep
  <1>4. QED
    BY <1>2, <1>3

\* A block with more text.
Longer(b, c) == [b EXCEPT !.content = TextContent(TextIn(b.content) \o TextIn(c))]

\* A block is joined to the last one, or comes after it.
LEMMA JoinBlockCases ==
    ASSUME NEW acc \in Blocks, NEW b
    PROVE  /\ acc # <<>> /\ Joins(acc[Len(acc)], b) =>
                 JoinBlock(acc, b) = [acc EXCEPT ![Len(acc)] = Longer(acc[Len(acc)], b.content)]
           /\ ~(acc # <<>> /\ Joins(acc[Len(acc)], b)) => JoinBlock(acc, b) = Append(acc, b)
  BY DEF JoinBlock, Last, Longer

\* The last block with more text is a block.
LEMMA LongerFields ==
    ASSUME NEW b \in OneBlock, NEW c \in Content
    PROVE  /\ Longer(b, c) \in OneBlock
           /\ Longer(b, c).block = b.block
           /\ Longer(b, c).content = TextContent(TextIn(b.content) \o TextIn(c))
  <1> DEFINE v == TextContent(TextIn(b.content) \o TextIn(c))
  <1>1. b.content \in Content
    BY DEF OneBlock
  <1>2. TextIn(b.content) \o TextIn(c) \in Seq(Fragments)
    BY <1>1, TextInType, ConcatProperties
  <1>3. v \in Content
    BY <1>2, EventTypes
  <1> HIDE DEF v
  <1>4. Longer(b, c) = [b EXCEPT !.content = v]
    BY DEF Longer, v
  <1>5. Longer(b, c) \in OneBlock /\ Longer(b, c).block = b.block /\ Longer(b, c).content = v
    BY <1>3, <1>4 DEF OneBlock
  <1>6. QED
    BY <1>5 DEF v

\* Two blocks of one text, or one block of it.
LEMMA JoinTwice ==
    ASSUME NEW acc \in Blocks, NEW b \in {"text", "thinking"},
           NEW u \in Seq(Fragments), NEW t \in Seq(Fragments)
    PROVE  JoinBlock(JoinBlock(acc, Block(b, TextContent(u))), Block(b, TextContent(t)))
             = JoinBlock(acc, Block(b, TextContent(u \o t)))
  <1> DEFINE x == Block(b, TextContent(u))
             y == Block(b, TextContent(t))
             z == Block(b, TextContent(u \o t))
             n == Len(acc)
             w == JoinBlock(acc, x)
  <1>1. /\ u \o t \in Seq(Fragments)
        /\ TextContent(u) \in Content /\ TextContent(t) \in Content
        /\ TextContent(u \o t) \in Content
        /\ TextIn(TextContent(u)) = u /\ TextIn(TextContent(t)) = t
        /\ TextIn(TextContent(u \o t)) = u \o t
    <2>1. u \o t \in Seq(Fragments)
      BY ConcatProperties
    <2>2. \A a \in Seq(Fragments) : TextContent(a) \in Content /\ TextIn(TextContent(a)) = a
      BY EventTypes, TextInType
    <2>3. QED
      BY <2>1, <2>2
  <1>2. /\ x \in OneBlock /\ x.block = b /\ x.content = TextContent(u)
        /\ y \in OneBlock /\ y.block = b /\ y.content = TextContent(t)
        /\ z \in OneBlock /\ z.block = b /\ z.content = TextContent(u \o t)
    BY <1>1 DEF Block, OneBlock
  <1>3. /\ acc \in Seq(OneBlock) /\ n \in Nat /\ (acc # <<>> => n \in 1..n /\ acc[n] \in OneBlock)
    BY LenProperties, EmptySeq, ElementOfSeq DEF Blocks
  <1>4. Joins(acc[n], x) <=> Joins(acc[n], z)
    BY <1>2 DEF Joins
  <1>5. w \in Blocks
    BY <1>2, JoinTypes
  <1> HIDE DEF x, y, z
  <1>6. CASE acc # <<>> /\ Joins(acc[n], x)
    <2> DEFINE a == acc[n]
               la == Longer(a, x.content)
    <2>1. a \in OneBlock /\ n \in 1..n
      BY <1>3, <1>6
    <2>2. w = [acc EXCEPT ![n] = la]
      BY <1>6, JoinBlockCases
    <2>3. /\ la \in OneBlock /\ la.block = a.block
          /\ la.content = TextContent(TextIn(a.content) \o u)
      <3> HIDE DEF a
      <3>1. QED
        BY <1>1, <1>2, <2>1, LongerFields
    <2> HIDE DEF la, w
    <2>4. w \in Seq(OneBlock) /\ Len(w) = n /\ w # <<>> /\ w[n] = la
      BY <1>3, <2>1, <2>2, <2>3, ExceptSeq, EmptySeq
    <2>5. Joins(w[n], y)
      BY <1>2, <1>6, <2>3, <2>4 DEF Joins
    <2>6. JoinBlock(w, y) = [w EXCEPT ![n] = Longer(la, y.content)]
      BY <1>5, <2>4, <2>5, JoinBlockCases
    <2>7. JoinBlock(acc, z) = [acc EXCEPT ![n] = Longer(a, z.content)]
      BY <1>4, <1>6, JoinBlockCases
    <2>8. Longer(la, y.content) = Longer(a, z.content)
      <3> DEFINE v == TextIn(a.content)
      <3>1. v \in Seq(Fragments) /\ v \o u \in Seq(Fragments)
        <4>1. a.content \in Content
          BY <2>1 DEF OneBlock
        <4>2. v \in Seq(Fragments)
          BY <4>1, TextInType
        <4>3. QED
          BY <4>2, ConcatProperties
      <3>2. TextIn(la.content) = v \o u
        BY <1>1, <2>3, <3>1, TextInType
      <3>3. (v \o u) \o t = v \o (u \o t)
        BY <3>1, ConcatAssociative
      <3>4. Longer(la, y.content) = [la EXCEPT !.content = TextContent((v \o u) \o t)]
        BY <1>1, <1>2, <3>2 DEF Longer
      <3>5. Longer(a, z.content) = [a EXCEPT !.content = TextContent(v \o (u \o t))]
        BY <1>1, <1>2 DEF Longer
      <3>6. la = [a EXCEPT !.content = TextContent(v \o u)]
        BY <1>1, <1>2 DEF Longer, la
      <3> HIDE DEF a, v
      <3>7. QED
        BY <2>1, <3>3, <3>4, <3>5, <3>6 DEF OneBlock
    <2> HIDE DEF a
    <2> DEFINE q == Longer(a, z.content)
    <2>9. JoinBlock(w, y) = [[acc EXCEPT ![n] = la] EXCEPT ![n] = q]
      BY <2>2, <2>6, <2>8
    <2>10. JoinBlock(acc, z) = [acc EXCEPT ![n] = q]
      BY <2>7
    <2> HIDE DEF q
    <2>11. [[acc EXCEPT ![n] = la] EXCEPT ![n] = q] = [acc EXCEPT ![n] = q]
      BY <1>3
    <2>12. JoinBlock(w, y) = JoinBlock(acc, z)
      BY <2>9, <2>10, <2>11
    <2>13. QED
      BY <2>12 DEF w, x, y, z
  <1>7. CASE ~(acc # <<>> /\ Joins(acc[n], x))
    <2>1. w = Append(acc, x)
      BY <1>7, JoinBlockCases
    <2>2. JoinBlock(acc, z) = Append(acc, z)
      BY <1>4, <1>7, JoinBlockCases
    <2> HIDE DEF w
    <2>3. /\ w \in Seq(OneBlock) /\ Len(w) = n + 1 /\ w[n + 1] = x /\ w # <<>>
          /\ \A i \in 1..n : w[i] = acc[i]
      BY <1>2, <1>3, <2>1, AppendProperties, EmptySeq
    <2>4. Joins(w[Len(w)], y)
      BY <1>2, <2>3 DEF Joins
    <2> DEFINE q == Longer(x, y.content)
    <2>5. JoinBlock(w, y) = [w EXCEPT ![n + 1] = q]
      BY <1>5, <2>3, <2>4, JoinBlockCases
    <2>6. q = z
      <3>1. q = [x EXCEPT !.content = TextContent(u \o t)]
        BY <1>1, <1>2 DEF Longer
      <3>2. QED
        BY <1>2, <3>1 DEF x, z, Block
    <2>7. [w EXCEPT ![n + 1] = z] = Append(acc, z)
      <3> DEFINE l == [w EXCEPT ![n + 1] = z]
                 r == Append(acc, z)
      <3>1. n + 1 \in 1..Len(w)
        BY <1>3, <2>3
      <3>2. /\ l \in Seq(OneBlock) /\ Len(l) = n + 1
            /\ \A i \in 1..(n + 1) : l[i] = IF i = n + 1 THEN z ELSE w[i]
        BY <1>2, <2>3, <3>1, ExceptSeq
      <3>3. /\ r \in Seq(OneBlock) /\ Len(r) = n + 1 /\ r[n + 1] = z
            /\ \A i \in 1..n : r[i] = acc[i]
        BY <1>2, <1>3, AppendProperties
      <3>4. \A i \in 1..(n + 1) : i # n + 1 => i \in 1..n
        BY <1>3
      <3> HIDE DEF l, r
      <3>5. \A i \in 1..(n + 1) : l[i] = r[i]
        BY <2>3, <3>2, <3>3, <3>4
      <3>6. l = r
        BY <3>2, <3>3, <3>5, SeqEqual
      <3>7. QED
        BY <3>6 DEF l, r
    <2>8. JoinBlock(w, y) = JoinBlock(acc, z)
      BY <2>2, <2>5, <2>6, <2>7
    <2>9. QED
      BY <2>8 DEF w, x, y, z
  <1>8. QED
    BY <1>6, <1>7
-----------------------------------------------------------------------------
(* Messages: the collector. *)

\* What is collected for Messages.
Gathered == [text : Seq(Fragments), reasoning : Seq(Fragments), content : Blocks,
             reason : Reasons \cup {"stop"}, tokens : Nat]
NothingYet == [text |-> <<>>, reasoning |-> <<>>, content |-> <<>>,
               reason |-> "stop", tokens |-> 0]

\* The fields of what is gathered.
LEMMA GatheredFields ==
    ASSUME NEW acc \in Gathered
    PROVE  /\ acc.text \in Seq(Fragments) /\ acc.reasoning \in Seq(Fragments)
           /\ acc.content \in Blocks /\ acc.reason \in Reasons \cup {"stop"} /\ acc.tokens \in Nat
           /\ acc = [text |-> acc.text, reasoning |-> acc.reasoning, content |-> acc.content,
                     reason |-> acc.reason, tokens |-> acc.tokens]
  BY DEF Gathered

\* A block of text is one more block.
LEMMA OneMore ==
    ASSUME NEW s \in Blocks, NEW b \in {"text", "thinking"}, NEW t \in Seq(Fragments)
    PROVE  /\ Block(b, TextContent(t)) \in OneBlock
           /\ Append(s, Block(b, TextContent(t))) \in Blocks
           /\ Join(s) \in Blocks
           /\ Join(Append(s, Block(b, TextContent(t))))
                 = JoinBlock(Join(s), Block(b, TextContent(t)))
  <1> DEFINE x == Block(b, TextContent(t))
  <1>1. x \in OneBlock
    BY EventTypes DEF Block, OneBlock
  <1> HIDE DEF x
  <1>2. Append(s, x) \in Blocks
    BY <1>1, AppendProperties DEF Blocks
  <1>3. Join(s) \in Blocks /\ Join(Append(s, x)) = JoinBlock(Join(s), x)
    BY <1>1, JoinAppend DEF Blocks
  <1>4. QED
    BY <1>1, <1>2, <1>3 DEF x

\* Text or reasoning that has been gathered becomes a block.
Flush(s, b, t) == IF t = <<>> THEN s ELSE Append(s, Block(b, TextContent(t)))

\* Flushing leaves blocks.
LEMMA FlushType ==
    ASSUME NEW s \in Blocks, NEW b \in {"text", "thinking"}, NEW t \in Seq(Fragments)
    PROVE  Flush(s, b, t) \in Blocks
  BY OneMore DEF Flush

\* As the client sees it, blocks with more text.
More(s, b, t) == IF t = <<>> THEN s ELSE JoinBlock(s, Block(b, TextContent(t)))

\* Flushing text is, to the client, more text.
LEMMA FlushJoin ==
    ASSUME NEW s \in Blocks, NEW b \in {"text", "thinking"}, NEW t \in Seq(Fragments)
    PROVE  Join(Flush(s, b, t)) = More(Join(s), b, t)
  BY OneMore DEF Flush, More

\* More text and more text is more text.
LEMMA MoreTwice ==
    ASSUME NEW s \in Blocks, NEW b \in {"text", "thinking"},
           NEW t \in Seq(Fragments), NEW u \in Seq(Fragments)
    PROVE  More(More(s, b, t), b, u) = More(s, b, t \o u)
  <1>1. CASE t = <<>>
    <2>1. t \o u = u
      BY <1>1, ConcatEmptySeq
    <2>2. QED
      BY <1>1, <2>1 DEF More
  <1>2. CASE t # <<>> /\ u = <<>>
    <2>1. t \o u = t
      BY <1>2, ConcatEmptySeq
    <2>2. QED
      BY <1>2, <2>1 DEF More
  <1>3. CASE t # <<>> /\ u # <<>>
    <2>1. t \o u # <<>>
      <3>1. t \o u \in Seq(Fragments) /\ Len(t \o u) = Len(t) + Len(u)
        BY ConcatProperties
      <3>2. Len(t) \in Nat /\ Len(u) \in Nat /\ Len(t) # 0
        BY <1>3, LenProperties, EmptySeq
      <3>3. Len(t \o u) # 0
        BY <3>1, <3>2
      <3>4. QED
        BY <3>3, EmptySeq
    <2>2. JoinBlock(JoinBlock(s, Block(b, TextContent(t))), Block(b, TextContent(u)))
             = JoinBlock(s, Block(b, TextContent(t \o u)))
      BY JoinTwice
    <2>3. QED
      BY <1>3, <2>1, <2>2 DEF More
  <1>4. QED
    BY <1>1, <1>2, <1>3

\* What flushText and flushReasoning do.
FlushesReasoning(acc, f) ==
    /\ f \in Gathered
    /\ f.text = acc.text /\ f.reasoning = <<>>
    /\ f.content = Flush(acc.content, "thinking", acc.reasoning)
    /\ f.reason = acc.reason /\ f.tokens = acc.tokens
FlushesText(acc, f) ==
    /\ f \in Gathered
    /\ f.text = <<>> /\ f.reasoning = acc.reasoning
    /\ f.content = Flush(acc.content, "text", acc.text)
    /\ f.reason = acc.reason /\ f.tokens = acc.tokens

\* What flushReasoning does.
LEMMA FlushReasoningFields ==
    ASSUME NEW acc \in Gathered
    PROVE  FlushesReasoning(acc, flushReasoning(acc))
  <1> DEFINE c == Flush(acc.content, "thinking", acc.reasoning)
             none == <<>>
             r == [text |-> acc.text, reasoning |-> none, content |-> c,
                   reason |-> acc.reason, tokens |-> acc.tokens]
  <1>1. flushReasoning(acc) = r
    <2>1. CASE acc.reasoning = <<>>
      BY <2>1, GatheredFields DEF flushReasoning, Flush
    <2>2. CASE acc.reasoning # <<>>
      <3> DEFINE b == Block("thinking", TextContent(acc.reasoning))
      <3>1. flushReasoning(acc) = [acc EXCEPT !.content = Append(acc.content, b),
                                              !.reasoning = none]
        BY <2>2 DEF flushReasoning
      <3>2. c = Append(acc.content, b)
        BY <2>2 DEF Flush
      <3> HIDE DEF c, b, none
      <3>3. QED
        BY <3>1, <3>2, GatheredFields
    <2>3. QED
      BY <2>1, <2>2
  <1>2. c \in Blocks /\ none \in Seq(Fragments)
    BY GatheredFields, FlushType, EmptySeq
  <1> HIDE DEF c
  <1>3. /\ r \in Gathered /\ r.text = acc.text /\ r.reasoning = none /\ r.content = c
        /\ r.reason = acc.reason /\ r.tokens = acc.tokens
    BY <1>2, GatheredFields DEF Gathered
  <1>4. QED
    BY <1>1, <1>3 DEF FlushesReasoning, c

\* What flushText does.
LEMMA FlushTextFields ==
    ASSUME NEW acc \in Gathered
    PROVE  FlushesText(acc, flushText(acc))
  <1> DEFINE c == Flush(acc.content, "text", acc.text)
             none == <<>>
             r == [text |-> none, reasoning |-> acc.reasoning, content |-> c,
                   reason |-> acc.reason, tokens |-> acc.tokens]
  <1>1. flushText(acc) = r
    <2>1. CASE acc.text = <<>>
      BY <2>1, GatheredFields DEF flushText, Flush
    <2>2. CASE acc.text # <<>>
      <3> DEFINE b == Block("text", TextContent(acc.text))
      <3>1. flushText(acc) = [acc EXCEPT !.content = Append(acc.content, b), !.text = none]
        BY <2>2 DEF flushText
      <3>2. c = Append(acc.content, b)
        BY <2>2 DEF Flush
      <3> HIDE DEF c, b, none
      <3>3. QED
        BY <3>1, <3>2, GatheredFields
    <2>3. QED
      BY <2>1, <2>2
  <1>2. c \in Blocks /\ none \in Seq(Fragments)
    BY GatheredFields, FlushType, EmptySeq
  <1> HIDE DEF c
  <1>3. /\ r \in Gathered /\ r.text = none /\ r.reasoning = acc.reasoning /\ r.content = c
        /\ r.reason = acc.reason /\ r.tokens = acc.tokens
    BY <1>2, GatheredFields DEF Gathered
  <1>4. QED
    BY <1>1, <1>3 DEF FlushesText, c

\* The message that has been collected so far, and its blocks as the client
\* sees them.
Flushed(acc) == flushText(flushReasoning(acc))
Seen(acc) == Join(Flushed(acc).content)

\* What both do.
LEMMA FlushedFields ==
    ASSUME NEW acc \in Gathered
    PROVE  /\ Flushed(acc) \in Gathered
           /\ Flushed(acc).text = <<>> /\ Flushed(acc).reasoning = <<>>
           /\ Flushed(acc).content
                 = Flush(Flush(acc.content, "thinking", acc.reasoning), "text", acc.text)
           /\ Flushed(acc).reason = acc.reason /\ Flushed(acc).tokens = acc.tokens
           /\ Seen(acc) = More(More(Join(acc.content), "thinking", acc.reasoning), "text", acc.text)
  <1> DEFINE f == flushReasoning(acc)
             g == flushText(f)
             s == Flush(acc.content, "thinking", acc.reasoning)
  <1>1. FlushesReasoning(acc, f)
    BY FlushReasoningFields
  <1>2. FlushesText(f, g)
    BY <1>1, FlushTextFields DEF FlushesReasoning
  <1>3. s \in Blocks /\ Join(s) = More(Join(acc.content), "thinking", acc.reasoning)
    BY GatheredFields, FlushType, FlushJoin
  <1>4. Join(Flush(s, "text", acc.text)) = More(Join(s), "text", acc.text)
    BY <1>3, GatheredFields, FlushJoin
  <1> HIDE DEF f, g, s
  <1>5. g.content = Flush(s, "text", acc.text)
    BY <1>1, <1>2 DEF FlushesReasoning, FlushesText, s
  <1>6. Flushed(acc) = g
    BY DEF Flushed, f, g
  <1>7. /\ g \in Gathered /\ g.text = <<>> /\ g.reasoning = <<>>
        /\ g.reason = acc.reason /\ g.tokens = acc.tokens
    BY <1>1, <1>2 DEF FlushesReasoning, FlushesText
  <1>8. Seen(acc) = More(More(Join(acc.content), "thinking", acc.reasoning), "text", acc.text)
    BY <1>3, <1>4, <1>5, <1>6 DEF Seen
  <1>9. QED
    BY <1>5, <1>6, <1>7, <1>8 DEF s

\* Events of text.
IsText(e) == e.type \in {"text", "delta", "text-delta"}
CallBlock(e) == Block("tool_use", InputMap(e.tool))

\* The block of a tool call is a block.
LEMMA CallBlockType ==
    ASSUME NEW e \in Known, e.type = "tool-call"
    PROVE  CallBlock(e) \in OneBlock
  <1>1. e.tool.id \in ToolIDs
    BY KnownTypes DEF Tool
  <1>2. InputMap(e.tool) \in Content
    BY <1>1 DEF InputMap, Content, ToolTexts
  <1>3. QED
    BY <1>2 DEF CallBlock, Block, OneBlock

\* What each event does to what has been gathered.
SameEnd(acc, n) == n.reason = acc.reason /\ n.tokens = acc.tokens
GathersText(acc, e, n) ==
    /\ n.text = acc.text \o TextOf(e) /\ n.reasoning = <<>>
    /\ n.content = Flush(acc.content, "thinking", acc.reasoning)
    /\ SameEnd(acc, n)
GathersReasoning(acc, e, n) ==
    /\ n.text = <<>> /\ n.reasoning = acc.reasoning \o e.text
    /\ n.content = Flush(acc.content, "text", acc.text)
    /\ SameEnd(acc, n)
GathersTool(acc, e, n) ==
    /\ n.text = <<>> /\ n.reasoning = <<>>
    /\ n.content = Append(Flushed(acc).content, CallBlock(e))
    /\ SameEnd(acc, n)
GathersFinish(acc, e, n) ==
    /\ n.text = acc.text /\ n.reasoning = acc.reasoning /\ n.content = acc.content
    /\ n.reason = IF e.reason # "" THEN e.reason ELSE acc.reason
    /\ n.tokens = IF UsageOf(e) # NoUsage THEN UsageOf(e) ELSE acc.tokens

\* What each type of event does to what is gathered.
LEMMA GatherCases ==
    ASSUME NEW acc \in Gathered, NEW e \in Known, NEW n, n = CollectAnthropicEvent(acc, e)
    PROVE  /\ n \in Gathered
           /\ IsText(e) => GathersText(acc, e, n)
           /\ e.type = "reasoning-delta" => GathersReasoning(acc, e, n)
           /\ e.type = "tool-call" => GathersTool(acc, e, n)
           /\ e.type = "finish" => GathersFinish(acc, e, n)
           /\ e.type = "other" => n = acc
  <1>1. /\ e \in Event /\ e.text \in Seq(Fragments) /\ TextOf(e) \in Seq(Fragments)
        /\ e.reason \in Reasons /\ (UsageOf(e) # NoUsage => UsageOf(e) \in Nat)
    BY KnownTypes
  <1>2. CASE IsText(e)
    <2> DEFINE f == flushReasoning(acc)
               v == f.text \o TextOf(e)
    <2>1. n = [f EXCEPT !.text = v]
      BY <1>2 DEF CollectAnthropicEvent, IsText
    <2>2. FlushesReasoning(acc, f)
      BY FlushReasoningFields
    <2> HIDE DEF f
    <2>3. f \in Gathered /\ f.text = acc.text
      BY <2>2 DEF FlushesReasoning
    <2>4. v \in Seq(Fragments) /\ v = acc.text \o TextOf(e)
      BY <1>1, <2>3, GatheredFields, ConcatProperties
    <2> HIDE DEF v
    <2>5. /\ n \in Gathered /\ n.text = v /\ n.reasoning = f.reasoning /\ n.content = f.content
          /\ n.reason = f.reason /\ n.tokens = f.tokens
      BY <2>1, <2>3, <2>4 DEF Gathered
    <2>6. GathersText(acc, e, n)
      BY <2>2, <2>4, <2>5 DEF FlushesReasoning, GathersText, SameEnd
    <2>7. QED
      BY <1>2, <2>5, <2>6 DEF IsText
  <1>3. CASE e.type = "reasoning-delta"
    <2> DEFINE f == flushText(acc)
               v == f.reasoning \o e.text
    <2>1. n = [f EXCEPT !.reasoning = v]
      BY <1>3 DEF CollectAnthropicEvent
    <2>2. FlushesText(acc, f)
      BY FlushTextFields
    <2> HIDE DEF f
    <2>3. f \in Gathered /\ f.reasoning = acc.reasoning
      BY <2>2 DEF FlushesText
    <2>4. v \in Seq(Fragments) /\ v = acc.reasoning \o e.text
      BY <1>1, <2>3, GatheredFields, ConcatProperties
    <2> HIDE DEF v
    <2>5. /\ n \in Gathered /\ n.text = f.text /\ n.reasoning = v /\ n.content = f.content
          /\ n.reason = f.reason /\ n.tokens = f.tokens
      BY <2>1, <2>3, <2>4 DEF Gathered
    <2>6. GathersReasoning(acc, e, n)
      BY <2>2, <2>4, <2>5 DEF FlushesText, GathersReasoning, SameEnd
    <2>7. QED
      BY <1>3, <2>5, <2>6 DEF IsText
  <1>4. CASE e.type = "tool-call"
    <2> DEFINE f == Flushed(acc)
               b == CallBlock(e)
               v == Append(f.content, b)
    <2>1. n = [f EXCEPT !.content = v]
      BY <1>4 DEF CollectAnthropicEvent, Flushed, CallBlock
    <2>2. /\ f \in Gathered /\ f.text = <<>> /\ f.reasoning = <<>>
          /\ f.reason = acc.reason /\ f.tokens = acc.tokens
      BY FlushedFields
    <2>3. b \in OneBlock
      BY <1>4, CallBlockType
    <2> HIDE DEF f, b
    <2>4. f.content \in Seq(OneBlock)
      BY <2>2 DEF Gathered, Blocks
    <2>41. v \in Seq(OneBlock)
      BY <2>3, <2>4, AppendProperties
    <2>42. v \in Blocks
      BY <2>41 DEF Blocks
    <2> HIDE DEF v
    <2>5. /\ n \in Gathered /\ n.text = f.text /\ n.reasoning = f.reasoning /\ n.content = v
          /\ n.reason = f.reason /\ n.tokens = f.tokens
      BY <2>1, <2>2, <2>42 DEF Gathered
    <2>6. GathersTool(acc, e, n)
      BY <2>2, <2>5 DEF GathersTool, SameEnd, v, f, b
    <2>7. QED
      BY <1>4, <2>5, <2>6 DEF IsText
  <1>5. CASE e.type = "finish"
    <2> DEFINE r == IF e.reason # "" THEN e.reason ELSE acc.reason
               k == IF UsageOf(e) # NoUsage THEN UsageOf(e) ELSE acc.tokens
    <2>1. n = [acc EXCEPT !.reason = r, !.tokens = k]
      BY <1>5 DEF CollectAnthropicEvent, Finish
    <2>2. r \in Reasons \cup {"stop"} /\ k \in Nat
      BY <1>1, GatheredFields
    <2> HIDE DEF r, k
    <2>3. /\ n \in Gathered /\ n.text = acc.text /\ n.reasoning = acc.reasoning
          /\ n.content = acc.content /\ n.reason = r /\ n.tokens = k
      BY <2>1, <2>2 DEF Gathered
    <2>4. GathersFinish(acc, e, n)
      BY <2>3 DEF GathersFinish, r, k
    <2>5. QED
      BY <1>5, <2>3, <2>4 DEF IsText
  <1>6. CASE e.type = "other"
    <2>1. n = acc
      BY <1>6 DEF CollectAnthropicEvent, Finish
    <2>2. QED
      BY <1>6, <2>1 DEF IsText
  <1>7. QED
    BY <1>1, <1>2, <1>3, <1>4, <1>5, <1>6 DEF Event, IsText

\* What is gathered keeps its type.
LEMMA GatherTypes ==
    /\ NothingYet \in Gathered
    /\ \A acc \in Gathered, e \in Known : CollectAnthropicEvent(acc, e) \in Gathered
  <1>1. NothingYet \in Gathered
    BY EmptySeq DEF NothingYet, Gathered, Blocks
  <1>2. QED
    BY <1>1, GatherCases

\* All that has been gathered, before it becomes blocks.
Gather(events) == FoldLeft(CollectAnthropicEvent, NothingYet, events)

GatherStep == [x \in Gathered \X Known |-> CollectAnthropicEvent(x[1], x[2])]

\* Gathering one more event is a step.
LEMMA GatherIsStep == NothingYet \in Gathered /\ IsStep(GatherStep, Gathered, Known)
  BY GatherTypes DEF GatherStep, IsStep

\* What is gathered is a run.
LEMMA GatherIsRun ==
    ASSUME NEW s \in Seq(Known)
    PROVE  Gather(s) = Run(Gathered, GatherStep, NothingYet, s)
  <1> DEFINE Body(f) == [S \in SUBSET (DOMAIN s) |->
                           IF S = {} THEN NothingYet
                                     ELSE CollectAnthropicEvent(f[S \ {Max(S)}], s[Max(S)])]
             it == CHOOSE f : f = Body(f)
  <1>1. DOMAIN s = 1..Len(s)
    BY LenProperties
  <1>2. \A a \in Gathered, e \in Known : GatherStep[<<a, e>>] = CollectAnthropicEvent(a, e)
    BY DEF GatherStep
  <1>3. PICK g : Total(g, Gathered, Known, GatherStep, NothingYet, s)
    BY GatherIsStep, TotalExists
  <1>4. g = Body(g)
    BY <1>1, <1>2, <1>3 DEF Total
  <1>5. it = Body(it)
    BY <1>4
  <1> HIDE DEF it
  <1>6. Folds(it, Gathered, GatherStep, NothingYet, s)
    BY <1>1, <1>2, <1>3, <1>5 DEF Folds, Total
  <1>7. it[1..Len(s)] = Run(Gathered, GatherStep, NothingYet, s)
    BY GatherIsStep, <1>6, FoldValue
  <1>8. Gather(s) = it[DOMAIN s]
    BY DEF it, Gather, NothingYet, FoldLeft, MapThenFoldSet
  <1>9. QED
    BY <1>1, <1>7, <1>8

\* One more event.
LEMMA GatherAppend ==
    ASSUME NEW s \in Seq(Known), NEW e \in Known
    PROVE  /\ Gather(s) \in Gathered
           /\ Gather(Append(s, e)) = CollectAnthropicEvent(Gather(s), e)
  <1>1. Append(s, e) \in Seq(Known)
    BY AppendProperties
  <1>2. /\ Gather(s) = Run(Gathered, GatherStep, NothingYet, s)
        /\ Gather(Append(s, e)) = Run(Gathered, GatherStep, NothingYet, Append(s, e))
    BY <1>1, GatherIsRun
  <1>3. /\ Run(Gathered, GatherStep, NothingYet, s) \in Gathered
        /\ Run(Gathered, GatherStep, NothingYet, Append(s, e))
              = GatherStep[<<Run(Gathered, GatherStep, NothingYet, s), e>>]
    BY GatherIsStep, RunAppend
  <1>4. \A a \in Gathered : GatherStep[<<a, e>>] = CollectAnthropicEvent(a, e)
    BY DEF GatherStep
  <1>5. QED
    BY <1>2, <1>3, <1>4

\* What is gathered of no events.
LEMMA GatherEmpty == Gather(<<>>) = NothingYet
  <1>1. <<>> \in Seq(Known)
    BY EmptySeq
  <1>2. Gather(<<>>) = Run(Gathered, GatherStep, NothingYet, <<>>)
    BY <1>1, GatherIsRun
  <1>3. Run(Gathered, GatherStep, NothingYet, <<>>) = NothingYet
    BY GatherIsStep, RunEmpty DEF IsStep
  <1>4. QED
    BY <1>2, <1>3

\* What is gathered of events of every number.
LEMMA GatherTyped == \A s \in Seq(Known) : Gather(s) \in Gathered
  <1> SUFFICES ASSUME NEW s \in Seq(Known) PROVE Gather(s) \in Gathered
    OBVIOUS
  <1>1. CASE s = <<>>
    BY <1>1, GatherEmpty, GatherIsStep DEF IsStep
  <1>2. CASE s # <<>>
    <2>1. s[1] \in Known
      BY <1>2, EmptySeq, LenProperties, ElementOfSeq
    <2>2. QED
      BY <2>1, GatherAppend
  <1>3. QED
    BY <1>1, <1>2

\* The collector flushes at the end.
LEMMA CollectedIsFlushed == \A s : CollectAnthropic(s) = Flushed(Gather(s))
  BY DEF CollectAnthropic, Flushed, Gather, NothingYet
-----------------------------------------------------------------------------
\* What an event adds to the blocks that are seen.
Shown(s, e) == CASE IsText(e) -> More(s, "text", TextOf(e))
                 [] e.type = "reasoning-delta" -> More(s, "thinking", e.text)
                 [] e.type = "tool-call" -> JoinBlock(s, CallBlock(e))
                 [] OTHER -> s

\* Text and reasoning are never both gathered.
OneOf(acc) == acc.text = <<>> \/ acc.reasoning = <<>>

\* Blocks with more text are blocks.
LEMMA MoreType ==
    ASSUME NEW s \in Blocks, NEW b \in {"text", "thinking"}, NEW t \in Seq(Fragments)
    PROVE  More(s, b, t) \in Blocks
  <1>1. Block(b, TextContent(t)) \in OneBlock
    BY OneMore
  <1>2. QED
    BY <1>1, JoinTypes DEF More

\* What is seen of what is gathered grows by what the event shows, and text
\* and reasoning are still never both held back.
LEMMA SeenStep ==
    ASSUME NEW acc \in Gathered, OneOf(acc), NEW e \in Known,
           NEW n, n = CollectAnthropicEvent(acc, e)
    PROVE  OneOf(n) /\ Seen(n) = Shown(Seen(acc), e)
  <1> DEFINE j == Join(acc.content)
             t == acc.text
             r == acc.reasoning
  <1>1. n \in Gathered /\ t \in Seq(Fragments) /\ r \in Seq(Fragments) /\ acc.content \in Blocks
    BY GatherCases, GatheredFields
  <1>2. j \in Blocks
    <2>1. Block("text", TextContent(<<>>)) \in OneBlock
      BY <1>1, EmptySeq, OneMore
    <2>2. QED
      BY <1>1, <2>1, JoinAppend DEF Blocks
  <1>3. Seen(acc) = More(More(j, "thinking", r), "text", t)
    BY FlushedFields
  <1>4. Seen(n) = More(More(Join(n.content), "thinking", n.reasoning), "text", n.text)
    BY <1>1, FlushedFields
  <1>5. \A s, b : More(s, b, <<>>) = s
    BY DEF More
  <1>6. e \in Event /\ e.text \in Seq(Fragments) /\ TextOf(e) \in Seq(Fragments)
    BY KnownTypes
  <1>7. CASE IsText(e)
    <2> DEFINE u == TextOf(e)
               s == More(j, "thinking", r)
    <2>1. GathersText(acc, e, n)
      BY <1>7, GatherCases
    <2>2. Join(n.content) = s
      <3>1. Join(Flush(acc.content, "thinking", r)) = More(j, "thinking", r)
        BY <1>1, FlushJoin
      <3>2. QED
        BY <2>1, <3>1 DEF GathersText
    <2>3. s \in Blocks /\ u \in Seq(Fragments)
      BY <1>1, <1>2, <1>6, MoreType
    <2>4. More(More(s, "text", t), "text", u) = More(s, "text", t \o u)
      BY <1>1, <2>3, MoreTwice
    <2>5. n.reasoning = <<>> /\ n.text = t \o u
      BY <2>1 DEF GathersText
    <2> HIDE DEF s, u
    <2>6. Seen(n) = More(s, "text", t \o u)
      BY <1>4, <1>5, <2>2, <2>5
    <2>7. Shown(Seen(acc), e) = More(More(s, "text", t), "text", u)
      BY <1>3, <1>7 DEF Shown, IsText, s, u
    <2>8. QED
      BY <2>4, <2>5, <2>6, <2>7 DEF OneOf
  <1>8. CASE e.type = "reasoning-delta"
    <2> DEFINE u == e.text
               s == More(j, "text", t)
    <2>1. GathersReasoning(acc, e, n)
      BY <1>8, GatherCases
    <2>2. Join(n.content) = s
      <3>1. Join(Flush(acc.content, "text", t)) = More(j, "text", t)
        BY <1>1, FlushJoin
      <3>2. QED
        BY <2>1, <3>1 DEF GathersReasoning
    <2>3. s \in Blocks /\ u \in Seq(Fragments)
      BY <1>1, <1>2, <1>6, MoreType
    <2>4. n.reasoning = r \o u /\ n.text = <<>>
      BY <2>1 DEF GathersReasoning
    <2>5. Seen(n) = More(s, "thinking", r \o u)
      <3> HIDE DEF s, u
      <3>1. QED
        BY <1>4, <1>5, <2>2, <2>4
    <2>6. Shown(Seen(acc), e) = More(Seen(acc), "thinking", u)
      BY <1>8 DEF Shown, IsText
    <2>7. CASE t = <<>>
      <3>1. s = j
        BY <1>5, <2>7
      <3>2. Seen(acc) = More(j, "thinking", r)
        BY <1>3, <1>5, <2>7
      <3>3. More(More(j, "thinking", r), "thinking", u) = More(j, "thinking", r \o u)
        BY <1>1, <1>2, <2>3, MoreTwice
      <3> HIDE DEF s, u, j, r
      <3>4. QED
        BY <2>4, <2>5, <2>6, <3>1, <3>2, <3>3 DEF OneOf
    <2>8. CASE r = <<>>
      <3>1. Seen(acc) = s
        BY <1>3, <1>5, <2>8
      <3>2. r \o u = u
        BY <2>3, <2>8, ConcatEmptySeq
      <3> HIDE DEF s, u, j, r
      <3>3. QED
        BY <2>4, <2>5, <2>6, <3>1, <3>2 DEF OneOf
    <2>9. QED
      BY <2>7, <2>8 DEF OneOf
  <1>9. CASE e.type = "tool-call"
    <2> DEFINE s == Flushed(acc).content
               b == CallBlock(e)
    <2>1. GathersTool(acc, e, n)
      BY <1>9, GatherCases
    <2>2. s \in Seq(OneBlock) /\ b \in OneBlock
      BY <1>9, FlushedFields, CallBlockType DEF Gathered, Blocks
    <2>3. n.content = Append(s, b) /\ n.text = <<>> /\ n.reasoning = <<>>
      BY <2>1 DEF GathersTool
    <2>4. Seen(acc) = Join(s)
      BY DEF Seen
    <2>5. Shown(Seen(acc), e) = JoinBlock(Seen(acc), b)
      BY <1>9 DEF Shown, IsText
    <2> HIDE DEF s, b
    <2>6. Join(Append(s, b)) = JoinBlock(Join(s), b)
      BY <2>2, JoinAppend
    <2>7. Seen(n) = Join(n.content)
      BY <1>4, <1>5, <2>3
    <2>8. QED
      BY <2>3, <2>4, <2>5, <2>6, <2>7 DEF OneOf
  <1>10. CASE e.type = "finish"
    <2>1. GathersFinish(acc, e, n)
      BY <1>10, GatherCases
    <2>2. n.text = t /\ n.reasoning = r /\ n.content = acc.content
      BY <2>1 DEF GathersFinish
    <2>3. Shown(Seen(acc), e) = Seen(acc)
      BY <1>10 DEF Shown, IsText
    <2>4. Seen(n) = Seen(acc)
      BY <1>3, <1>4, <2>2
    <2>5. QED
      BY <2>2, <2>3, <2>4 DEF OneOf
  <1>11. CASE e.type = "other"
    <2>1. n = acc
      BY <1>11, GatherCases
    <2>2. Shown(Seen(acc), e) = Seen(acc)
      BY <1>11 DEF Shown, IsText
    <2>3. QED
      BY <2>1, <2>2
  <1>12. QED
    BY <1>6, <1>7, <1>8, <1>9, <1>10, <1>11 DEF Event, IsText
-----------------------------------------------------------------------------
(* Messages: what the stream adds to the blocks of the client. *)

\* The stop reasons that were sent.
StopsIn(s) == {s[i].content : i \in {j \in 1..Len(s) : s[j].type = "message_delta"}}

\* One more event.
LEMMA StopsAppend ==
    ASSUME NEW s \in Seq(WireEvent), NEW e \in WireEvent
    PROVE  StopsIn(Append(s, e))
              = StopsIn(s) \cup (IF e.type = "message_delta" THEN {e.content} ELSE {})
  <1> DEFINE t == Append(s, e)
             n == Len(s)
  <1>1. n \in Nat /\ Len(t) = n + 1 /\ t[n + 1] = e /\ \A i \in 1..n : t[i] = s[i]
    BY AppendProperties, LenProperties
  <1>2. 1..(n + 1) = (1..n) \cup {n + 1} /\ n + 1 \notin 1..n
    BY <1>1
  <1> HIDE DEF t, n
  <1>3. StopsIn(s) = {s[i].content : i \in {j \in 1..n : s[j].type = "message_delta"}}
    BY DEF StopsIn, n
  <1>4. StopsIn(t) = {t[i].content : i \in {j \in 1..(n + 1) : t[j].type = "message_delta"}}
    BY <1>1 DEF StopsIn
  <1>5. StopsIn(t) = StopsIn(s) \cup (IF e.type = "message_delta" THEN {e.content} ELSE {})
    BY <1>1, <1>2, <1>3, <1>4
  <1>6. QED
    BY <1>5 DEF t

\* An event of which no block and no stop reason comes.
Quiet(e) == e \in WireEvent
            /\ e.type \notin {"content_block_start", "content_block_delta", "message_delta"}
\* As much has been sent with t as with s.
AsMuch(s, t) == /\ t \in Seq(WireEvent)
                /\ AssembleBlocks(t) = AssembleBlocks(s)
                /\ StopsIn(t) = StopsIn(s)

\* A quiet event adds nothing.
LEMMA QuietEvent ==
    ASSUME NEW s \in Seq(WireEvent), NEW e, Quiet(e)
    PROVE  AsMuch(s, Append(s, e)) /\ s \o <<e>> = Append(s, e)
  <1>1. e \in WireEvent
    BY DEF Quiet
  <1>2. Append(s, e) \in Seq(WireEvent) /\ s \o <<e>> = Append(s, e)
    BY <1>1, AppendProperties, AppendIsConcat
  <1>3. AssembleBlocks(Append(s, e)) = AssembleEvent(AssembleBlocks(s), e)
    BY <1>1, AssembledAppend
  <1>4. AssembleEvent(AssembleBlocks(s), e) = AssembleBlocks(s)
    BY DEF AssembleEvent, Quiet
  <1>5. StopsIn(Append(s, e)) = StopsIn(s)
    BY <1>1, StopsAppend DEF Quiet
  <1>6. QED
    BY <1>2, <1>3, <1>4, <1>5 DEF AsMuch

\* Nothing, or a quiet event.
Aside(q) == q = <<>> \/ \E e : Quiet(e) /\ q = <<e>>

\* What is aside adds nothing.
LEMMA AsideAdds ==
    ASSUME NEW s \in Seq(WireEvent), NEW q, Aside(q)
    PROVE  AsMuch(s, s \o q) /\ q \in Seq(WireEvent)
  <1>1. CASE q = <<>>
    <2>1. s \o <<>> = s /\ <<>> \in Seq(WireEvent)
      BY ConcatEmptySeq, EmptySeq
    <2>2. QED
      BY <1>1, <2>1 DEF AsMuch
  <1>2. CASE \E e : Quiet(e) /\ q = <<e>>
    <2>1. PICK e : Quiet(e) /\ q = <<e>>
      BY <1>2
    <2>2. <<e>> \in Seq(WireEvent)
      BY <2>1, Single DEF Quiet
    <2>3. QED
      BY <2>1, <2>2, QuietEvent
  <1>3. QED
    BY <1>1, <1>2 DEF Aside

\* What is appended, after events that add nothing.
LEMMA Emitted ==
    ASSUME out \in Seq(WireEvent), NEW q, Aside(q),
           NEW tail \in Seq(WireEvent), tail # <<>>, Emit(q \o tail)
    PROVE  \E s : AsMuch(out, s) /\ out' = s \o tail
  <1> DEFINE pre == IF messageStarted THEN <<>> ELSE <<MessageStart>>
             s == out \o pre
             t == s \o q
  <1>1. Aside(pre)
    <2>1. Quiet(MessageStart)
      BY EventTypes DEF Quiet, MessageStart, SSEEvent
    <2>2. QED
      BY <2>1 DEF Aside
  <1> HIDE DEF pre
  <1>2. AsMuch(out, s) /\ pre \in Seq(WireEvent)
    BY <1>1, AsideAdds
  <1> HIDE DEF s
  <1>3. AsMuch(s, t) /\ q \in Seq(WireEvent)
    BY <1>2, AsideAdds DEF AsMuch
  <1> HIDE DEF t
  <1>4. AsMuch(out, t)
    BY <1>2, <1>3 DEF AsMuch
  <1>5. q \o tail \in Seq(WireEvent) /\ q \o tail # <<>>
    <2>1. q \o tail \in Seq(WireEvent) /\ Len(q \o tail) = Len(q) + Len(tail)
      BY <1>3, ConcatProperties
    <2>2. Len(q) \in Nat /\ Len(tail) \in Nat /\ Len(tail) # 0
      BY <1>3, LenProperties, EmptySeq
    <2>3. Len(q \o tail) # 0
      BY <2>1, <2>2
    <2>4. QED
      BY <2>1, <2>3, EmptySeq
  <1>6. out' = out \o (pre \o (q \o tail))
    <2>1. <<>> \o (q \o tail) = q \o tail
      BY <1>5, ConcatEmptySeq
    <2>2. QED
      BY <1>5, <2>1 DEF Emit, pre
  <1>7. out \o (pre \o (q \o tail)) = t \o tail
    <2>1. out \o (pre \o (q \o tail)) = (out \o pre) \o (q \o tail)
      <3> DEFINE z == q \o tail
      <3>1. z \in Seq(WireEvent)
        BY <1>5
      <3> HIDE DEF z
      <3>2. out \o (pre \o z) = (out \o pre) \o z
        BY ONLY out \in Seq(WireEvent), <1>2, <3>1, ConcatAssociative
      <3>3. QED
        BY <3>2 DEF z
    <2>2. s \o (q \o tail) = (s \o q) \o tail
      BY <1>2, <1>3, ConcatAssociative DEF AsMuch
    <2>3. QED
      BY <2>1, <2>2 DEF s, t
  <1>8. QED
    BY <1>4, <1>6, <1>7

\* The end of a block is aside.
LEMMA CloseIsAside ==
    ASSUME currentBlockIndex \in Nat
    PROVE  Aside(closeTextBlock) /\ Aside(<<>>)
  <1>1. Quiet(BlockStop(currentBlockIndex))
    BY EventTypes DEF Quiet, BlockStop, SSEEvent
  <1>2. QED
    BY <1>1 DEF Aside, closeTextBlock
-----------------------------------------------------------------------------
\* A block with its first delta.
WithBlock(s, n, b, c) == Append(Append(s, Start(n, b)), BlockDelta(n, b, c))
AddsBlock(s, b, c, t) == /\ t \in Seq(WireEvent)
                         /\ AssembleBlocks(t) = Append(AssembleBlocks(s), Block(b, c))
                         /\ StopsIn(t) = StopsIn(s)

\* A start and a delta add one block, with what the delta carries.
LEMMA BlockAdded ==
    ASSUME NEW s \in Seq(WireEvent), NEW b \in {"text", "thinking", "tool_use"},
           NEW c \in Content, NEW n \in Nat, n = Len(AssembleBlocks(s))
    PROVE  AddsBlock(s, b, c, WithBlock(s, n, b, c))
  <1> DEFINE t == WithBlock(s, n, b, c)
             x == Start(n, b)
             y == BlockDelta(n, b, c)
             B == AssembleBlocks(s)
             u == Append(s, x)
             z == Block(b, NoContent)
             w == Block(b, c)
             D == Append(B, z)
             v == [D[n + 1] EXCEPT !.content = c]
  <1>1. /\ x \in WireEvent /\ x.type = "content_block_start" /\ x.block = b
        /\ y \in WireEvent /\ y.type = "content_block_delta" /\ y.index = n /\ y.content = c
    <2>1. x \in WireEvent /\ y \in WireEvent
      BY EventTypes
    <2>2. QED
      BY <2>1 DEF Start, BlockDelta, SSEEvent
  <1>2. B \in Blocks /\ B \in Seq(OneBlock)
    BY <1>1, AssembledAppend DEF Blocks
  <1>3. z \in OneBlock /\ z.content = NoContent /\ z.block = b /\ w \in OneBlock
        /\ w = [z EXCEPT !.content = c]
    <2>1. NoContent \in Content
      BY EventTypes
    <2>2. z \in OneBlock /\ w \in OneBlock
      BY <2>1 DEF Block, OneBlock
    <2>3. z.content = NoContent /\ z.block = b /\ w = [z EXCEPT !.content = c]
      BY DEF Block
    <2>4. QED
      BY <2>2, <2>3
  <1> HIDE DEF x, y, z, w
  <1>4. u \in Seq(WireEvent) /\ t = Append(u, y) /\ t \in Seq(WireEvent)
    <2>1. u \in Seq(WireEvent)
      BY <1>1, AppendProperties
    <2>2. t = Append(u, y)
      BY DEF x, y, WithBlock
    <2> HIDE DEF u
    <2>3. QED
      BY <1>1, <2>1, <2>2, AppendProperties
  <1>5. AssembleBlocks(u) = D
    <2>1. AssembleBlocks(u) = AssembleEvent(B, x)
      BY <1>1, AssembledAppend
    <2>2. AssembleEvent(B, x) = D
      BY <1>1 DEF AssembleEvent, z
    <2>3. QED
      BY <2>1, <2>2
  <1> HIDE DEF B
  <1>6. /\ D \in Seq(OneBlock) /\ Len(D) = n + 1 /\ D[n + 1] = z
        /\ \A i \in 1..n : D[i] = B[i]
    BY <1>2, <1>3, AppendProperties DEF B
  <1>7. AssembleBlocks(t) = [D EXCEPT ![n + 1] = w]
    <2>1. AssembleBlocks(t) = AssembleEvent(D, y)
      <3> HIDE DEF u, D
      <3>1. QED
        BY <1>1, <1>4, <1>5, AssembledAppend
    <2> HIDE DEF D
    <2>2. AssembleEvent(D, y) = [D EXCEPT ![n + 1] = [D[n + 1] EXCEPT !.content = c]]
      BY <1>1, <1>3, <1>6 DEF AssembleEvent
    <2>3. QED
      BY <1>3, <1>6, <2>1, <2>2
  <1>8. [D EXCEPT ![n + 1] = w] = Append(B, w)
    <2> DEFINE l == [D EXCEPT ![n + 1] = w]
               r == Append(B, w)
    <2>1. /\ r \in Seq(OneBlock) /\ Len(r) = n + 1 /\ r[n + 1] = w
          /\ \A i \in 1..n : r[i] = B[i]
      BY <1>2, <1>3, AppendProperties DEF B
    <2>2. n + 1 \in 1..(n + 1)
      OBVIOUS
    <2> HIDE DEF D, r
    <2>3. /\ l \in Seq(OneBlock) /\ Len(l) = n + 1
          /\ \A i \in 1..(n + 1) : l[i] = IF i = n + 1 THEN w ELSE D[i]
      BY <1>3, <1>6, <2>2, ExceptSeq
    <2> HIDE DEF l
    <2>4. \A i \in 1..(n + 1) : i # n + 1 => i \in 1..n
      OBVIOUS
    <2>5. \A i \in 1..(n + 1) : l[i] = r[i]
      BY <1>6, <2>1, <2>3, <2>4
    <2>6. l = r
      BY <2>1, <2>3, <2>5, SeqEqual
    <2>7. QED
      BY <2>6 DEF l, r
  <1>9. StopsIn(t) = StopsIn(s)
    <2>1. StopsIn(u) = StopsIn(s)
      BY <1>1, StopsAppend
    <2> HIDE DEF u
    <2>2. StopsIn(t) = StopsIn(u)
      BY <1>1, <1>4, StopsAppend
    <2>3. QED
      BY <2>1, <2>2
  <1>10. QED
    BY <1>4, <1>7, <1>8, <1>9 DEF B, w, AddsBlock

\* A last block with more text.
LEMMA JoinLonger ==
    ASSUME NEW B \in Blocks, NEW n \in Nat, n = Len(B), B # <<>>,
           NEW b \in {"text", "thinking"}, NEW v \in Seq(Fragments), NEW t \in Seq(Fragments),
           B[n] = Block(b, TextContent(v))
    PROVE  Join([B EXCEPT ![n] = Block(b, TextContent(v \o t))])
             = JoinBlock(Join(B), Block(b, TextContent(t)))
  <1> DEFINE x == Block(b, TextContent(v))
             y == Block(b, TextContent(v \o t))
             z == Block(b, TextContent(t))
             C == [B EXCEPT ![n] = y]
  <1>1. v \o t \in Seq(Fragments)
    BY ConcatProperties
  <1>2. x \in OneBlock /\ y \in OneBlock /\ z \in OneBlock
    BY <1>1, EventTypes DEF Block, OneBlock
  <1>3. B \in Seq(OneBlock) /\ n # 0
    BY EmptySeq DEF Blocks
  <1>4. PICK F \in Seq(OneBlock), w \in OneBlock : B = Append(F, w)
    BY <1>3, SequenceEmptyOrAppend
  <1>5. B[n] = x
    OBVIOUS
  <1> HIDE DEF x, y, z
  <1>6. /\ Len(F) \in Nat /\ n = Len(F) + 1 /\ w = x
        /\ \A i \in 1..Len(F) : B[i] = F[i]
    BY <1>4, <1>5, AppendProperties, LenProperties
  <1>7. C = Append(F, y)
    <2> DEFINE r == Append(F, y)
    <2>1. /\ r \in Seq(OneBlock) /\ Len(r) = n /\ r[n] = y
          /\ \A i \in 1..Len(F) : r[i] = F[i]
      BY <1>2, <1>6, AppendProperties
    <2>2. n \in 1..n
      BY <1>3
    <2>3. /\ C \in Seq(OneBlock) /\ Len(C) = n
          /\ \A i \in 1..n : C[i] = IF i = n THEN y ELSE B[i]
      BY <1>2, <1>3, <2>2, ExceptSeq
    <2>4. \A i \in 1..n : i # n => i \in 1..Len(F)
      BY <1>6
    <2> HIDE DEF C, r
    <2>5. \A i \in 1..n : C[i] = r[i]
      BY <1>6, <2>1, <2>3, <2>4
    <2>6. C = r
      BY <2>1, <2>3, <2>5, SeqEqual
    <2>7. QED
      BY <2>6 DEF r
  <1> HIDE DEF C
  <1>8. Join(B) = JoinBlock(Join(F), x) /\ Join(C) = JoinBlock(Join(F), y) /\ Join(F) \in Blocks
    BY <1>2, <1>4, <1>6, <1>7, JoinAppend
  <1>9. JoinBlock(JoinBlock(Join(F), x), z) = JoinBlock(Join(F), y)
    BY <1>8, JoinTwice DEF x, y, z
  <1>10. Join(C) = JoinBlock(Join(B), z)
    BY <1>8, <1>9
  <1>11. QED
    BY <1>10 DEF C, y, z

\* The second of three.
LEMMA Second == \A x, u, v, w : x = <<u, v, w>> => x[2] = v
  OBVIOUS

\* A block with its input as an object.
LEMMA AsObjectFields ==
    /\ \A x \in OneBlock : AsObject(x) \in OneBlock
    /\ \A b \in {"text", "thinking"}, t \in Seq(Fragments) :
          AsObject(Block(b, TextContent(t))) = Block(b, TextContent(t))
    /\ \A e \in Known : e.type = "tool-call" =>
          AsObject(Block("tool_use", ToolContent(e.tool))) = CallBlock(e)
  <1> DEFINE NotObject(c) == \E id \in ToolIDs, s \in ToolTexts \ {"object", "{}"} :
                                c = <<"tool", id, s>>
  <1>1. ASSUME NEW x \in OneBlock PROVE AsObject(x) \in OneBlock
    <2>1. CASE NotObject(x.content)
      <3>1. PICK id \in ToolIDs, s \in ToolTexts \ {"object", "{}"} : x.content = <<"tool", id, s>>
        BY <2>1
      <3> DEFINE c == <<"tool", id, "{}">>
      <3>2. x.content[2] = id
        BY <3>1, Second
      <3>3. c \in Content
        <4>1. c \in {"tool"} \X ToolIDs \X ToolTexts
          BY DEF ToolTexts
        <4>2. QED
          BY <4>1 DEF Content
      <3>4. AsObject(x) = [x EXCEPT !.content = c]
        BY <2>1, <3>2 DEF AsObject
      <3> HIDE DEF c
      <3>5. QED
        BY <3>3, <3>4 DEF OneBlock
    <2>2. CASE ~NotObject(x.content)
      BY <2>2 DEF AsObject
    <2>3. QED
      BY <2>1, <2>2
  <1>2. ASSUME NEW b \in {"text", "thinking"}, NEW t \in Seq(Fragments)
        PROVE  AsObject(Block(b, TextContent(t))) = Block(b, TextContent(t))
    <2>1. \A id, s : TextContent(t) # <<"tool", id, s>>
      BY DEF TextContent
    <2>2. Block(b, TextContent(t)).content = TextContent(t)
      BY DEF Block
    <2>3. QED
      BY <2>1, <2>2 DEF AsObject
  <1>3. ASSUME NEW e \in Known, e.type = "tool-call"
        PROVE  AsObject(Block("tool_use", ToolContent(e.tool))) = CallBlock(e)
    <2> DEFINE t == e.tool
               x == Block("tool_use", ToolContent(t))
    <2>1. t.id \in ToolIDs /\ t.input \in {"nil", "object", "array", "json", "string"}
      BY <1>3, KnownTypes DEF Tool
    <2>2. x = [block |-> "tool_use", content |-> ToolContent(t)]
          /\ CallBlock(e) = [block |-> "tool_use", content |-> InputMap(t)]
      BY DEF CallBlock, Block
    <2> HIDE DEF x, t
    <2>3. CASE t.input \in {"array", "json", "string"}
      <3>1. /\ \E s \in ToolTexts \ {"object", "{}"} : ToolContent(t) = <<"tool", t.id, s>>
            /\ InputMap(t) = <<"tool", t.id, "{}">>
        BY <2>3 DEF ToolContent, ToolTexts, InputMap
      <3> DEFINE d == <<"tool", t.id, "{}">>
      <3>2. PICK s \in ToolTexts \ {"object", "{}"} : x.content = <<"tool", t.id, s>>
        BY <2>2, <3>1
      <3>3. x.content[2] = t.id
        BY <3>2, Second
      <3>4. NotObject(x.content)
        BY <2>1, <3>2
      <3>5. AsObject(x) = [x EXCEPT !.content = d]
        BY <3>3, <3>4 DEF AsObject
      <3>6. InputMap(t) = d
        BY <3>1
      <3> HIDE DEF d
      <3>7. AsObject(x) = [block |-> "tool_use", content |-> d]
        BY <2>2, <3>5
      <3>8. QED
        BY <2>2, <3>6, <3>7 DEF x, t
    <2>4. CASE t.input \in {"nil", "object"}
      <3>1. ToolContent(t) = InputMap(t)
        BY <2>1, <2>4 DEF ToolContent, InputMap
      <3>2. \A id, s : InputMap(t) = <<"tool", id, s>> => s \in {"object", "{}"}
        BY <2>1, <2>4 DEF InputMap
      <3>3. AsObject(x) = x
        BY <2>2, <3>1, <3>2 DEF AsObject
      <3>4. QED
        BY <2>2, <3>1, <3>3 DEF x, t
    <2>5. QED
      BY <2>1, <2>3, <2>4
  <1>4. QED
    BY <1>1, <1>2, <1>3

\* Blocks with their inputs as objects.
LEMMA AsObjectsFields ==
    ASSUME NEW s \in Seq(OneBlock)
    PROVE  /\ AsObjects(s) \in Seq(OneBlock) /\ Len(AsObjects(s)) = Len(s)
           /\ \A i \in 1..Len(s) : AsObjects(s)[i] = AsObject(s[i])
  <1>1. DOMAIN s = 1..Len(s) /\ Len(s) \in Nat /\ \A i \in 1..Len(s) : s[i] \in OneBlock
    BY LenProperties, ElementOfSeq
  <1>2. \A i \in 1..Len(s) : AsObject(s[i]) \in OneBlock
    BY <1>1, AsObjectFields
  <1>3. QED
    BY <1>1, <1>2 DEF AsObjects

\* One more of them, or one that is replaced.
LEMMA AsObjectsMore ==
    ASSUME NEW s \in Seq(OneBlock), NEW x \in OneBlock
    PROVE  /\ AsObjects(Append(s, x)) = Append(AsObjects(s), AsObject(x))
           /\ \A n \in 1..Len(s) :
                 AsObjects([s EXCEPT ![n] = x]) = [AsObjects(s) EXCEPT ![n] = AsObject(x)]
  <1> DEFINE t == Append(s, x)
             l == Len(s)
             y == AsObject(x)
             u == AsObjects(s)
  <1>1. y \in OneBlock /\ l \in Nat
    BY AsObjectFields, LenProperties
  <1>2. u \in Seq(OneBlock) /\ Len(u) = l /\ \A i \in 1..l : u[i] = AsObject(s[i])
    BY AsObjectsFields
  <1>3. t \in Seq(OneBlock) /\ Len(t) = l + 1 /\ t[l + 1] = x /\ \A i \in 1..l : t[i] = s[i]
    BY AppendProperties
  <1> HIDE DEF t, y, u
  <1>4. /\ AsObjects(t) \in Seq(OneBlock) /\ Len(AsObjects(t)) = l + 1
        /\ \A i \in 1..(l + 1) : AsObjects(t)[i] = AsObject(t[i])
    BY <1>3, AsObjectsFields
  <1>5. /\ Append(u, y) \in Seq(OneBlock) /\ Len(Append(u, y)) = l + 1
        /\ Append(u, y)[l + 1] = y /\ \A i \in 1..l : Append(u, y)[i] = u[i]
    BY <1>1, <1>2, AppendProperties
  <1>6. AsObjects(t) = Append(u, y)
    <2>1. \A i \in 1..(l + 1) : i = l + 1 \/ i \in 1..l
      BY <1>1
    <2>2. \A i \in 1..(l + 1) : AsObjects(t)[i] = Append(u, y)[i]
      BY <1>2, <1>3, <1>4, <1>5, <2>1 DEF y
    <2>3. QED
      BY <1>4, <1>5, <2>2, SeqEqual
  <1>7. ASSUME NEW n \in 1..l
        PROVE  AsObjects([s EXCEPT ![n] = x]) = [u EXCEPT ![n] = y]
    <2> DEFINE v == [s EXCEPT ![n] = x]
               w == [u EXCEPT ![n] = y]
    <2>1. v \in Seq(OneBlock) /\ Len(v) = l /\ \A i \in 1..l : v[i] = IF i = n THEN x ELSE s[i]
      BY ExceptSeq
    <2>2. w \in Seq(OneBlock) /\ Len(w) = l /\ \A i \in 1..l : w[i] = IF i = n THEN y ELSE u[i]
      BY <1>1, <1>2, ExceptSeq
    <2> HIDE DEF v, w
    <2>3. /\ AsObjects(v) \in Seq(OneBlock) /\ Len(AsObjects(v)) = l
          /\ \A i \in 1..l : AsObjects(v)[i] = AsObject(v[i])
      BY <2>1, AsObjectsFields
    <2>4. \A i \in 1..l : AsObjects(v)[i] = w[i]
      BY <1>2, <2>1, <2>2, <2>3 DEF y
    <2>5. AsObjects(v) = w
      BY <2>2, <2>3, <2>4, SeqEqual
    <2>6. QED
      BY <2>5 DEF v, w
  <1>8. QED
    BY <1>6, <1>7 DEF t, u, y

\* What the client has, with the inputs as objects.
Shows(s) == Join(AsObjects(AssembleBlocks(s)))

\* The blocks of the client are those of the context.
BlocksSent ==
    /\ Len(AssembleBlocks(out)) = nextBlockIndex
    /\ blockStarted =>
          LET b == AssembleBlocks(out)[nextBlockIndex]
          IN  b = Block(currentBlockType, TextContent(TextIn(b.content)))

\* The blocks of the output are blocks.
LEMMA OutBlocks ==
    ASSUME IInv
    PROVE  /\ out \in Seq(WireEvent) /\ AssembleBlocks(out) \in Blocks
           /\ nextBlockIndex \in Nat /\ currentBlockIndex \in Nat
           /\ AsObjects(AssembleBlocks(out)) \in Blocks
  <1>1. out \in Seq(WireEvent) /\ nextBlockIndex \in Nat /\ currentBlockIndex \in Nat
    BY DEF IInv, TypeOK, Valid
  <1>2. MessageStart \in WireEvent
    BY EventTypes
  <1>3. AssembleBlocks(out) \in Blocks
    BY <1>1, <1>2, AssembledAppend
  <1>4. AsObjects(AssembleBlocks(out)) \in Blocks
    BY <1>3, AsObjectsFields DEF Blocks
  <1>5. QED
    BY <1>1, <1>3, <1>4

\* A block is opened: to the client, more text of that kind.
LEMMA OpenBlocks ==
    ASSUME IInv, BlocksSent, NEW b \in {"text", "thinking"},
           NEW t \in Seq(Fragments), t # <<>>, Open(b, t)
    PROVE  /\ BlocksSent'
           /\ Shows(out') = More(Shows(out), b, t)
           /\ StopsIn(out') = StopsIn(out)
  <1> DEFINE n == nextBlockIndex
             c == TextContent(t)
             x == Start(n, b)
             y == BlockDelta(n, b, c)
             tail == <<x, y>>
             B == AssembleBlocks(out)
             z == Block(b, c)
  <1>1. /\ out \in Seq(WireEvent) /\ B \in Blocks /\ n \in Nat /\ currentBlockIndex \in Nat
        /\ AsObjects(B) \in Blocks
    BY OutBlocks
  <1>2. c \in Content /\ x \in WireEvent /\ y \in WireEvent /\ TextIn(c) = t
    BY <1>1, EventTypes, TextInType
  <1>3. /\ Emit(closeTextBlock \o tail)
        /\ nextBlockIndex' = n + 1 /\ currentBlockType' = b
    BY DEF Open
  <1> HIDE DEF x, y, c
  <1>4. tail \in Seq(WireEvent) /\ tail # <<>>
    BY <1>2
  <1> HIDE DEF tail
  <1>5. PICK s : AsMuch(out, s) /\ out' = s \o tail
    BY <1>1, <1>3, <1>4, CloseIsAside, Emitted
  <1>6. s \in Seq(WireEvent) /\ AssembleBlocks(s) = B /\ StopsIn(s) = StopsIn(out)
    BY <1>5 DEF AsMuch
  <1>7. out' = Append(Append(s, x), y)
    BY <1>2, <1>5, <1>6, TwoMore DEF tail
  <1>8. n = Len(AssembleBlocks(s))
    BY <1>6 DEF BlocksSent
  <1>9. AssembleBlocks(out') = Append(B, z) /\ StopsIn(out') = StopsIn(out)
    <2>1. b \in {"text", "thinking", "tool_use"}
      OBVIOUS
    <2>2. out' = WithBlock(s, n, b, c)
      BY <1>7 DEF x, y, WithBlock
    <2> HIDE DEF n, B
    <2>3. AddsBlock(s, b, c, WithBlock(s, n, b, c))
      BY <1>1, <1>2, <1>6, <1>8, <2>1, BlockAdded
    <2>4. QED
      BY <1>6, <2>2, <2>3 DEF AddsBlock
  <1>10. Join(AsObjects(Append(B, z))) = JoinBlock(Join(AsObjects(B)), z)
    <2>1. z \in OneBlock /\ AsObject(z) = z
      BY <1>1, OneMore, AsObjectFields DEF c
    <2>2. AsObjects(Append(B, z)) = Append(AsObjects(B), z)
      <3> HIDE DEF B, z
      <3>1. QED
        BY <1>1, <2>1, AsObjectsMore DEF Blocks
    <2>3. Join(Append(AsObjects(B), z)) = JoinBlock(Join(AsObjects(B)), z)
      <3> HIDE DEF B
      <3>1. QED
        BY <1>1, OneMore DEF c
    <2>4. QED
      BY <2>2, <2>3
  <1>11. /\ z \in OneBlock /\ z = Block(b, TextContent(TextIn(z.content)))
    <2>1. z.content = c /\ z \in OneBlock
      BY <1>2 DEF Block, OneBlock
    <2>2. QED
      BY <1>2, <2>1 DEF c
  <1>12. /\ Len(AssembleBlocks(out')) = n + 1
         /\ AssembleBlocks(out')[n + 1] = z
    <2>1. B \in Seq(OneBlock) /\ Len(B) = n
      BY <1>1 DEF Blocks, BlocksSent
    <2> HIDE DEF B, z, n
    <2>2. Len(Append(B, z)) = n + 1 /\ Append(B, z)[n + 1] = z
      BY <1>11, <2>1, AppendProperties
    <2>3. QED
      BY <1>9, <2>2
  <1>13. BlocksSent'
    <2> HIDE DEF z, n
    <2>1. QED
      BY <1>3, <1>11, <1>12 DEF BlocksSent
  <1>14. Shows(out') = More(Shows(out), b, t)
    BY <1>9, <1>10 DEF More, c, Shows
  <1>15. QED
    BY <1>9, <1>13, <1>14

\* A block is continued: to the client, more text of that kind.
LEMMA ContinueBlocks ==
    ASSUME IInv, BlocksSent, blockStarted, NEW t \in Seq(Fragments), t # <<>>, Continue(t)
    PROVE  /\ BlocksSent'
           /\ Shows(out') = More(Shows(out), currentBlockType, t)
           /\ StopsIn(out') = StopsIn(out)
  <1> DEFINE n == nextBlockIndex
             b == currentBlockType
             d == BlockDelta(currentBlockIndex, b, TextContent(t))
             tail == <<d>>
             B == AssembleBlocks(out)
             v == TextIn(B[n].content)
             y == Block(b, TextContent(v \o t))
  <1>1. out \in Seq(WireEvent) /\ B \in Blocks /\ n \in Nat /\ currentBlockIndex \in Nat
    BY OutBlocks
  <1>2. b \in {"text", "thinking"} /\ n = currentBlockIndex + 1
    BY DEF IInv, Position
  <1>3. TextContent(t) \in Content /\ TextIn(TextContent(t)) = t
    BY EventTypes, TextInType
  <1>4. /\ d \in WireEvent /\ d.type = "content_block_delta" /\ d.index + 1 = n
        /\ d.content = TextContent(t)
    <2>1. d \in WireEvent
      BY <1>1, <1>2, <1>3, EventTypes
    <2>2. QED
      BY <1>2, <2>1 DEF BlockDelta, SSEEvent
  <1>5. /\ Emit(tail)
        /\ nextBlockIndex' = n /\ currentBlockType' = b /\ blockStarted' = blockStarted
    BY DEF Continue
  <1> HIDE DEF d
  <1>6. tail \in Seq(WireEvent) /\ tail # <<>>
    BY <1>4
  <1> HIDE DEF tail
  <1>7. PICK s : AsMuch(out, s) /\ out' = s \o tail
    <2>1. Aside(<<>>) /\ <<>> \o tail = tail
      BY <1>6, ConcatEmptySeq DEF Aside
    <2> DEFINE q == <<>>
    <2>2. Aside(q) /\ Emit(q \o tail)
      BY <1>5, <2>1
    <2> HIDE DEF q
    <2>3. QED
      BY <1>1, <1>6, <2>2, Emitted
  <1>8. s \in Seq(WireEvent) /\ AssembleBlocks(s) = B /\ StopsIn(s) = StopsIn(out)
    BY <1>7 DEF AsMuch
  <1>9. out' = Append(s, d)
    BY <1>4, <1>7, <1>8, AppendIsConcat DEF tail
  <1>10. /\ B \in Seq(OneBlock) /\ Len(B) = n /\ B # <<>> /\ n \in 1..n /\ B[n] \in OneBlock
         /\ B[n] = Block(b, TextContent(v))
    <2>1. B \in Seq(OneBlock) /\ Len(B) = n /\ B[n] = Block(b, TextContent(v))
      BY <1>1 DEF Blocks, BlocksSent
    <2>2. n # 0 /\ n \in 1..n
      BY <1>1, <1>2
    <2> HIDE DEF B, n, v, b
    <2>3. B # <<>>
      BY <2>1, <2>2, EmptySeq
    <2>4. B[n] \in OneBlock
      BY <2>1, <2>2, ElementOfSeq
    <2>5. QED
      BY <2>1, <2>2, <2>3, <2>4
  <1>11. v \in Seq(Fragments) /\ v \o t \in Seq(Fragments)
    <2>1. B[n].content \in Content
      BY <1>10 DEF OneBlock
    <2>2. v \in Seq(Fragments)
      BY <2>1, TextInType
    <2>3. QED
      BY <2>2, ConcatProperties
  <1>12. B[n].content = TextContent(v) /\ TextContent(v) # NoContent
    <2>1. TextContent(v) # NoContent
      BY DEF TextContent, NoContent
    <2> HIDE DEF v
    <2>2. Block(b, TextContent(v)).content = TextContent(v)
      BY DEF Block
    <2>3. QED
      BY <1>10, <2>1, <2>2
  <1>13. AssembleBlocks(out') = [B EXCEPT ![n] = y] /\ StopsIn(out') = StopsIn(out)
    <2>1. AssembleBlocks(out') = AssembleEvent(B, d)
      BY <1>4, <1>8, <1>9, AssembledAppend
    <2>2. StopsIn(out') = StopsIn(s)
      BY <1>4, <1>8, <1>9, StopsAppend
    <2> HIDE DEF B, n
    <2>3. AssembleEvent(B, d) = [B EXCEPT ![n] = [B[n] EXCEPT !.content = TextContent(v \o t)]]
      BY <1>3, <1>4, <1>12 DEF AssembleEvent
    <2>4. [B[n] EXCEPT !.content = TextContent(v \o t)] = y
      <3> HIDE DEF v, b
      <3>1. QED
        BY <1>10 DEF Block, y
    <2>5. QED
      BY <1>8, <2>1, <2>2, <2>3, <2>4
  <1> HIDE DEF y, v, B, n, b
  <1>14. y \in OneBlock /\ y = Block(b, TextContent(TextIn(y.content)))
    <2>1. TextContent(v \o t) \in Content /\ TextIn(TextContent(v \o t)) = v \o t
      BY <1>11, EventTypes, TextInType
    <2>2. y \in OneBlock /\ y.content = TextContent(v \o t)
      BY <1>2, <2>1 DEF y, Block, OneBlock
    <2>3. QED
      BY <2>1, <2>2 DEF y
  <1>15. Len(AssembleBlocks(out')) = n /\ AssembleBlocks(out')[n] = y
    BY <1>10, <1>13, <1>14, ExceptSeq
  <1>16. BlocksSent'
    BY <1>5, <1>14, <1>15 DEF BlocksSent, n, b
  <1>17. Join(AsObjects(AssembleBlocks(out')))
            = JoinBlock(Join(AsObjects(B)), Block(b, TextContent(t)))
    <2> DEFINE O == AsObjects(B)
    <2>1. /\ O \in Seq(OneBlock) /\ Len(O) = n /\ O[n] = AsObject(B[n])
          /\ AsObjects([B EXCEPT ![n] = y]) = [O EXCEPT ![n] = AsObject(y)]
      BY <1>10, <1>14, AsObjectsFields, AsObjectsMore
    <2>2. AsObject(B[n]) = Block(b, TextContent(v)) /\ AsObject(y) = y
      BY <1>2, <1>10, <1>11, AsObjectFields DEF y
    <2> HIDE DEF O
    <2>3. O \in Blocks /\ O # <<>> /\ O[n] = Block(b, TextContent(v)) /\ n = Len(O)
      BY <1>10, <2>1, <2>2, EmptySeq DEF Blocks
    <2>4. Join([O EXCEPT ![n] = Block(b, TextContent(v \o t))])
             = JoinBlock(Join(O), Block(b, TextContent(t)))
      BY ONLY <1>1, <1>2, <1>11, <2>3, t \in Seq(Fragments), JoinLonger
    <2>5. QED
      BY <1>13, <2>1, <2>2, <2>4 DEF y, O
  <1>18. QED
    BY <1>13, <1>16, <1>17 DEF More, B, b, Shows

\* A tool call is a block of its own, with the same input as the collector's if
\* a string counts as an empty object.
LEMMA ToolBlocks ==
    ASSUME IInv, BlocksSent, NEW e \in Inputs, handleToolCall(e)
    PROVE  /\ BlocksSent'
           /\ Shows(out') = JoinBlock(Shows(out), CallBlock(e))
           /\ StopsIn(out') = StopsIn(out)
  <1> DEFINE n == nextBlockIndex
             c == ToolContent(e.tool)
             x == Start(n, "tool_use")
             y == BlockDelta(n, "tool_use", c)
             w == BlockStop(n)
             tail == <<x, y, w>>
             B == AssembleBlocks(out)
             z == Block("tool_use", c)
             k == CallBlock(e)
  <1>1. out \in Seq(WireEvent) /\ B \in Blocks /\ n \in Nat /\ currentBlockIndex \in Nat
    BY OutBlocks
  <1>2. e.type = "tool-call" /\ e.tool \in Tool /\ e \in Known
    BY InputTypes DEF handleToolCall
  <1>3. c \in Content /\ AsObject(z) = k
    BY <1>2, EventTypes, AsObjectFields
  <1>4. x \in WireEvent /\ y \in WireEvent /\ w \in WireEvent /\ Quiet(w)
    <2>1. x \in WireEvent /\ y \in WireEvent /\ w \in WireEvent
      BY <1>1, <1>3, EventTypes
    <2>2. w.type = "content_block_stop"
      BY DEF BlockStop, SSEEvent
    <2>3. QED
      BY <2>1, <2>2 DEF Quiet
  <1>5. /\ Emit(closeTextBlock \o tail)
        /\ nextBlockIndex' = n + 1 /\ ~blockStarted'
    <2>1. Closes \/ ~blockStarted
      BY DEF IInv, Position, Closes
    <2>2. QED
      BY <2>1 DEF handleToolCall
  <1>6. z \in OneBlock /\ k \in OneBlock
    BY <1>2, <1>3, CallBlockType DEF Block, OneBlock
  <1> HIDE DEF x, y, w, c, k
  <1>7. tail \in Seq(WireEvent) /\ tail # <<>>
    BY <1>4
  <1> HIDE DEF tail
  <1>8. PICK s : AsMuch(out, s) /\ out' = s \o tail
    BY <1>1, <1>5, <1>7, CloseIsAside, Emitted
  <1>9. s \in Seq(WireEvent) /\ AssembleBlocks(s) = B /\ StopsIn(s) = StopsIn(out)
    BY <1>8 DEF AsMuch
  <1>10. out' = Append(Append(Append(s, x), y), w)
    BY <1>4, <1>8, <1>9, ThreeMore DEF tail
  <1>11. n = Len(AssembleBlocks(s))
    BY <1>9 DEF BlocksSent
  <1>12. AssembleBlocks(out') = Append(B, z) /\ StopsIn(out') = StopsIn(out)
    <2> DEFINE u == WithBlock(s, n, "tool_use", c)
    <2>1. out' = Append(u, w)
      BY <1>10 DEF x, y, WithBlock
    <2> HIDE DEF n, B
    <2>2. AddsBlock(s, "tool_use", c, u)
      BY <1>1, <1>3, <1>9, <1>11, BlockAdded
    <2>3. u \in Seq(WireEvent)
      BY <2>2 DEF AddsBlock
    <2> HIDE DEF u
    <2>4. AsMuch(u, Append(u, w))
      BY <1>4, <2>3, QuietEvent
    <2>5. QED
      BY <1>9, <2>1, <2>2, <2>4 DEF AddsBlock, AsMuch
  <1> HIDE DEF z
  <1>13. Len(Append(B, z)) = n + 1
    <2>1. B \in Seq(OneBlock) /\ Len(B) = n
      BY <1>1 DEF Blocks, BlocksSent
    <2> HIDE DEF B, n
    <2>2. QED
      BY <1>6, <2>1, AppendProperties
  <1>14. BlocksSent'
    <2> HIDE DEF n, B
    <2>1. QED
      BY <1>5, <1>12, <1>13 DEF BlocksSent
  <1>15. Join(AsObjects(Append(B, z))) = JoinBlock(Join(AsObjects(B)), k)
    <2>1. B \in Seq(OneBlock)
      BY <1>1 DEF Blocks
    <2> HIDE DEF B
    <2>2. AsObjects(Append(B, z)) = Append(AsObjects(B), k) /\ AsObjects(B) \in Seq(OneBlock)
      BY <1>3, <1>6, <2>1, AsObjectsMore, AsObjectsFields
    <2>3. QED
      BY <1>6, <2>2, JoinAppend
  <1>16. QED
    BY <1>12, <1>14, <1>15 DEF k, Shows

\* The stop reason and the tokens of a finish.
Stops(e) == StopReason(mapAnthropicStreamStopReason(e.reason), UsageOf(e))

\* The end of the message adds them and no block.
LEMMA FinishBlocks ==
    ASSUME IInv, BlocksSent, NEW e \in Inputs, handleFinish(e)
    PROVE  /\ BlocksSent'
           /\ AssembleBlocks(out') = AssembleBlocks(out)
           /\ StopsIn(out') = StopsIn(out) \cup {Stops(e)}
  <1> DEFINE x == MessageDelta(mapAnthropicStreamStopReason(e.reason), UsageOf(e))
             w == MessageStop
             tail == <<x, w>>
             B == AssembleBlocks(out)
             r == Stops(e)
  <1>1. out \in Seq(WireEvent) /\ B \in Blocks /\ currentBlockIndex \in Nat
    BY OutBlocks
  <1>2. /\ x \in WireEvent /\ x.type = "message_delta" /\ x.content = r
        /\ w \in WireEvent /\ Quiet(w)
    <2>1. x \in WireEvent /\ w \in WireEvent
      BY InputTypes, EventTypes
    <2>2. w.type = "message_stop" /\ x.type = "message_delta" /\ x.content = r
      BY DEF MessageStop, MessageDelta, SSEEvent, Stops
    <2>3. QED
      BY <2>1, <2>2 DEF Quiet
  <1>3. /\ Emit(closeTextBlock \o tail)
        /\ nextBlockIndex' = nextBlockIndex /\ ~blockStarted'
    <2>1. Closes \/ ~blockStarted
      BY DEF IInv, Position, Closes
    <2>2. QED
      BY <2>1 DEF handleFinish, FinishEvents
  <1> HIDE DEF x, w, r
  <1>4. tail \in Seq(WireEvent) /\ tail # <<>>
    BY <1>2
  <1> HIDE DEF tail
  <1>5. PICK s : AsMuch(out, s) /\ out' = s \o tail
    BY <1>1, <1>3, <1>4, CloseIsAside, Emitted
  <1>6. s \in Seq(WireEvent) /\ AssembleBlocks(s) = B /\ StopsIn(s) = StopsIn(out)
    BY <1>5 DEF AsMuch
  <1> DEFINE u == Append(s, x)
  <1>7. out' = Append(u, w) /\ u \in Seq(WireEvent)
    BY <1>2, <1>5, <1>6, TwoMore DEF tail
  <1>8. AssembleBlocks(u) = B /\ StopsIn(u) = StopsIn(out) \cup {r}
    <2>1. AssembleBlocks(u) = AssembleEvent(AssembleBlocks(s), x)
      BY <1>2, <1>6, AssembledAppend
    <2>2. AssembleEvent(B, x) = B
      BY <1>2 DEF AssembleEvent
    <2>3. StopsIn(u) = StopsIn(s) \cup {x.content}
      BY <1>2, <1>6, StopsAppend
    <2>4. QED
      BY <1>2, <1>6, <2>1, <2>2, <2>3
  <1> HIDE DEF u
  <1>9. AsMuch(u, Append(u, w))
    BY <1>2, <1>7, QuietEvent
  <1>10. AssembleBlocks(out') = B /\ StopsIn(out') = StopsIn(out) \cup {r}
    BY <1>7, <1>8, <1>9 DEF AsMuch
  <1>11. BlocksSent'
    BY <1>3, <1>10 DEF BlocksSent
  <1>12. QED
    BY <1>10, <1>11 DEF r
-----------------------------------------------------------------------------
(* Stop reasons and tokens. *)

NoFinish(s) == \A i \in 1..Len(s) : s[i].type # "finish"

\* f is the first finish in s.
First(s, f) == \E k \in 1..Len(s) :
                  /\ s[k].type = "finish" /\ s[k] = f
                  /\ \A i \in 1..(k - 1) : s[i].type # "finish"

\* FinishesAgree, UsagesAgree and LastUsageInFinish, of any events.
Agreeing(s) == \A i, j \in 1..Len(s) :
                  i < j /\ s[i].type = "finish" /\ s[j].type = "finish" =>
                      s[j].reason \in {"", s[i].reason}
SameUsage(s) == \A i, j \in 1..Len(s) :
                  i < j /\ s[i].type = "finish" /\ s[j].type = "finish" =>
                      UsageOf(s[j]) \in {NoUsage, UsageOf(s[i])}
UsageLast(s) == \A i \in 1..Len(s) :
                  UsageOf(s[i]) # NoUsage /\ s[i].type # "finish" =>
                      \E j \in (i + 1)..Len(s) :
                          s[j].type = "finish" /\ UsageOf(s[j]) # NoUsage

\* An event more.
LEMMA FinishAppend ==
    ASSUME NEW s \in Seq(Known), NEW e \in Known
    PROVE  /\ NoFinish(Append(s, e)) <=> NoFinish(s) /\ e.type # "finish"
           /\ \A f : First(s, f) => First(Append(s, e), f)
           /\ NoFinish(s) /\ e.type = "finish" => First(Append(s, e), e)
           /\ Agreeing(Append(s, e)) => Agreeing(s)
           /\ SameUsage(Append(s, e)) => SameUsage(s)
           /\ \A f : First(s, f) /\ Agreeing(Append(s, e)) /\ e.type = "finish" =>
                        e.reason \in {"", f.reason}
           /\ \A f : First(s, f) /\ SameUsage(Append(s, e)) /\ e.type = "finish" =>
                        UsageOf(e) \in {NoUsage, UsageOf(f)}
           /\ \A f : First(Append(s, e), f) =>
                        First(s, f) \/ (NoFinish(s) /\ e.type = "finish" /\ e = f)
           /\ UsageLast(Append(s, e)) =>
                 IF UsageOf(e) = NoUsage THEN UsageLast(s) ELSE e.type = "finish"
  <1> DEFINE t == Append(s, e)
             n == Len(s)
  <1>1. n \in Nat /\ Len(t) = n + 1 /\ t[n + 1] = e /\ \A i \in 1..n : t[i] = s[i]
    BY AppendProperties, LenProperties
  <1> HIDE DEF t
  <1>2. n + 1 \in 1..Len(t) /\ (n + 1) - 1 = n /\ \A i \in 1..n : i \in 1..Len(t) /\ i < n + 1
    BY <1>1
  <1>3. \A i \in 1..Len(t) : i = n + 1 \/ i \in 1..n
    BY <1>1
  <1>4. \A k \in 1..n : \A i \in 1..(k - 1) : i \in 1..n
    BY <1>1
  <1>5. NoFinish(t) <=> NoFinish(s) /\ e.type # "finish"
    BY <1>1, <1>2, <1>3 DEF NoFinish
  <1>6. ASSUME NEW f, First(s, f) PROVE First(t, f)
    BY <1>1, <1>2, <1>4, <1>6 DEF First
  <1>7. NoFinish(s) /\ e.type = "finish" => First(t, e)
    BY <1>1, <1>2 DEF First, NoFinish
  <1>8. (Agreeing(t) => Agreeing(s)) /\ (SameUsage(t) => SameUsage(s))
    BY <1>1, <1>2 DEF Agreeing, SameUsage
  <1>9. ASSUME NEW f, First(s, f), Agreeing(t), e.type = "finish"
        PROVE  e.reason \in {"", f.reason}
    BY <1>1, <1>2, <1>9 DEF First, Agreeing
  <1>10. ASSUME NEW f, First(s, f), SameUsage(t), e.type = "finish"
         PROVE  UsageOf(e) \in {NoUsage, UsageOf(f)}
    <2>1. PICK k \in 1..n : s[k].type = "finish" /\ s[k] = f
      BY <1>10 DEF First
    <2>2. t[k] = f /\ t[k].type = "finish" /\ k < n + 1 /\ k \in 1..Len(t)
      BY <1>1, <1>2, <2>1
    <2>3. UsageOf(t[n + 1]) \in {NoUsage, UsageOf(t[k])}
      BY <1>1, <1>2, <1>10, <2>2 DEF SameUsage
    <2>4. QED
      BY <1>1, <2>2, <2>3
  <1>11. ASSUME NEW f, First(t, f)
         PROVE  First(s, f) \/ (NoFinish(s) /\ e.type = "finish" /\ e = f)
    <2>1. PICK k \in 1..Len(t) : /\ t[k].type = "finish" /\ t[k] = f
                                 /\ \A i \in 1..(k - 1) : t[i].type # "finish"
      BY <1>11 DEF First
    <2>2. CASE k = n + 1
      BY <1>1, <1>2, <2>1, <2>2 DEF NoFinish
    <2>3. CASE k \in 1..n
      BY <1>1, <1>4, <2>1, <2>3 DEF First
    <2>4. QED
      BY <1>3, <2>2, <2>3
  <1>12. ASSUME UsageLast(t), UsageOf(e) = NoUsage PROVE UsageLast(s)
    <2> SUFFICES ASSUME NEW i \in 1..n, UsageOf(s[i]) # NoUsage, s[i].type # "finish"
                 PROVE  \E j \in (i + 1)..n : s[j].type = "finish" /\ UsageOf(s[j]) # NoUsage
      BY DEF UsageLast
    <2>1. t[i] = s[i] /\ i \in 1..Len(t)
      BY <1>1, <1>2
    <2>2. PICK j \in (i + 1)..Len(t) : t[j].type = "finish" /\ UsageOf(t[j]) # NoUsage
      BY <1>12, <2>1 DEF UsageLast
    <2>3. j # n + 1
      BY <1>1, <1>12, <2>2
    <2>4. j \in 1..n /\ j \in (i + 1)..n
      BY <1>1, <2>2, <2>3
    <2>5. QED
      BY <1>1, <2>2, <2>4
  <1>13. ASSUME UsageLast(t), UsageOf(e) # NoUsage PROVE e.type = "finish"
    <2>1. CASE e.type # "finish"
      <3>1. UsageOf(t[n + 1]) # NoUsage /\ t[n + 1].type # "finish"
        BY <1>1, <1>13, <2>1
      <3>2. PICK j \in ((n + 1) + 1)..Len(t) : TRUE
        BY <1>2, <1>13, <3>1 DEF UsageLast
      <3>3. QED
        BY <1>1, <3>2
    <2>2. QED
      BY <2>1
  <1>14. QED
    BY <1>5, <1>6, <1>7, <1>8, <1>9, <1>10, <1>11, <1>12, <1>13 DEF t

\* What is gathered of the reasons and the tokens.
EndStep(g, e, h) ==
    /\ e.type # "finish" => h.reason = g.reason /\ h.tokens = g.tokens
    /\ e.type = "finish" =>
          /\ h.reason = IF e.reason # "" THEN e.reason ELSE g.reason
          /\ h.tokens = IF UsageOf(e) # NoUsage THEN UsageOf(e) ELSE g.tokens

\* An event more.
LEMMA GatherEnd ==
    ASSUME NEW g \in Gathered, NEW e \in Known
    PROVE  EndStep(g, e, CollectAnthropicEvent(g, e))
  <1> DEFINE h == CollectAnthropicEvent(g, e)
  <1>1. e.type \in {"text", "delta", "text-delta", "reasoning-delta",
                    "tool-call", "finish", "other"}
    BY KnownTypes DEF Event
  <1>2. /\ IsText(e) => GathersText(g, e, h)
        /\ e.type = "reasoning-delta" => GathersReasoning(g, e, h)
        /\ e.type = "tool-call" => GathersTool(g, e, h)
        /\ e.type = "finish" => GathersFinish(g, e, h)
        /\ e.type = "other" => h = g
    BY GatherCases
  <1> HIDE DEF h
  <1>3. EndStep(g, e, h)
    BY <1>1, <1>2 DEF IsText, GathersText, GathersReasoning, GathersTool,
                      GathersFinish, SameEnd, EndStep
  <1>4. QED
    BY <1>3 DEF h

\* The reason and the tokens that are gathered are those of the first finish.
Reported(r) == IF r = "" THEN "stop" ELSE r
Counted(u) == IF u = NoUsage THEN 0 ELSE u
LastEnd(s) == /\ NoFinish(s) => Gather(s).reason = "stop" /\ Gather(s).tokens = 0
              /\ \A f : First(s, f) =>
                    /\ Agreeing(s) => Gather(s).reason = Reported(f.reason)
                    /\ SameUsage(s) => Gather(s).tokens = Counted(UsageOf(f))

\* So it is for events of every number.
LEMMA EndOf == \A s \in Seq(Known) : LastEnd(s)
  <1> DEFINE T == {s \in Seq(Known) : LastEnd(s)}
  <1>1. <<>> \in T
    <2> DEFINE z == <<>>
    <2>1. /\ z \in Seq(Known) /\ Len(z) = 0
          /\ Gather(z).reason = "stop" /\ Gather(z).tokens = 0
      BY EmptySeq, GatherEmpty DEF NothingYet
    <2> HIDE DEF z
    <2>2. \A f : ~First(z, f)
      BY <2>1 DEF First
    <2>3. LastEnd(z)
      BY <2>1, <2>2 DEF LastEnd
    <2>4. QED
      BY <2>1, <2>3 DEF z
  <1>2. ASSUME NEW s \in Seq(Known), NEW e \in Known, s \in T PROVE Append(s, e) \in T
    <2> DEFINE t == Append(s, e)
               g == Gather(s)
               h == Gather(t)
    <2>1. t \in Seq(Known) /\ LastEnd(s)
      BY <1>2, AppendProperties
    <2>2. /\ NoFinish(t) <=> NoFinish(s) /\ e.type # "finish"
          /\ Agreeing(t) => Agreeing(s)
          /\ SameUsage(t) => SameUsage(s)
          /\ \A f : First(s, f) /\ Agreeing(t) /\ e.type = "finish" =>
                       e.reason \in {"", f.reason}
          /\ \A f : First(s, f) /\ SameUsage(t) /\ e.type = "finish" =>
                       UsageOf(e) \in {NoUsage, UsageOf(f)}
          /\ \A f : First(t, f) =>
                       First(s, f) \/ (NoFinish(s) /\ e.type = "finish" /\ e = f)
      BY FinishAppend
    <2>3. g \in Gathered /\ h = CollectAnthropicEvent(g, e)
      BY GatherAppend
    <2> HIDE DEF t, g, h
    <2>4. EndStep(g, e, h)
      BY <2>3, GatherEnd
    <2>5. NoFinish(t) => h.reason = "stop" /\ h.tokens = 0
      BY <2>1, <2>2, <2>4 DEF LastEnd, EndStep, g
    <2>6. ASSUME NEW f, First(t, f), Agreeing(t) PROVE h.reason = Reported(f.reason)
      <3>1. CASE First(s, f)
        <4>1. g.reason = Reported(f.reason)
          BY <2>1, <2>2, <2>6, <3>1 DEF LastEnd, g
        <4>2. e.type = "finish" => e.reason \in {"", f.reason}
          BY <2>2, <2>6, <3>1
        <4>3. QED
          BY <2>4, <4>1, <4>2 DEF Reported, EndStep
      <3>2. CASE NoFinish(s) /\ e.type = "finish" /\ e = f
        <4>1. g.reason = "stop"
          BY <2>1, <3>2 DEF LastEnd, g
        <4>2. QED
          BY <2>4, <3>2, <4>1 DEF Reported, EndStep
      <3>3. QED
        BY <2>2, <2>6, <3>1, <3>2
    <2>7. ASSUME NEW f, First(t, f), SameUsage(t) PROVE h.tokens = Counted(UsageOf(f))
      <3>1. CASE First(s, f)
        <4>1. g.tokens = Counted(UsageOf(f))
          BY <2>1, <2>2, <2>7, <3>1 DEF LastEnd, g
        <4>2. e.type = "finish" => UsageOf(e) \in {NoUsage, UsageOf(f)}
          BY <2>2, <2>7, <3>1
        <4>3. QED
          BY <2>4, <4>1, <4>2 DEF Counted, EndStep
      <3>2. CASE NoFinish(s) /\ e.type = "finish" /\ e = f
        <4>1. g.tokens = 0
          BY <2>1, <3>2 DEF LastEnd, g
        <4>2. QED
          BY <2>4, <3>2, <4>1 DEF Counted, EndStep
      <3>3. QED
        BY <2>2, <2>7, <3>1, <3>2
    <2>8. LastEnd(t)
      BY <2>5, <2>6, <2>7 DEF LastEnd, h
    <2>9. QED
      BY <2>1, <2>8 DEF t
  <1> HIDE DEF T
  <1>3. \A s \in Seq(Known) : s \in T
    BY <1>1, <1>2, SeqInduction
  <1>4. QED
    BY <1>3 DEF T
-----------------------------------------------------------------------------
(* Messages: both modes. *)

\* An event with its reasoning in `text'.
LEMMA SpokenFields ==
    ASSUME NEW e \in Known
    PROVE  /\ Spoken(e) \in Known /\ Spoken(e).type = e.type
           /\ \A s : Shown(s, Spoken(e)) =
                        CASE IsText(e) -> More(s, "text", TextOf(e))
                          [] e.type = "reasoning-delta" -> More(s, "thinking", TextDeltaContent(e))
                          [] e.type = "tool-call" -> JoinBlock(s, CallBlock(e))
                          [] OTHER -> s
  <1>1. CASE e.type = "reasoning-delta"
    <2> DEFINE t == TextDeltaContent(e)
    <2>1. Spoken(e) = [e EXCEPT !.text = t]
      BY <1>1 DEF Spoken
    <2>2. t \in Seq(Fragments) /\ e \in Event
      BY KnownTypes DEF TextDeltaContent
    <2> HIDE DEF t
    <2>3. /\ Spoken(e) \in Event /\ Spoken(e).type = e.type /\ Spoken(e).text = t
          /\ Spoken(e).tool = e.tool
      BY <2>1, <2>2 DEF Event
    <2>4. Spoken(e) \in Known
      BY <1>1, <2>3 DEF Known
    <2>5. \A s : Shown(s, Spoken(e)) = More(s, "thinking", t)
      BY <1>1, <2>3 DEF Shown, IsText
    <2>6. QED
      BY <1>1, <2>3, <2>4, <2>5 DEF t, IsText
  <1>2. CASE e.type # "reasoning-delta"
    <2>1. Spoken(e) = e
      BY <1>2 DEF Spoken
    <2>2. QED
      BY <1>2, <2>1 DEF Shown
  <1>3. QED
    BY <1>1, <1>2

\* One more event.
LEMMA HeardAppend ==
    ASSUME NEW s \in Seq(Known), NEW e \in Known
    PROVE  Heard(s) \in Seq(Known) /\ Heard(Append(s, e)) = Append(Heard(s), Spoken(e))
  <1> DEFINE t == Append(s, e)
             n == Len(s)
             u == Heard(s)
             w == Append(u, Spoken(e))
  <1>1. /\ t \in Seq(Known) /\ Len(t) = n + 1 /\ t[n + 1] = e /\ n \in Nat
        /\ \A i \in 1..n : t[i] = s[i]
    BY AppendProperties, LenProperties
  <1> HIDE DEF t
  <1>2. DOMAIN s = 1..n /\ DOMAIN t = 1..(n + 1) /\ \A i \in 1..n : s[i] \in Known
    BY <1>1, LenProperties, ElementOfSeq
  <1>3. \A i \in 1..n : Spoken(s[i]) \in Known
    BY <1>2, SpokenFields
  <1>4. u \in Seq(Known) /\ Len(u) = n /\ \A i \in 1..n : u[i] = Spoken(s[i])
    BY <1>1, <1>2, <1>3 DEF Heard
  <1> HIDE DEF u
  <1>5. Spoken(e) \in Known
    BY SpokenFields
  <1>6. /\ w \in Seq(Known) /\ Len(w) = n + 1 /\ w[n + 1] = Spoken(e)
        /\ \A i \in 1..n : w[i] = u[i]
    BY <1>4, <1>5, AppendProperties
  <1> HIDE DEF w
  <1>7. \A i \in 1..(n + 1) : t[i] \in Known
    BY <1>1, ElementOfSeq
  <1>8. \A i \in 1..(n + 1) : Spoken(t[i]) \in Known
    BY <1>7, SpokenFields
  <1>9. Heard(t) \in Seq(Known) /\ Len(Heard(t)) = n + 1
        /\ \A i \in 1..(n + 1) : Heard(t)[i] = Spoken(t[i])
    BY <1>1, <1>2, <1>8 DEF Heard
  <1>10. \A i \in 1..(n + 1) : i = n + 1 \/ i \in 1..n
    BY <1>1
  <1>11. \A i \in 1..(n + 1) : Heard(t)[i] = w[i]
    BY <1>1, <1>4, <1>6, <1>9, <1>10
  <1>12. Heard(t) = w
    BY <1>6, <1>9, <1>11, SeqEqual
  <1>13. QED
    BY <1>4, <1>12 DEF t, u, w

\* What has been fed is known.
LEMMA FedKnown ==
    ASSUME IInv
    PROVE  fed \in Seq(Known) /\ Heard(fed) \in Seq(Known)
  <1>1. fed \in Seq(Inputs)
    BY DEF IInv, TypeOK
  <1>2. DOMAIN fed = 1..Len(fed) /\ Len(fed) \in Nat /\ \A i \in 1..Len(fed) : fed[i] \in Inputs
    BY <1>1, LenProperties, ElementOfSeq
  <1>3. \A i \in 1..Len(fed) : fed[i] \in Known
    BY <1>2, InputTypes
  <1>4. fed \in Seq(Known)
    BY <1>1, <1>2, <1>3
  <1>5. \A i \in 1..Len(fed) : Spoken(fed[i]) \in Known
    BY <1>3, SpokenFields
  <1>6. Heard(fed) \in Seq(Known)
    BY <1>2, <1>5 DEF Heard
  <1>7. QED
    BY <1>4, <1>6

\* The stream has what the collector would have gathered so far.
SameContent == /\ OneOf(Gather(Heard(fed)))
               /\ Shows(out) = Seen(Gather(Heard(fed)))
SameTokens == UsageLast(fed) => outputTokens = Gather(fed).tokens
SameStop == IF finished
            THEN \E f : First(fed, f) /\ StopsIn(out) = {Stops(f)}
            ELSE NoFinish(fed) /\ StopsIn(out) = {}

\* The inductive invariant of both ways of answering.
BothWays == BlocksSent /\ SameContent /\ SameTokens /\ SameStop

\* What an event that is taken adds to what is gathered.
LEMMA FedStep ==
    ASSUME IInv, SameContent, SameTokens, NEW e \in Inputs, Take(e)
    PROVE  /\ Shows(out') = Shown(Shows(out), Spoken(e)) => SameContent'
           /\ SameTokens'
  <1> DEFINE s == Append(fed, e)
             g == Gather(fed)
             h == Gather(s)
             x == Gather(Heard(fed))
             y == Gather(Heard(s))
  <1>1. fed \in Seq(Known) /\ Heard(fed) \in Seq(Known) /\ e \in Known /\ Spoken(e) \in Known
    BY FedKnown, InputTypes, SpokenFields
  <1>2. g \in Gathered /\ h = CollectAnthropicEvent(g, e)
    BY <1>1, GatherAppend
  <1>3. x \in Gathered /\ y = CollectAnthropicEvent(x, Spoken(e))
    BY <1>1, HeardAppend, GatherAppend
  <1>4. UsageLast(s) => IF UsageOf(e) = NoUsage THEN UsageLast(fed) ELSE e.type = "finish"
    BY <1>1, FinishAppend
  <1>5. fed' = s
    BY DEF Take
  <1> HIDE DEF g, h, x, y, s
  <1>6. OneOf(y) /\ Seen(y) = Shown(Seen(x), Spoken(e))
    BY <1>1, <1>3, SeenStep DEF SameContent, x
  <1>7. EndStep(g, e, h)
    BY <1>1, <1>2, GatherEnd
  <1>8. UsageLast(s) => outputTokens' = h.tokens
    <2>1. UsageLast(fed) => outputTokens = g.tokens
      BY DEF SameTokens, g
    <2>2. outputTokens' = IF UsageOf(e) # NoUsage THEN UsageOf(e) ELSE outputTokens
      BY DEF Take
    <2>3. QED
      BY <1>4, <1>7, <2>1, <2>2 DEF EndStep
  <1>9. SameTokens'
    BY <1>5, <1>8 DEF SameTokens, h
  <1>10. ASSUME Shows(out') = Shown(Shows(out), Spoken(e)) PROVE SameContent'
    <2>1. Shows(out) = Seen(x)
      BY DEF SameContent, x
    <2>2. Shows(out') = Seen(y)
      BY <1>6, <1>10, <2>1
    <2>3. QED
      BY <1>5, <1>6, <2>2 DEF SameContent, y
  <1>11. QED
    BY <1>9, <1>10

\* The stop reason is sent with the first finish.
LEMMA StopStep ==
    ASSUME IInv, SameStop, NEW e \in Inputs, Take(e),
           \/ finished' = finished /\ StopsIn(out') = StopsIn(out)
              /\ (finished \/ e.type # "finish")
           \/ /\ ~finished /\ e.type = "finish" /\ finished' = TRUE
              /\ StopsIn(out') = StopsIn(out) \cup {Stops(e)}
    PROVE  SameStop'
  <1>1. fed \in Seq(Known) /\ fed' = Append(fed, e) /\ e \in Known
    BY FedKnown, InputTypes DEF Take
  <1>2. /\ NoFinish(fed') <=> NoFinish(fed) /\ e.type # "finish"
        /\ \A f : First(fed, f) => First(fed', f)
        /\ NoFinish(fed) /\ e.type = "finish" => First(fed', e)
    BY <1>1, FinishAppend
  <1>3. CASE finished
    <2>1. PICK f : First(fed, f) /\ StopsIn(out) = {Stops(f)}
      BY <1>3 DEF SameStop
    <2>2. First(fed', f) /\ StopsIn(out') = {Stops(f)} /\ finished'
      BY <1>2, <1>3, <2>1
    <2>3. QED
      BY <2>2 DEF SameStop
  <1>4. CASE ~finished
    <2>1. NoFinish(fed) /\ StopsIn(out) = {}
      BY <1>4 DEF SameStop
    <2>2. CASE e.type # "finish"
      <3>1. ~finished' /\ NoFinish(fed') /\ StopsIn(out') = {}
        BY <1>2, <1>4, <2>1, <2>2
      <3>2. QED
        BY <3>1 DEF SameStop
    <2>3. CASE e.type = "finish"
      <3>1. finished' /\ First(fed', e) /\ StopsIn(out') = {Stops(e)}
        BY <1>2, <1>4, <2>1, <2>3
      <3>2. QED
        BY <3>1 DEF SameStop
    <2>4. QED
      BY <2>2, <2>3
  <1>5. QED
    BY <1>3, <1>4

\* It is the same as far as it goes before the first event.
LEMMA BothWaysInit == Init => BothWays
  <1> SUFFICES ASSUME Init PROVE BothWays
    OBVIOUS
  <1>1. /\ out = <<>> /\ fed = <<>> /\ nextBlockIndex = 0 /\ ~blockStarted /\ ~finished
        /\ outputTokens = 0 /\ Len(<<>>) = 0
    BY EmptySeq DEF Init
  <1>2. AssembleBlocks(out) = <<>> /\ Shows(out) = Join(<<>>)
    <2>1. AsObjects(<<>>) = <<>>
      BY DEF AsObjects
    <2>2. QED
      BY <1>1, <2>1, AssembledEmpty DEF NoBlocks, Shows
  <1>3. Gather(fed) = NothingYet /\ Gather(Heard(fed)) = NothingYet
    <2>1. Heard(<<>>) = <<>>
      BY DEF Heard
    <2>2. QED
      BY <1>1, <2>1, GatherEmpty
  <1>4. BlocksSent
    BY <1>1, <1>2 DEF BlocksSent
  <1>5. SameContent
    <2> DEFINE acc == NothingYet
    <2>1. acc.text = <<>> /\ acc.reasoning = <<>> /\ acc.content = <<>>
      BY DEF NothingYet
    <2>2. flushText(acc) = acc /\ flushReasoning(acc) = acc
      BY <2>1 DEF flushText, flushReasoning
    <2>3. Seen(acc) = Join(<<>>)
      BY <2>1, <2>2 DEF Seen, Flushed
    <2> HIDE DEF acc
    <2>4. QED
      BY <1>2, <1>3, <2>1, <2>3 DEF SameContent, OneOf, acc
  <1>6. SameTokens
    BY <1>1, <1>3 DEF SameTokens, NothingYet
  <1>7. SameStop
    <2>1. NoFinish(fed)
      BY <1>1 DEF NoFinish
    <2>2. StopsIn(out) = {}
      BY <1>1 DEF StopsIn
    <2>3. QED
      BY <1>1, <2>1, <2>2 DEF SameStop
  <1>8. QED
    BY <1>4, <1>5, <1>6, <1>7 DEF BothWays

\* Every step keeps it so.
LEMMA BothWaysStep ==
    ASSUME IInv, BothWays, [Next]_vars
    PROVE  BothWays'
  <1> USE DEF BothWays
  <1> DEFINE J == Shows(out)
  <1>1. ASSUME NEW e \in Inputs, Take(e),
               BlocksSent', Shows(out') = Shown(J, Spoken(e)),
               \/ finished' = finished /\ StopsIn(out') = StopsIn(out)
                  /\ (finished \/ e.type # "finish")
               \/ /\ ~finished /\ e.type = "finish" /\ finished' = TRUE
                  /\ StopsIn(out') = StopsIn(out) \cup {Stops(e)}
        PROVE  BothWays'
    <2>1. SameContent' /\ SameTokens'
      BY <1>1, FedStep
    <2>2. SameStop'
      BY <1>1, StopStep
    <2>3. QED
      BY <1>1, <2>1, <2>2
  <1>2. ASSUME NEW e \in Inputs
        PROVE  /\ TextOf(e) # <<>> => IsText(e)
               /\ Shown(J, Spoken(e)) =
                     CASE IsText(e) -> More(J, "text", TextOf(e))
                       [] e.type = "reasoning-delta" -> More(J, "thinking", TextDeltaContent(e))
                       [] e.type = "tool-call" -> JoinBlock(J, CallBlock(e))
                       [] OTHER -> J
    <2>1. TextOf(e) # <<>> => IsText(e)
      BY DEF TextOf, IsText
    <2>2. QED
      BY <2>1, InputTypes, SpokenFields
  <1>3. ASSUME NEW e \in Inputs, handleTextContentDelta(e) PROVE BothWays'
    <2> DEFINE t == TextOf(e)
    <2>1. /\ t \in Seq(Fragments) /\ t # <<>> /\ Take(e) /\ finished' = finished
          /\ IsText(e)
      BY <1>2, <1>3, TextTypes DEF handleTextContentDelta
    <2>2. e.type # "finish" /\ Shown(J, Spoken(e)) = More(J, "text", t)
      BY <1>2, <2>1 DEF IsText
    <2>3. /\ BlocksSent' /\ Shows(out') = More(J, "text", t)
          /\ StopsIn(out') = StopsIn(out)
      <3>1. CASE ~blockStarted \/ currentBlockType # "text"
        <4>1. Open("text", t)
          BY <1>3, <3>1 DEF handleTextContentDelta
        <4> HIDE DEF t
        <4>2. QED
          BY <2>1, <4>1, OpenBlocks
      <3>2. CASE ~(~blockStarted \/ currentBlockType # "text")
        <4>1. Continue(t) /\ blockStarted /\ currentBlockType = "text"
          BY <1>3, <3>2 DEF handleTextContentDelta
        <4> HIDE DEF t
        <4>2. QED
          BY <2>1, <4>1, ContinueBlocks
      <3>3. QED
        BY <3>1, <3>2
    <2>4. QED
      BY <1>1, <2>1, <2>2, <2>3
  <1>4. ASSUME NEW e \in Inputs, handleReasoningDelta(e) PROVE BothWays'
    <2> DEFINE t == TextDeltaContent(e)
    <2>1. /\ t \in Seq(Fragments) /\ t # <<>> /\ Take(e) /\ finished' = finished
          /\ e.type = "reasoning-delta" /\ Open("thinking", t)
      BY <1>4, TextTypes DEF handleReasoningDelta
    <2>2. Shown(J, Spoken(e)) = More(J, "thinking", t)
      BY <1>2, <2>1 DEF IsText
    <2> HIDE DEF t
    <2>3. /\ BlocksSent' /\ Shows(out') = More(J, "thinking", t)
          /\ StopsIn(out') = StopsIn(out)
      BY <2>1, OpenBlocks
    <2>4. QED
      BY <1>1, <2>1, <2>2, <2>3
  <1>5. ASSUME NEW e \in Inputs, handleToolCall(e) PROVE BothWays'
    <2>1. Take(e) /\ finished' = finished /\ e.type = "tool-call"
      BY <1>5 DEF handleToolCall
    <2>2. /\ BlocksSent' /\ Shows(out') = JoinBlock(J, CallBlock(e))
          /\ StopsIn(out') = StopsIn(out)
      BY <1>5, ToolBlocks
    <2>3. Shown(J, Spoken(e)) = JoinBlock(J, CallBlock(e))
      BY <1>2, <2>1 DEF IsText
    <2>4. QED
      BY <1>1, <2>1, <2>2, <2>3
  <1>6. ASSUME NEW e \in Inputs, handleFinish(e) PROVE BothWays'
    <2>1. Take(e) /\ ~finished /\ finished' = TRUE /\ e.type = "finish"
      BY <1>6 DEF handleFinish
    <2>2. /\ BlocksSent' /\ AssembleBlocks(out') = AssembleBlocks(out)
          /\ StopsIn(out') = StopsIn(out) \cup {Stops(e)}
      BY <1>6, FinishBlocks
    <2>3. Shown(J, Spoken(e)) = J
      BY <1>2, <2>1 DEF IsText
    <2>4. QED
      BY <1>1, <2>1, <2>2, <2>3 DEF Shows
  <1>7. ASSUME NEW e \in Inputs, Ignore(e) PROVE BothWays'
    <2>1. Take(e) /\ Nothing(e) /\ UNCHANGED <<context, out>>
      BY <1>7 DEF Ignore
    <2>2. /\ finished' = finished /\ StopsIn(out') = StopsIn(out) /\ BlocksSent'
          /\ Shows(out') = J
      BY <2>1 DEF context, BlocksSent, Shows
    <2>3. finished \/ e.type # "finish"
      BY <2>1 DEF Nothing
    <2>4. Shown(J, Spoken(e)) = J
      <3>1. CASE e.type \in {"finish", "other"}
        BY <1>2, <3>1 DEF IsText
      <3>2. CASE IsText(e) /\ TextOf(e) = <<>>
        <4>1. Shown(J, Spoken(e)) = More(J, "text", TextOf(e))
          BY <1>2, <3>2 DEF IsText
        <4>2. QED
          BY <3>2, <4>1 DEF More
      <3>3. CASE e.type = "reasoning-delta" /\ TextDeltaContent(e) = <<>>
        <4>1. Shown(J, Spoken(e)) = More(J, "thinking", TextDeltaContent(e))
          BY <1>2, <3>3 DEF IsText
        <4>2. QED
          BY <3>3, <4>1 DEF More
      <3>4. QED
        BY <2>1, <3>1, <3>2, <3>3 DEF Nothing, IsText
    <2>5. QED
      BY <1>1, <2>1, <2>2, <2>3, <2>4
  <1>8. ASSUME UNCHANGED <<context, out, fed, outputTokens>> PROVE BothWays'
    BY <1>8 DEF context, BlocksSent, SameContent, SameTokens, SameStop, Shows
  <1>9. QED
    BY <1>3, <1>4, <1>5, <1>6, <1>7, <1>8 DEF Next, ParseLine, Write, Return, vars

\* What is sent with the first finish, and what is collected.
LEMMA EndsAgree ==
    ASSUME IInv, BothWays, finished
    PROVE  LET g == Gather(fed)
           IN  \E r \in Reasons, u \in Nat \cup {NoUsage} :
                  /\ StopReasonSent = mapAnthropicStreamStopReason(r)
                  /\ OutputTokensSent = u
                  /\ FinishesAgree => g.reason = Reported(r)
                  /\ UsagesAgree => g.tokens = Counted(u)
  <1> DEFINE g == Gather(fed)
  <1>1. PICK f : First(fed, f) /\ StopsIn(out) = {Stops(f)}
    BY DEF BothWays, SameStop
  <1>2. (FinishesAgree => Agreeing(fed)) /\ (UsagesAgree => SameUsage(fed))
    BY DEF FinishesAgree, Agreeing, UsagesAgree, SameUsage
  <1>3. /\ Agreeing(fed) => g.reason = Reported(f.reason)
        /\ SameUsage(fed) => g.tokens = Counted(UsageOf(f))
    BY <1>1, FedKnown, EndOf DEF LastEnd
  <1>4. f.reason \in Reasons /\ UsageOf(f) \in Nat \cup {NoUsage}
    <2>1. PICK k \in 1..Len(fed) : fed[k] = f
      BY <1>1 DEF First
    <2>2. f \in Known
      BY <2>1, FedKnown, ElementOfSeq
    <2>3. QED
      BY <2>2, KnownTypes
  <1> DEFINE m == mapAnthropicStreamStopReason(f.reason)
             u == UsageOf(f)
             i == CHOOSE i \in 1..Len(out) : out[i].type = "message_delta"
  <1>5. StopReasonSent = m /\ OutputTokensSent = u
    <2>1. \E k \in 1..Len(out) : out[k].type = "message_delta"
      BY <1>1 DEF StopsIn
    <2>2. i \in 1..Len(out) /\ out[i].type = "message_delta"
      BY <2>1
    <2>3. FinishSent = out[i].content
      BY DEF FinishSent
    <2> HIDE DEF i, m, u
    <2>4. out[i].content \in StopsIn(out)
      BY <2>2 DEF StopsIn
    <2>5. FinishSent = StopReason(m, u)
      BY <1>1, <2>3, <2>4 DEF Stops, m, u
    <2>6. StopReason(m, u)[2] = m /\ StopReason(m, u)[3] = u
      BY DEF StopReason
    <2>7. QED
      BY <2>5, <2>6 DEF StopReasonSent, OutputTokensSent
  <1>6. QED
    BY <1>2, <1>3, <1>4, <1>5

\* The answers agree where the invariant holds.
LEMMA AnswersAgree == IInv /\ BothWays => MessagesModesAgree
  <1> SUFFICES ASSUME IInv, BothWays PROVE MessagesModesAgree
    OBVIOUS
  <1> DEFINE g == Gather(fed)
             x == Gather(Heard(fed))
             c == CollectAnthropic(fed)
             d == CollectAnthropic(Heard(fed))
  <1>1. g \in Gathered /\ x \in Gathered
    BY FedKnown, GatherTyped
  <1>2. c = Flushed(g) /\ d = Flushed(x)
    BY CollectedIsFlushed
  <1> HIDE DEF g, x
  <1>3. c.reason = g.reason /\ c.tokens = g.tokens
    BY <1>1, <1>2, FlushedFields
  <1>4. Join(AsObjects(AssembleBlocks(out))) = Join(d.content)
    BY <1>2 DEF BothWays, SameContent, Shows, Seen, x
  <1>5. LastUsageInFinish => outputTokens = c.tokens
    <2>1. LastUsageInFinish => UsageLast(fed)
      BY DEF LastUsageInFinish, UsageLast
    <2>2. QED
      BY <1>3, <2>1 DEF BothWays, SameTokens, g
  <1>6. ASSUME finished
        PROVE  /\ FinishesAgree =>
                     StopReasonSent = IF c.reason \in KnownReasons
                                      THEN MapFinishReason(c.reason)
                                      ELSE c.reason
               /\ UsagesAgree =>
                     c.tokens = IF OutputTokensSent = NoUsage THEN 0 ELSE OutputTokensSent
    <2>1. PICK r \in Reasons, u \in Nat \cup {NoUsage} :
              /\ StopReasonSent = mapAnthropicStreamStopReason(r)
              /\ OutputTokensSent = u
              /\ FinishesAgree => g.reason = Reported(r)
              /\ UsagesAgree => g.tokens = Counted(u)
      BY <1>6, EndsAgree DEF g
    <2>2. mapAnthropicStreamStopReason(r)
             = IF Reported(r) \in KnownReasons THEN MapFinishReason(Reported(r))
                                               ELSE Reported(r)
      BY DEF mapAnthropicStreamStopReason, MapFinishReason, Reported, KnownReasons
    <2>3. QED
      BY <1>3, <2>1, <2>2 DEF Counted
  <1> HIDE DEF c, d
  <1>7. QED
    BY <1>4, <1>5, <1>6 DEF MessagesModesAgree, c, d

\* Both invariants hold in every state.
LEMMA Both == Spec => [](IInv /\ BothWays)
  <1>1. BothWays /\ IInv /\ IInv' /\ [Next]_vars => BothWays'
    BY BothWaysStep
  <1>2. QED
    BY <1>1, BothWaysInit, Invariance, PTL DEF Spec

\* A Messages client gets from AnthropicTranslator what it gets from the collector,
\* wherever the upstream stops: the content but for reasoning in `delta' and for
\* inputs that are no objects; the stop reason and the output tokens where the
\* finishes agree, unknown reasons as they are; and the verdict on empty responses
\* where usage without a finish is followed by a finish's.
THEOREM MessagesAgree == Spec => []MessagesModesAgree
  BY Both, AnswersAgree, PTL

\* A Chat Completions client gets the same text, reasoning and finish reason from
\* OpenAITranslator as from the collector, and the same tool call if there is one.
THEOREM ChatModes == Spec => []ChatModesAgree
  <1>1. TypeOK => ChatModesAgree
    BY ChatAgree DEF TypeOK
  <1>2. QED
    BY <1>1, Typing, PTL

\* A Responses client gets the same text and function calls in both modes, but for
\* the printed nil, and response.completed repeats the text.
THEOREM ResponsesModes == Spec => []ResponsesModesAgree
  <1>1. TypeOK => ResponsesModesAgree
    BY ResponsesAgree DEF TypeOK
  <1>2. QED
    BY <1>1, Typing, PTL
=============================================================================
