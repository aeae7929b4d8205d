------------------------- MODULE Conversation_proofs -------------------------
(***************************************************************************)
(* Proofs about the conversion of requests, for histories of every length, *)
(* with all texts, tools and IDs.                                          *)
(*                                                                         *)
(* The argument is the same for the three APIs: the messages of a request, *)
(* taken apart into their parts, are what is sent of each turn, one turn   *)
(* after the other (RequestSent).  Chat Completions sends one message for  *)
(* a turn, Responses one for each item of a turn; Messages joins what is   *)
(* said in a row, so there the history is taken in groups.  All properties *)
(* then follow from what is sent of one turn.                              *)
(***************************************************************************)
EXTENDS Conversation, SequenceLemmas, TLAPS
-----------------------------------------------------------------------------
(* What is sent of a turn. *)

\* The turns a history is made of.
Turns == SystemTurns \cup UserTurns \cup AnswerTurns \cup ResultTurns

\* What each API makes of the input of a call, of the error mark, and of a
\* tool's name that is not found.
InputSent(api, t, c) ==
    CASE api = "messages"             -> MessagesInput(t, c)
      [] api # "messages" /\ t.blocks -> Parsed(ChatInput(t, c))
      [] api = "chat" /\ ~t.blocks    -> TryParseJSON(ChatInput(t, c))
      [] OTHER                        -> TryParseJSON(Arguments(c))
ErrorSent(api, t) ==
    CASE api = "chat"      -> IF t.blocks THEN t.error ELSE Prefixed(t)
      [] api = "messages"  -> t.error
      [] api = "responses" -> FALSE
Otherwise(api) == IF api = "messages" THEN "" ELSE "unknown"

\* The parts that become of a turn.
SentParts(api, t, names) ==
    CASE t.kind = "system" -> IF api = "responses" THEN TextsC(t.text) ELSE <<>>
      [] t.kind = "user"   -> TextsC(t.text) \o (IF t.image THEN <<ImageC>> ELSE <<>>)
      [] t.kind = "answer" ->
            (IF api = "messages" THEN TextsC(t.thinking) ELSE <<>>) \o TextsC(t.text)
            \o [i \in DOMAIN t.calls |-> CallC(t.calls[i].id, InputSent(api, t, t.calls[i]))]
      [] t.kind = "result" ->
            <<ResultC(t.id, Named(t.id, names, Otherwise(api)), t.text, ErrorSent(api, t))>>
\* The role of what is sent of a turn, and parts with a role.
SentRole(t, user) == CASE t.kind = "system" -> "system" [] t.kind = "user" -> user
                       [] t.kind = "answer" -> "assistant" [] t.kind = "result" -> "tool"
Tagged(role, ps) == [j \in DOMAIN ps |-> [role |-> role, part |-> ps[j]]]

\* Inputs as they are sent, names, parts, and messages.
Sendable == {"nil", "{}", "object", "array", "json", "string", "held"}
Names == {NameOf[id] : id \in ToolIDs} \cup {"unknown", ""}
OutPart == {TextC(x) : x \in Text} \cup {ImageC}
           \cup {CallC(id, in) : id \in ToolIDs, in \in Sendable}
           \cup {ResultC(id, name, text, error) : id \in ToolIDs, name \in Names,
                                                  text \in Text, error \in BOOLEAN}

\* The fields of a turn.
LEMMA TurnFields ==
    ASSUME NEW t \in Turns
    PROVE  /\ t.kind \in {"system", "user", "answer", "result"}
           /\ t.text \in Text
           /\ t.blocks \in BOOLEAN
           /\ t.kind = "user" => t.image \in BOOLEAN
           /\ t.kind = "answer" => /\ t.thinking \in Text
                                   /\ t.calls \in Seq(Tool)
                                   /\ t.stream \in BOOLEAN
                                   /\ t.text = <<>> => t.calls # <<>>
           /\ t.kind = "result" => t.id \in ToolIDs /\ t.error \in BOOLEAN
  <1> USE ConversationAssumption DEF Turn
  <1>1. CASE t \in SystemTurns
    BY <1>1
  <1>2. CASE t \in UserTurns
    BY <1>2
  <1>3. CASE t \in AnswerTurns
    <2>1. /\ t.kind = "answer" /\ t.text \in Text /\ t.blocks \in BOOLEAN
          /\ t.thinking \in Text /\ t.calls \in Seq(Tool) /\ t.stream \in BOOLEAN
          /\ t.text = <<>> => t.calls # <<>>
      BY <1>3
    <2>2. QED
      BY <2>1
  <1>4. CASE t \in ResultTurns
    BY <1>4
  <1>5. QED
    BY <1>1, <1>2, <1>3, <1>4 DEF Turns

\* The parts of a message that has been converted.
LEMMA OutParts ==
    /\ \A x \in Text : TextC(x) \in OutPart /\ TextsC(x) \in Seq(OutPart)
    /\ ImageC \in OutPart /\ <<ImageC>> \in Seq(OutPart)
    /\ \A id \in ToolIDs, in \in Sendable : CallC(id, in) \in OutPart
    /\ \A id \in ToolIDs, name \in Names, text \in Text, error \in BOOLEAN :
          ResultC(id, name, text, error) \in OutPart
  <1>1. /\ \A x \in Text : TextC(x) \in OutPart
        /\ ImageC \in OutPart
        /\ \A id \in ToolIDs, in \in Sendable : CallC(id, in) \in OutPart
        /\ \A id \in ToolIDs, name \in Names, text \in Text, error \in BOOLEAN :
              ResultC(id, name, text, error) \in OutPart
    BY DEF OutPart
  <1>2. \A x \in Text : TextsC(x) \in Seq(OutPart)
    BY <1>1 DEF TextsC
  <1>3. QED
    BY <1>1, <1>2

\* The name of a tool's answer.
LEMMA NamedType ==
    ASSUME NEW id \in ToolIDs, NEW names, NEW otherwise \in {"unknown", ""}
    PROVE  Named(id, names, otherwise) \in Names
  BY DEF Named, Names

\* A call's input, as it comes back.
LEMMA InputTypes ==
    ASSUME NEW api \in APIs, NEW t \in Turns, t.kind = "answer", NEW c \in Tool
    PROVE  /\ InputSent(api, t, c) \in Sendable
           /\ \/ InputSent(api, t, c) = InputBack(api, t, c.input)
              \/ c.input = "nil" /\ InputSent(api, t, c) = "{}"
  <1>1. /\ c.input \in {"nil", "object", "array", "json", "string"}
        /\ t.stream \in BOOLEAN /\ t.blocks \in BOOLEAN
    BY TurnFields DEF Tool
  <1> USE DEF InputSent, InputBack, Parsed, Sendable
  <1>2. CASE api = "messages"
    BY <1>1, <1>2 DEF MessagesInput, ToolContent, InputMap
  <1>3. CASE api # "messages" /\ t.blocks
    BY <1>1, <1>3 DEF ChatInput, ChatArguments, Arguments
  <1>4. CASE api = "chat" /\ ~t.blocks
    BY <1>1, <1>4 DEF ChatInput, ChatArguments, Arguments, TryParseJSON
  <1>5. CASE api = "responses" /\ ~t.blocks
    BY <1>1, <1>5 DEF Arguments, TryParseJSON
  <1>6. QED
    BY <1>1, <1>2, <1>3, <1>4, <1>5 DEF APIs

\* The parts that become of a turn.
LEMMA SentTypes ==
    ASSUME NEW api \in APIs, NEW t \in Turns, NEW names
    PROVE  SentParts(api, t, names) \in Seq(OutPart)
  <1> USE TurnFields
  <1>1. CASE t.kind = "system"
    <2>1. <<>> \in Seq(OutPart) /\ TextsC(t.text) \in Seq(OutPart)
      BY OutParts, EmptySeq
    <2>2. QED
      BY <1>1, <2>1 DEF SentParts
  <1>2. CASE t.kind = "user"
    <2>1. TextsC(t.text) \in Seq(OutPart) /\ (IF t.image THEN <<ImageC>> ELSE <<>>) \in Seq(OutPart)
      BY OutParts, EmptySeq
    <2>2. QED
      BY <1>2, <2>1, ConcatProperties DEF SentParts
  <1>3. CASE t.kind = "answer"
    <2> DEFINE u == IF api = "messages" THEN TextsC(t.thinking) ELSE <<>>
               v == TextsC(t.text)
               w == [i \in DOMAIN t.calls |-> CallC(t.calls[i].id, InputSent(api, t, t.calls[i]))]
    <2>1. u \in Seq(OutPart) /\ v \in Seq(OutPart)
      BY <1>3, OutParts, EmptySeq
    <2>2. w \in Seq(OutPart)
      <3> DEFINE s == t.calls
      <3>1. s \in Seq(Tool)
        BY <1>3
      <3> HIDE DEF s
      <3>2. DOMAIN s = 1..Len(s) /\ Len(s) \in Nat /\ \A i \in 1..Len(s) : s[i] \in Tool
        BY <3>1, LenProperties, ElementOfSeq
      <3>3. ASSUME NEW i \in 1..Len(s)
            PROVE  CallC(s[i].id, InputSent(api, t, s[i])) \in OutPart
        <4>1. s[i] \in Tool /\ s[i].id \in ToolIDs
          BY <3>2 DEF Tool
        <4>2. InputSent(api, t, s[i]) \in Sendable
          BY <1>3, <4>1, InputTypes
        <4>3. QED
          BY <4>1, <4>2, OutParts
      <3>4. [i \in DOMAIN s |-> CallC(s[i].id, InputSent(api, t, s[i]))] \in Seq(OutPart)
        BY <3>2, <3>3
      <3>5. QED
        BY <3>4 DEF s
    <2>3. SentParts(api, t, names) = u \o v \o w
      BY <1>3 DEF SentParts
    <2> HIDE DEF u, v, w
    <2>4. u \o v \in Seq(OutPart)
      BY <2>1, ConcatProperties
    <2>5. QED
      BY <2>2, <2>3, <2>4, ConcatProperties
  <1>4. CASE t.kind = "result"
    <2>1. ErrorSent(api, t) \in BOOLEAN
      BY <1>4 DEF APIs, ErrorSent, Prefixed
    <2>2. Named(t.id, names, Otherwise(api)) \in Names
      BY <1>4, NamedType DEF Otherwise
    <2>3. ResultC(t.id, Named(t.id, names, Otherwise(api)), t.text, ErrorSent(api, t)) \in OutPart
      BY <1>4, <2>1, <2>2, OutParts
    <2>4. QED
      BY <1>4, <2>3 DEF SentParts
  <1>5. QED
    BY <1>1, <1>2, <1>3, <1>4

\* The elements of what becomes of a turn.
LEMMA SentElements ==
    ASSUME NEW api \in APIs, NEW t \in Turns, NEW names, NEW p \in ToSet(SentParts(api, t, names))
    PROVE  /\ p.type \in {"text", "image", "tool-call", "tool-result"}
           /\ p.type = "tool-call" =>
                 /\ t.kind = "answer"
                 /\ \E c \in ToSet(t.calls) : c \in Tool /\ p = CallC(c.id, InputSent(api, t, c))
           /\ p.type = "tool-result" <=> t.kind = "result"
           /\ t.kind = "result" =>
                 p = ResultC(t.id, Named(t.id, names, Otherwise(api)), t.text, ErrorSent(api, t))
  <1> USE TurnFields
  <1> DEFINE P == /\ p.type \in {"text", "image", "tool-call", "tool-result"}
                  /\ p.type = "tool-call" =>
                        /\ t.kind = "answer"
                        /\ \E c \in ToSet(t.calls) : c \in Tool /\ p = CallC(c.id, InputSent(api, t, c))
                  /\ p.type = "tool-result" <=> t.kind = "result"
                  /\ t.kind = "result" =>
                        p = ResultC(t.id, Named(t.id, names, Otherwise(api)), t.text, ErrorSent(api, t))
  <1>0. /\ ToSet(<<>>) = {} /\ <<>> \in Seq(OutPart)
        /\ \A x \in Text : TextsC(x) \in Seq(OutPart) /\ \A q \in ToSet(TextsC(x)) : q.type = "text"
    <2>1. ToSet(<<>>) = {}
      BY DEF ToSet
    <2>2. \A x : TextC(x).type = "text"
      BY DEF TextC
    <2>3. \A x : \A q \in ToSet(<<TextC(x)>>) : q = TextC(x)
      BY DEF ToSet
    <2>4. QED
      BY <2>1, <2>2, <2>3, OutParts, EmptySeq DEF TextsC
  <1>1. CASE t.kind = "system"
    <2>1. p.type = "text"
      BY <1>0, <1>1 DEF SentParts
    <2>2. QED
      BY <1>1, <2>1
  <1>2. CASE t.kind = "user"
    <2> DEFINE v == TextsC(t.text)
               w == IF t.image THEN <<ImageC>> ELSE <<>>
    <2>1. v \in Seq(OutPart) /\ w \in Seq(OutPart)
      BY OutParts, EmptySeq
    <2>2. \A q \in ToSet(w) : q.type = "image"
      BY DEF ToSet, ImageC
    <2>3. \A q \in ToSet(v) : q.type = "text"
      BY <1>0
    <2>4. SentParts(api, t, names) = v \o w
      BY <1>2 DEF SentParts
    <2> HIDE DEF v, w
    <2>5. p \in ToSet(v) \/ p \in ToSet(w)
      BY <2>1, <2>4, ElementsOfConcat
    <2>6. p.type \in {"text", "image"}
      BY <2>2, <2>3, <2>5
    <2>7. QED
      BY <1>2, <2>6
  <1>3. CASE t.kind = "answer"
    <2> DEFINE u == IF api = "messages" THEN TextsC(t.thinking) ELSE <<>>
               v == TextsC(t.text)
               w == [i \in DOMAIN t.calls |-> CallC(t.calls[i].id, InputSent(api, t, t.calls[i]))]
    <2>1. u \in Seq(OutPart) /\ v \in Seq(OutPart)
      BY <1>3, OutParts, EmptySeq
    <2>2. /\ w \in Seq(OutPart)
          /\ \A q \in ToSet(w) : \E c \in ToSet(t.calls) :
                c \in Tool /\ q = CallC(c.id, InputSent(api, t, c))
      <3> DEFINE s == t.calls
      <3>1. s \in Seq(Tool)
        BY <1>3
      <3> HIDE DEF s
      <3>2. DOMAIN s = 1..Len(s) /\ Len(s) \in Nat /\ \A i \in 1..Len(s) : s[i] \in Tool
        BY <3>1, LenProperties, ElementOfSeq
      <3>3. ASSUME NEW i \in 1..Len(s)
            PROVE  CallC(s[i].id, InputSent(api, t, s[i])) \in OutPart
        <4>1. s[i] \in Tool /\ s[i].id \in ToolIDs
          BY <3>2 DEF Tool
        <4>2. InputSent(api, t, s[i]) \in Sendable
          BY <1>3, <4>1, InputTypes
        <4>3. QED
          BY <4>1, <4>2, OutParts
      <3> DEFINE x == [i \in DOMAIN s |-> CallC(s[i].id, InputSent(api, t, s[i]))]
      <3>4. x \in Seq(OutPart)
        BY <3>2, <3>3
      <3>5. ASSUME NEW q \in ToSet(x)
            PROVE  \E c \in ToSet(s) : c \in Tool /\ q = CallC(c.id, InputSent(api, t, c))
        <4>1. PICK i \in DOMAIN s : q = CallC(s[i].id, InputSent(api, t, s[i]))
          BY DEF ToSet
        <4>2. s[i] \in ToSet(s) /\ s[i] \in Tool
          BY <3>2, <4>1 DEF ToSet
        <4>3. QED
          BY <4>1, <4>2
      <3>6. QED
        BY <3>4, <3>5 DEF s
    <2>3. SentParts(api, t, names) = u \o v \o w
      BY <1>3 DEF SentParts
    <2>4. (\A q \in ToSet(u) : q.type = "text") /\ (\A q \in ToSet(v) : q.type = "text")
      BY <1>0, <1>3
    <2> HIDE DEF u, v, w
    <2>5. u \o v \in Seq(OutPart)
      BY <2>1, ConcatProperties
    <2>6. p \in ToSet(u \o v) \/ p \in ToSet(w)
      <3> DEFINE x == u \o v
      <3>1. x \in Seq(OutPart) /\ w \in Seq(OutPart) /\ p \in ToSet(x \o w)
        BY <2>2, <2>3, <2>5
      <3> HIDE DEF x
      <3>2. p \in ToSet(x) \/ p \in ToSet(w)
        BY <3>1, ElementsOfConcat
      <3>3. QED
        BY <3>2 DEF x
    <2>7. p \in ToSet(u) \/ p \in ToSet(v) \/ p \in ToSet(w)
      BY <2>1, <2>6, ElementsOfConcat
    <2>8. CASE p \in ToSet(w)
      <3>1. PICK c \in ToSet(t.calls) : c \in Tool /\ p = CallC(c.id, InputSent(api, t, c))
        BY <2>2, <2>8
      <3>2. p.type = "tool-call"
        BY <3>1 DEF CallC
      <3>3. QED
        BY <1>3, <3>1, <3>2
    <2>9. CASE p \in ToSet(u) \/ p \in ToSet(v)
      <3>1. p.type = "text"
        BY <2>4, <2>9
      <3>2. QED
        BY <1>3, <3>1
    <2>10. QED
      BY <2>7, <2>8, <2>9
  <1>4. CASE t.kind = "result"
    <2>1. p = ResultC(t.id, Named(t.id, names, Otherwise(api)), t.text, ErrorSent(api, t))
      BY <1>4 DEF SentParts, ToSet
    <2>2. p.type = "tool-result"
      BY <2>1 DEF ResultC
    <2>3. QED
      BY <1>4, <2>1, <2>2
  <1>5. QED
    BY <1>1, <1>2, <1>3, <1>4

\* A tool's answer becomes one part.
LEMMA SentResult ==
    ASSUME NEW api \in APIs, NEW t \in Turns, NEW names, t.kind = "result"
    PROVE  ResultC(t.id, Named(t.id, names, Otherwise(api)), t.text, ErrorSent(api, t))
              \in ToSet(SentParts(api, t, names))
  BY DEF SentParts, ToSet

\* Only a tool's answer has a part of type tool-result.
LEMMA HasResult ==
    ASSUME NEW api \in APIs, NEW t \in Turns, NEW names
    PROVE  commandCodeContentHasType(SentParts(api, t, names), "tool-result") <=> t.kind = "result"
  <1> DEFINE s == SentParts(api, t, names)
  <1>1. commandCodeContentHasType(s, "tool-result") <=> \E p \in ToSet(s) : p.type = "tool-result"
    BY DEF commandCodeContentHasType, ToSet
  <1>2. \A p \in ToSet(s) : p.type = "tool-result" <=> t.kind = "result"
    BY SentElements
  <1>3. t.kind = "result" => \E p \in ToSet(s) : TRUE
    BY SentResult
  <1> HIDE DEF s
  <1>4. commandCodeContentHasType(s, "tool-result") <=> t.kind = "result"
    BY <1>1, <1>2, <1>3
  <1>5. QED
    BY <1>4 DEF s
-----------------------------------------------------------------------------
(* Chat Completions, turn by turn. *)

\* The parts that clients send, thinking apart.
InPart == {TextPart(x) : x \in Text} \cup {ImagePart}
          \cup {UsePart(id, in) : id \in ToolIDs, in \in Sendable}
          \cup {ResultPart(t) : t \in {x \in Turns : x.kind = "result"}}

\* The conversion of each.
OfPart(names) == [p \in InPart |-> openAIContentPartToCommandCode(p, names)]

\* What each kind of part is converted to.
LEMMA PartConversion ==
    ASSUME NEW names
    PROVE  /\ \A x \in Text : /\ TextPart(x) \in InPart
                              /\ openAIContentPartToCommandCode(TextPart(x), names) = TextsC(x)
           /\ ImagePart \in InPart
           /\ openAIContentPartToCommandCode(ImagePart, names) = <<ImageC>>
           /\ \A id \in ToolIDs, in \in Sendable :
                 /\ UsePart(id, in) \in InPart
                 /\ openAIContentPartToCommandCode(UsePart(id, in), names) = <<CallC(id, in)>>
           /\ \A t \in Turns : t.kind = "result" =>
                 /\ ResultPart(t) \in InPart
                 /\ openAIContentPartToCommandCode(ResultPart(t), names)
                       = <<ResultC(t.id, Named(t.id, names, "unknown"), t.text, t.error)>>
  <1>1. /\ \A x \in Text : TextPart(x) \in InPart
        /\ ImagePart \in InPart
        /\ \A id \in ToolIDs, in \in Sendable : UsePart(id, in) \in InPart
        /\ \A t \in Turns : t.kind = "result" => ResultPart(t) \in InPart
    BY DEF InPart
  <1>2. /\ \A x \in Text : openAIContentPartToCommandCode(TextPart(x), names) = TextsC(x)
        /\ openAIContentPartToCommandCode(ImagePart, names) = <<ImageC>>
        /\ \A id \in ToolIDs, in \in Sendable :
              openAIContentPartToCommandCode(UsePart(id, in), names) = <<CallC(id, in)>>
    BY DEF openAIContentPartToCommandCode, TextPart, ImagePart, UsePart
  <1>3. \A t \in Turns : t.kind = "result" =>
            openAIContentPartToCommandCode(ResultPart(t), names)
               = <<ResultC(t.id, Named(t.id, names, "unknown"), t.text, t.error)>>
    BY DEF openAIContentPartToCommandCode, ResultPart
  <1>4. QED
    BY <1>1, <1>2, <1>3

\* They are parts that the upstream gets.
LEMMA OfPartIsMap ==
    ASSUME NEW names
    PROVE  IsMap(OfPart(names), InPart, OutPart)
  <1>1. ASSUME NEW p \in InPart PROVE openAIContentPartToCommandCode(p, names) \in Seq(OutPart)
    <2>1. CASE \E x \in Text : p = TextPart(x)
      BY <2>1, PartConversion, OutParts
    <2>2. CASE p = ImagePart
      BY <2>2, PartConversion, OutParts
    <2>3. CASE \E id \in ToolIDs, in \in Sendable : p = UsePart(id, in)
      <3>1. PICK id \in ToolIDs, in \in Sendable : p = UsePart(id, in)
        BY <2>3
      <3>2. CallC(id, in) \in OutPart
        BY OutParts
      <3>3. openAIContentPartToCommandCode(UsePart(id, in), names) = <<CallC(id, in)>>
        BY PartConversion
      <3>4. openAIContentPartToCommandCode(p, names) = <<CallC(id, in)>>
        BY <3>1, <3>3
      <3>5. QED
        BY <3>2, <3>4
    <2>4. CASE \E t \in Turns : t.kind = "result" /\ p = ResultPart(t)
      <3>1. PICK t \in Turns : t.kind = "result" /\ p = ResultPart(t)
        BY <2>4
      <3>2. ResultC(t.id, Named(t.id, names, "unknown"), t.text, t.error) \in OutPart
        BY <3>1, TurnFields, NamedType, OutParts
      <3>3. openAIContentPartToCommandCode(ResultPart(t), names)
               = <<ResultC(t.id, Named(t.id, names, "unknown"), t.text, t.error)>>
        BY <3>1, PartConversion
      <3>4. openAIContentPartToCommandCode(p, names)
               = <<ResultC(t.id, Named(t.id, names, "unknown"), t.text, t.error)>>
        BY <3>1, <3>3
      <3>5. QED
        BY <3>2, <3>4
    <2>5. QED
      BY <2>1, <2>2, <2>3, <2>4 DEF InPart
  <1>2. QED
    BY <1>1 DEF IsMap, OfPart

\* The content of a message is converted part by part.
LEMMA ContentIsEach ==
    ASSUME NEW names, NEW content, NEW ps \in Seq(InPart), content.parts = ps
    PROVE  openAIContentToCommandCode(content, names) = Each(OfPart(names), ps)
  <1>1. DOMAIN ps = 1..Len(ps) /\ \A i \in 1..Len(ps) : ps[i] \in InPart
    BY LenProperties, ElementOfSeq
  <1>2. [i \in DOMAIN ps |-> openAIContentPartToCommandCode(ps[i], names)]
            = [i \in DOMAIN ps |-> OfPart(names)[ps[i]]]
    BY <1>1 DEF OfPart
  <1>3. QED
    BY <1>2, Zenon DEF openAIContentToCommandCode, Each

\* A content of one part.
LEMMA OnePartContent ==
    ASSUME NEW names, NEW content, NEW p \in InPart, content.parts = <<p>>
    PROVE  /\ openAIContentToCommandCode(content, names) = openAIContentPartToCommandCode(p, names)
           /\ openAIContentPartToCommandCode(p, names) \in Seq(OutPart)
  <1>1. <<p>> \in Seq(InPart)
    OBVIOUS
  <1>2. Each(OfPart(names), <<p>>) = OfPart(names)[p] /\ OfPart(names)[p] \in Seq(OutPart)
    BY OfPartIsMap, EachOne
  <1>3. OfPart(names)[p] = openAIContentPartToCommandCode(p, names)
    BY DEF OfPart
  <1>4. QED
    BY <1>1, <1>2, <1>3, ContentIsEach

\* The part that each call of an answer becomes.
CallFun(api, t) == [c \in Tool |-> CallC(c.id, InputSent(api, t, c))]

\* The calls of an answer, mapped.
LEMMA CallsMapped ==
    ASSUME NEW api \in APIs, NEW t \in Turns, t.kind = "answer"
    PROVE  /\ IsFun(CallFun(api, t), Tool, OutPart)
           /\ [i \in DOMAIN t.calls |-> CallC(t.calls[i].id, InputSent(api, t, t.calls[i]))]
                 = Mapped(CallFun(api, t), t.calls)
           /\ Mapped(CallFun(api, t), t.calls) \in Seq(OutPart)
  <1> DEFINE s == t.calls
  <1>1. s \in Seq(Tool)
    BY TurnFields
  <1>2. IsFun(CallFun(api, t), Tool, OutPart)
    <2>1. ASSUME NEW c \in Tool PROVE CallC(c.id, InputSent(api, t, c)) \in OutPart
      <3>1. c.id \in ToolIDs
        BY DEF Tool
      <3>2. InputSent(api, t, c) \in Sendable
        BY InputTypes
      <3>3. QED
        BY <3>1, <3>2, OutParts
    <2>2. QED
      BY <2>1 DEF IsFun, CallFun
  <1> HIDE DEF s
  <1>3. [i \in DOMAIN s |-> CallC(s[i].id, InputSent(api, t, s[i]))] = Mapped(CallFun(api, t), s)
    <2>1. DOMAIN s = 1..Len(s) /\ \A i \in 1..Len(s) : s[i] \in Tool
      BY <1>1, LenProperties, ElementOfSeq
    <2>2. QED
      BY <2>1 DEF Mapped, CallFun
  <1>4. Mapped(CallFun(api, t), s) \in Seq(OutPart)
    BY <1>1, <1>2, MappedConcat
  <1>5. QED
    BY <1>2, <1>3, <1>4 DEF s

\* The calls of an answer as parts of its content.
LEMMA UsesConverted ==
    ASSUME NEW t \in Turns, t.kind = "answer", t.blocks, NEW names
    PROVE  /\ [i \in DOMAIN t.calls |-> UsePart(t.calls[i].id, Parsed(ChatInput(t, t.calls[i])))]
                 \in Seq(InPart)
           /\ Each(OfPart(names), [i \in DOMAIN t.calls |->
                                     UsePart(t.calls[i].id, Parsed(ChatInput(t, t.calls[i])))])
                 = Mapped(CallFun("chat", t), t.calls)
  <1> DEFINE s == t.calls
             g == [c \in Tool |-> UsePart(c.id, Parsed(ChatInput(t, c)))]
             h == [c \in Tool |-> <<CallC(c.id, InputSent("chat", t, c))>>]
  <1>0. "chat" \in APIs
    BY DEF APIs
  <1>1. s \in Seq(Tool)
    BY TurnFields
  <1>2. ASSUME NEW c \in Tool
        PROVE  /\ c.id \in ToolIDs /\ InputSent("chat", t, c) \in Sendable
               /\ Parsed(ChatInput(t, c)) = InputSent("chat", t, c)
    <2>1. c.id \in ToolIDs
      BY DEF Tool
    <2>2. InputSent("chat", t, c) \in Sendable
      BY <1>0, InputTypes
    <2>3. QED
      BY <2>1, <2>2 DEF InputSent
  <1>3. IsFun(g, Tool, InPart)
    <2>1. \A c \in Tool : UsePart(c.id, Parsed(ChatInput(t, c))) \in InPart
      BY <1>2, PartConversion
    <2>2. QED
      BY <2>1 DEF IsFun
  <1>4. \A c \in Tool : h[c] = OfPart(names)[g[c]]
    <2> SUFFICES ASSUME NEW c \in Tool PROVE h[c] = OfPart(names)[g[c]]
      OBVIOUS
    <2>1. g[c] = UsePart(c.id, InputSent("chat", t, c)) /\ h[c] = <<CallC(c.id, InputSent("chat", t, c))>>
      BY <1>2
    <2>2. g[c] \in InPart
      BY <1>3 DEF IsFun
    <2>3. openAIContentPartToCommandCode(g[c], names) = h[c]
      <3> HIDE DEF g, h
      <3>1. QED
        BY <1>2, <2>1, PartConversion
    <2>4. QED
      BY <2>2, <2>3 DEF OfPart
  <1>5. IsMap(h, Tool, OutPart) /\ \A c \in Tool : h[c] = <<CallFun("chat", t)[c]>>
    <2>1. \A c \in Tool : CallC(c.id, InputSent("chat", t, c)) \in OutPart
      BY <1>2, OutParts
    <2>2. QED
      BY <2>1 DEF IsMap, CallFun
  <1>6. IsFun(CallFun("chat", t), Tool, OutPart)
    BY <1>0, CallsMapped
  <1>7. [i \in DOMAIN s |-> UsePart(s[i].id, Parsed(ChatInput(t, s[i])))] = Mapped(g, s)
    <2> HIDE DEF s
    <2>1. DOMAIN s = 1..Len(s) /\ \A i \in 1..Len(s) : s[i] \in Tool
      BY <1>1, LenProperties, ElementOfSeq
    <2>2. QED
      BY <2>1 DEF Mapped
  <1> HIDE DEF g, h, s
  <1>8. Each(OfPart(names), Mapped(g, s)) = Each(h, s)
    BY <1>1, <1>3, <1>4, EachMapped
  <1>9. Each(h, s) = Mapped(CallFun("chat", t), s)
    BY <1>1, <1>5, <1>6, EachSingle
  <1>10. Mapped(g, s) \in Seq(InPart)
    BY <1>1, <1>3, MappedConcat
  <1>11. QED
    BY <1>7, <1>8, <1>9, <1>10 DEF s

\* The content of a turn's message, converted.
LEMMA ChatContent ==
    ASSUME NEW t \in Turns, NEW names, NEW c,
           c = openAIContentToCommandCode(ChatMessage(t).content, names)
    PROVE  /\ t.kind = "system" => c = TextsC(t.text)
           /\ t.kind = "user" => c = SentParts("chat", t, names)
           /\ t.kind = "answer" /\ ~t.blocks => c = TextsC(t.text)
           /\ t.kind = "answer" /\ t.blocks =>
                 c = TextsC(t.text) \o Mapped(CallFun("chat", t), t.calls)
           /\ t.kind = "result" /\ t.blocks =>
                 c = <<ResultC(t.id, Named(t.id, names, "unknown"), t.text, t.error)>>
  <1> USE TurnFields
  <1> DEFINE m == ChatMessage(t)
  <1>0. /\ TextPart(t.text) \in InPart
        /\ openAIContentPartToCommandCode(TextPart(t.text), names) = TextsC(t.text)
        /\ TextsC(t.text) \in Seq(OutPart)
    BY PartConversion, OutParts
  <1>1. ASSUME NEW content, content.parts = <<TextPart(t.text)>>
        PROVE  openAIContentToCommandCode(content, names) = TextsC(t.text)
    BY <1>0, <1>1, OnePartContent
  <1>2. String(t.text).parts = <<TextPart(t.text)>> /\ Content(t).parts = <<TextPart(t.text)>>
    BY DEF String, Content, Parts, TextPart
  <1>3. CASE t.kind = "system"
    <2>1. m.content = Content(t)
      BY <1>3 DEF ChatMessage, Message
    <2>2. QED
      BY <1>1, <1>2, <1>3, <2>1
  <1>4. CASE t.kind = "user"
    <2> DEFINE w == IF t.image THEN <<ImagePart>> ELSE <<>>
               x == IF t.image THEN <<ImageC>> ELSE <<>>
               u == <<TextPart(t.text)>>
    <2>1. SentParts("chat", t, names) = TextsC(t.text) \o x
      BY <1>4 DEF SentParts
    <2>2. CASE t.blocks \/ t.image
      <3>1. m.content.parts = u \o w
        BY <1>4, <2>2 DEF ChatMessage, Message, Parts, UserParts
      <3>2. u \in Seq(InPart) /\ w \in Seq(InPart)
        BY <1>0, PartConversion, EmptySeq
      <3>3. Each(OfPart(names), u) = TextsC(t.text)
        <4>1. Each(OfPart(names), u) = OfPart(names)[TextPart(t.text)]
          BY <1>0, OfPartIsMap, EachOne
        <4>2. QED
          BY <1>0, <4>1 DEF OfPart
      <3>4. Each(OfPart(names), w) = x
        <4>1. CASE t.image
          <5>1. Each(OfPart(names), <<ImagePart>>) = OfPart(names)[ImagePart]
            BY PartConversion, OfPartIsMap, EachOne
          <5>2. OfPart(names)[ImagePart] = <<ImageC>>
            BY PartConversion DEF OfPart
          <5>3. QED
            BY <4>1, <5>1, <5>2
        <4>2. CASE ~t.image
          BY <4>2, EachEmpty
        <4>3. QED
          BY <4>1, <4>2
      <3> HIDE DEF u, w
      <3>5. Each(OfPart(names), u \o w) = Each(OfPart(names), u) \o Each(OfPart(names), w)
        BY <3>2, OfPartIsMap, EachConcat
      <3>6. u \o w \in Seq(InPart)
        BY <3>2, ConcatProperties
      <3>7. c = Each(OfPart(names), u \o w)
        BY <3>1, <3>6, ContentIsEach
      <3>8. QED
        BY <1>4, <2>1, <3>3, <3>4, <3>5, <3>7
    <2>3. CASE ~(t.blocks \/ t.image)
      <3>1. m.content = String(t.text)
        BY <1>4, <2>3 DEF ChatMessage, Message
      <3>2. c = TextsC(t.text)
        BY <1>1, <1>2, <3>1
      <3>3. TextsC(t.text) \o <<>> = TextsC(t.text)
        BY <1>0, ConcatEmptySeq
      <3>4. QED
        BY <1>4, <2>1, <2>3, <3>2, <3>3
    <2>4. QED
      BY <2>2, <2>3
  <1>5. CASE t.kind = "answer" /\ ~t.blocks
    <2>1. CASE t.text = <<>>
      <3>1. m.content.parts = <<>>
        BY <1>5, <2>1 DEF ChatMessage, Message, NoContent
      <3>2. c = Each(OfPart(names), <<>>)
        BY <3>1, EmptySeq, ContentIsEach
      <3>3. c = <<>>
        BY <3>2, EachEmpty
      <3>4. QED
        BY <1>5, <2>1, <3>3 DEF TextsC
    <2>2. CASE t.text # <<>>
      <3>1. m.content = String(t.text)
        BY <1>5, <2>2 DEF ChatMessage, Message
      <3>2. QED
        BY <1>1, <1>2, <1>5, <3>1
    <2>3. QED
      BY <2>1, <2>2
  <1>6. CASE t.kind = "answer" /\ t.blocks
    <2> DEFINE u == <<TextPart(t.text)>>
               w == [i \in DOMAIN t.calls |-> UsePart(t.calls[i].id, Parsed(ChatInput(t, t.calls[i])))]
    <2>1. m.content.parts = u \o w
      BY <1>6 DEF ChatMessage, Message, Parts
    <2>2. u \in Seq(InPart) /\ w \in Seq(InPart)
      <3>1. u \in Seq(InPart)
        BY <1>0
      <3>2. w \in Seq(InPart)
        BY <1>6, UsesConverted, Zenon
      <3>3. QED
        BY <3>1, <3>2
    <2>3. Each(OfPart(names), u) = TextsC(t.text)
      <3>1. Each(OfPart(names), u) = OfPart(names)[TextPart(t.text)]
        BY <1>0, OfPartIsMap, EachOne
      <3>2. QED
        BY <1>0, <3>1 DEF OfPart
    <2>4. Each(OfPart(names), w) = Mapped(CallFun("chat", t), t.calls)
      BY <1>6, UsesConverted
    <2> HIDE DEF u, w
    <2>5. Each(OfPart(names), u \o w) = Each(OfPart(names), u) \o Each(OfPart(names), w)
      BY <2>2, OfPartIsMap, EachConcat
    <2>6. u \o w \in Seq(InPart)
      BY <2>2, ConcatProperties
    <2>7. c = Each(OfPart(names), u \o w)
      BY <2>1, <2>6, ContentIsEach
    <2>8. QED
      BY <1>6, <2>3, <2>4, <2>5, <2>7
  <1>7. CASE t.kind = "result" /\ t.blocks
    <2>1. m.content.parts = <<ResultPart(t)>>
      BY <1>7 DEF ChatMessage, Message, Parts
    <2>2. /\ ResultPart(t) \in InPart
          /\ openAIContentPartToCommandCode(ResultPart(t), names)
                = <<ResultC(t.id, Named(t.id, names, "unknown"), t.text, t.error)>>
      BY <1>7, PartConversion
    <2>3. QED
      BY <1>7, <2>1, <2>2, OnePartContent
  <1>8. QED
    BY <1>3, <1>4, <1>5, <1>6, <1>7
-----------------------------------------------------------------------------
(* Messages for the upstream. *)

\* Roles, messages for the upstream, and parts with a role.
Roles == {"system", "user", "assistant", "tool"}
Out == [role : Roles, content : Seq(OutPart)]
TaggedPart == [role : Roles, part : OutPart]

\* What TypeOK asks of a message.
Good(m) == /\ m \in Out
           /\ m.content # <<>>
           /\ commandCodeContentHasType(m.content, "tool-result") => m.role = "tool"

\* The parts of a message with its role.
TagOf == [m \in Out |-> Tagged(m.role, m.content)]

\* What is sent of a turn; `user' is the role of what the user says.
SentBy(api, t, names, user) == Tagged(SentRole(t, user), SentParts(api, t, names))

\* Parts with a role.
LEMMA TaggedProperties ==
    ASSUME NEW role \in Roles, NEW ps \in Seq(OutPart)
    PROVE  /\ IsFun([p \in OutPart |-> [role |-> role, part |-> p]], OutPart, TaggedPart)
           /\ Tagged(role, ps) = Mapped([p \in OutPart |-> [role |-> role, part |-> p]], ps)
           /\ Tagged(role, ps) \in Seq(TaggedPart)
           /\ Tagged(role, <<>>) = <<>>
  <1> DEFINE g == [p \in OutPart |-> [role |-> role, part |-> p]]
  <1>1. IsFun(g, OutPart, TaggedPart)
    BY DEF IsFun, TaggedPart
  <1>2. Tagged(role, ps) = Mapped(g, ps)
    <2>1. DOMAIN ps = 1..Len(ps) /\ \A i \in 1..Len(ps) : ps[i] \in OutPart
      BY LenProperties, ElementOfSeq
    <2>2. QED
      BY <2>1 DEF Tagged, Mapped
  <1>3. Tagged(role, <<>>) = <<>>
    BY DEF Tagged
  <1> HIDE DEF g
  <1>4. Mapped(g, ps) \in Seq(TaggedPart)
    BY <1>1, MappedConcat
  <1>5. QED
    BY <1>1, <1>2, <1>3, <1>4 DEF g

\* Two sequences of parts with the same role.
LEMMA TaggedConcat ==
    ASSUME NEW role \in Roles, NEW ps \in Seq(OutPart), NEW qs \in Seq(OutPart)
    PROVE  Tagged(role, ps \o qs) = Tagged(role, ps) \o Tagged(role, qs)
  <1> DEFINE g == [p \in OutPart |-> [role |-> role, part |-> p]]
  <1>1. /\ ps \o qs \in Seq(OutPart) /\ IsFun(g, OutPart, TaggedPart)
        /\ Tagged(role, ps) = Mapped(g, ps) /\ Tagged(role, qs) = Mapped(g, qs)
    BY TaggedProperties, ConcatProperties
  <1>2. Tagged(role, ps \o qs) = Mapped(g, ps \o qs)
    BY <1>1, TaggedProperties
  <1> HIDE DEF g
  <1>3. Mapped(g, ps \o qs) = Mapped(g, ps) \o Mapped(g, qs)
    BY <1>1, MappedConcat
  <1>4. QED
    BY <1>1, <1>2, <1>3

\* The parts of each message.
LEMMA TagIsMap == IsMap(TagOf, Out, TaggedPart)
  <1>1. \A m \in Out : m.role \in Roles /\ m.content \in Seq(OutPart)
    BY DEF Out
  <1>2. \A m \in Out : Tagged(m.role, m.content) \in Seq(TaggedPart)
    BY <1>1, TaggedProperties
  <1>3. QED
    BY <1>2 DEF IsMap, TagOf

\* A message is sent if it has parts; its parts are what is sent of it.
LEMMA SaidParts ==
    ASSUME NEW role \in Roles, NEW ps \in Seq(OutPart),
           commandCodeContentHasType(ps, "tool-result") => role = "tool"
    PROVE  /\ NonEmpty(CommandCodeMessage(role, ps)) \in Seq(Out)
           /\ \A m \in ToSet(NonEmpty(CommandCodeMessage(role, ps))) : Good(m)
           /\ Each(TagOf, NonEmpty(CommandCodeMessage(role, ps))) = Tagged(role, ps)
  <1> DEFINE m == CommandCodeMessage(role, ps)
  <1>1. m \in Out /\ m.role = role /\ m.content = ps
    BY DEF CommandCodeMessage, Out
  <1> HIDE DEF m
  <1>2. CASE ps = <<>>
    <2>1. NonEmpty(m) = <<>>
      BY <1>1, <1>2 DEF NonEmpty
    <2>2. Each(TagOf, <<>>) = <<>> /\ Tagged(role, <<>>) = <<>>
      BY EachEmpty, TaggedProperties
    <2>3. ToSet(<<>>) = {} /\ <<>> \in Seq(Out)
      BY EmptySeq DEF ToSet
    <2>4. QED
      BY <1>2, <2>1, <2>2, <2>3 DEF m
  <1>3. CASE ps # <<>>
    <2>1. NonEmpty(m) = <<m>>
      BY <1>1, <1>3 DEF NonEmpty
    <2>2. <<m>> \in Seq(Out) /\ ToSet(<<m>>) = {m}
      BY <1>1 DEF ToSet
    <2>3. Each(TagOf, <<m>>) = TagOf[m]
      BY <1>1, TagIsMap, EachOne
    <2>4. TagOf[m] = Tagged(role, ps)
      BY <1>1 DEF TagOf
    <2>5. Good(m)
      BY <1>1, <1>3 DEF Good
    <2>6. QED
      BY <2>1, <2>2, <2>3, <2>4, <2>5 DEF m
  <1>4. QED
    BY <1>2, <1>3

\* The messages of a request, each with what is sent of it.
LEMMA FlatOfMessages ==
    ASSUME NEW ss \in Seq(Seq(Out)), \A i \in DOMAIN ss : \A m \in ToSet(ss[i]) : Good(m),
           NEW request, request.messages = FlattenSeq(ss)
    PROVE  /\ Flat(request) = FlattenSeq([i \in DOMAIN ss |-> Each(TagOf, ss[i])])
           /\ \A m \in ToSet(request.messages) : Good(m)
  <1> DEFINE ms == request.messages
  <1>1. ms \in Seq(Out)
    BY EmptySeq, FlattenProperties
  <1> HIDE DEF ms
  <1>2. Flat(request) = Each(TagOf, ms)
    <2>1. DOMAIN ms = 1..Len(ms) /\ \A i \in 1..Len(ms) : ms[i] \in Out
      BY <1>1, LenProperties, ElementOfSeq
    <2>2. \A i \in DOMAIN ms : TagOf[ms[i]] = [j \in DOMAIN ms[i].content |->
                                    [role |-> ms[i].role, part |-> ms[i].content[j]]]
      BY <2>1 DEF TagOf, Tagged
    <2>3. [i \in DOMAIN ms |-> TagOf[ms[i]]]
             = [i \in DOMAIN ms |-> [j \in DOMAIN ms[i].content |->
                                    [role |-> ms[i].role, part |-> ms[i].content[j]]]]
      BY <2>2
    <2>4. QED
      BY <2>3, Zenon DEF Flat, Each, ms
  <1>3. Each(TagOf, FlattenSeq(ss)) = FlattenSeq([i \in DOMAIN ss |-> Each(TagOf, ss[i])])
    BY TagIsMap, EachFlatten
  <1>4. ToSet(ms) = UNION {ToSet(ss[i]) : i \in DOMAIN ss}
    BY ElementsOfFlatten DEF ms
  <1>5. ms = FlattenSeq(ss)
    BY DEF ms
  <1>6. \A m \in ToSet(ms) : Good(m)
    BY <1>4
  <1>7. QED
    BY <1>2, <1>3, <1>5, <1>6 DEF ms
-----------------------------------------------------------------------------
(* Chat Completions. *)

\* A turn's message, converted.
LEMMA ChatTurn ==
    ASSUME NEW t \in Turns, NEW names
    PROVE  /\ ChatMessage(t).role = "system" <=> t.kind = "system"
           /\ t.kind # "system" =>
                 openaiMessageToCommandCode(ChatMessage(t), names)
                    = CommandCodeMessage(SentRole(t, "user"), SentParts("chat", t, names))
  <1> USE TurnFields
  <1> DEFINE m == ChatMessage(t)
             c == openAIContentToCommandCode(m.content, names)
             calls == [i \in DOMAIN m.calls |-> CallC(m.calls[i].id, TryParseJSON(m.calls[i].arguments))]
  <1>0. "chat" \in APIs /\ SentParts("chat", t, names) \in Seq(OutPart)
    BY SentTypes DEF APIs
  <1>00. /\ t.kind = "answer" /\ ~t.blocks => c = TextsC(t.text)
         /\ t.kind = "answer" /\ t.blocks =>
               c = TextsC(t.text) \o Mapped(CallFun("chat", t), t.calls)
    <2> HIDE DEF calls
    <2>1. t \in Turns /\ c = openAIContentToCommandCode(ChatMessage(t).content, names)
      OBVIOUS
    <2> HIDE DEF c, m
    <2>2. QED
      BY ONLY <2>1, ChatContent
  <1>1. m.role # "tool" =>
           openaiMessageToCommandCode(m, names) = CommandCodeMessage(RoleOf(m.role, c), c \o calls)
    BY DEF openaiMessageToCommandCode
  <1>2. CASE t.kind = "system"
    BY <1>2 DEF ChatMessage, Message
  <1>3. ASSUME m.calls = <<>>, m.role # "tool", c = SentParts("chat", t, names)
        PROVE  openaiMessageToCommandCode(m, names)
                  = CommandCodeMessage(IF t.kind = "result" THEN "tool" ELSE m.role, SentParts("chat", t, names))
    <2>1. calls = <<>>
      BY <1>3
    <2>2. c \o calls = c
      BY <1>0, <1>3, <2>1, ConcatEmptySeq
    <2>3. commandCodeContentHasType(c, "tool-result") <=> t.kind = "result"
      BY <1>0, <1>3, HasResult
    <2>4. QED
      BY <1>1, <1>3, <2>2, <2>3 DEF RoleOf
  <1>4. CASE t.kind = "user"
    <2>1. m.calls = <<>> /\ m.role = "user"
      BY <1>4 DEF ChatMessage, Message
    <2>2. c = SentParts("chat", t, names)
      BY <1>4, ChatContent
    <2>3. SentRole(t, "user") = "user"
      BY <1>4 DEF SentRole
    <2>4. QED
      BY <1>3, <1>4, <2>1, <2>2, <2>3
  <1>5. CASE t.kind = "answer"
    <2>1. m.role = "assistant" /\ SentRole(t, "user") = "assistant"
      BY <1>5 DEF ChatMessage, Message, SentRole
    <2>2. SentParts("chat", t, names) = TextsC(t.text) \o Mapped(CallFun("chat", t), t.calls)
      <3>1. TextsC(t.text) \in Seq(OutPart)
        BY OutParts
      <3>2. <<>> \o TextsC(t.text) = TextsC(t.text)
        BY <3>1, ConcatEmptySeq
      <3>3. SentParts("chat", t, names) = (<<>> \o TextsC(t.text)) \o
               [i \in DOMAIN t.calls |-> CallC(t.calls[i].id, InputSent("chat", t, t.calls[i]))]
        BY <1>5 DEF SentParts
      <3>4. [i \in DOMAIN t.calls |-> CallC(t.calls[i].id, InputSent("chat", t, t.calls[i]))]
               = Mapped(CallFun("chat", t), t.calls)
        BY <1>0, <1>5, CallsMapped
      <3>5. QED
        BY <3>2, <3>3, <3>4
    <2>3. CASE t.blocks
      <3>1. m.calls = <<>>
        BY <1>5, <2>3 DEF ChatMessage, Message
      <3>2. c = SentParts("chat", t, names)
        BY <1>00, <1>5, <2>2, <2>3
      <3>3. QED
        BY <1>3, <1>5, <2>1, <3>1, <3>2
    <2>4. CASE ~t.blocks
      <3>1. c = TextsC(t.text)
        BY <1>00, <1>5, <2>4
      <3>2. calls = Mapped(CallFun("chat", t), t.calls)
        <4> DEFINE s == t.calls
        <4>1. m.calls = [i \in DOMAIN s |-> [id |-> s[i].id, arguments |-> ChatInput(t, s[i])]]
          BY <1>5, <2>4 DEF ChatMessage, Message
        <4>2. calls = [i \in DOMAIN s |-> CallC(s[i].id, TryParseJSON(ChatInput(t, s[i])))]
          <5> HIDE DEF s, m
          <5>1. QED
            BY <4>1
        <4>3. \A i \in DOMAIN s : InputSent("chat", t, s[i]) = TryParseJSON(ChatInput(t, s[i]))
          BY <2>4 DEF InputSent
        <4>4. [i \in DOMAIN s |-> CallC(s[i].id, InputSent("chat", t, s[i]))]
                 = Mapped(CallFun("chat", t), s)
          BY <1>0, <1>5, CallsMapped
        <4> HIDE DEF s, calls, m
        <4>5. [i \in DOMAIN s |-> CallC(s[i].id, InputSent("chat", t, s[i]))]
                 = [i \in DOMAIN s |-> CallC(s[i].id, TryParseJSON(ChatInput(t, s[i])))]
          BY <4>3
        <4>6. QED
          BY <4>2, <4>4, <4>5 DEF s
      <3>3. ~commandCodeContentHasType(TextsC(t.text), "tool-result")
        BY DEF commandCodeContentHasType, TextsC, TextC
      <3>4. RoleOf(m.role, c) = "assistant"
        BY <2>1, <3>1, <3>3 DEF RoleOf
      <3>5. QED
        BY <1>1, <1>5, <2>1, <2>2, <3>1, <3>2, <3>4
    <2>5. QED
      BY <2>3, <2>4
  <1>6. CASE t.kind = "result"
    <2>1. SentRole(t, "user") = "tool" /\ Otherwise("chat") = "unknown"
      BY <1>6 DEF SentRole, Otherwise
    <2>2. SentParts("chat", t, names)
             = <<ResultC(t.id, Named(t.id, names, "unknown"), t.text, ErrorSent("chat", t))>>
      BY <1>6, <2>1 DEF SentParts
    <2>3. CASE t.blocks
      <3>1. m.calls = <<>> /\ m.role = "user"
        BY <1>6, <2>3 DEF ChatMessage, Message
      <3>2. ErrorSent("chat", t) = t.error
        BY <2>3 DEF ErrorSent
      <3>3. c = SentParts("chat", t, names)
        BY <1>6, <2>2, <2>3, <3>2, ChatContent
      <3>4. QED
        BY <1>3, <1>6, <2>1, <3>1, <3>3
    <2>4. CASE ~t.blocks
      <3>1. m.role = "tool" /\ m.id = t.id /\ m.content = String(t.text)
        BY <1>6, <2>4 DEF ChatMessage, Message
      <3>2. contentToString(m.content) = t.text
        <4>1. [i \in DOMAIN String(t.text).parts |-> String(t.text).parts[i].text] = <<t.text>>
          BY DEF String
        <4>2. FlattenSeq(<<t.text>>) = t.text
          BY FlattenOne DEF Text
        <4>3. QED
          BY <3>1, <4>1, <4>2, Zenon DEF contentToString
      <3>3. ErrorSent("chat", t) = (t.text # <<>> /\ Head(t.text) = ErrorPrefix)
        BY <2>4 DEF ErrorSent, Prefixed
      <3>4. openaiMessageToCommandCode(m, names) = openaiToolMessageToCommandCode(m, names)
        BY <3>1 DEF openaiMessageToCommandCode
      <3>5. openaiToolMessageToCommandCode(m, names)
               = CommandCodeMessage("tool", <<ResultC(m.id, Named(m.id, names, "unknown"),
                     contentToString(m.content),
                     contentToString(m.content) # <<>> /\ Head(contentToString(m.content)) = ErrorPrefix)>>)
        BY DEF openaiToolMessageToCommandCode
      <3>6. QED
        BY <1>6, <2>1, <2>2, <3>1, <3>2, <3>3, <3>4, <3>5
    <2>5. QED
      BY <2>3, <2>4
  <1>7. QED
    BY <1>2, <1>4, <1>5, <1>6

\* The calls that an API looks for, in a history.
CalledIn(api, h) ==
    {id \in ToolIDs : \E i \in DOMAIN h :
        /\ h[i].kind = "answer"
        /\ api = "messages" \/ ~h[i].blocks
        /\ \E j \in DOMAIN h[i].calls : h[i].calls[j].id = id}

\* The text of a string, and of a system turn's content.
LEMMA TextOfString ==
    ASSUME NEW x \in Text
    PROVE  \A content : content.parts = <<TextPart(x)>> => contentToString(content) = x
  <1> SUFFICES ASSUME NEW content, content.parts = <<TextPart(x)>>
               PROVE  contentToString(content) = x
    OBVIOUS
  <1>1. [i \in DOMAIN content.parts |-> content.parts[i].text] = <<x>>
    BY DEF TextPart
  <1>2. FlattenSeq(<<x>>) = x
    BY FlattenOne DEF Text
  <1>3. QED
    BY <1>1, <1>2, Zenon DEF contentToString

\* What each turn's message becomes.
ChatSaid(t, names) ==
    IF t.kind = "system" THEN <<>>
    ELSE NonEmpty(CommandCodeMessage(SentRole(t, "user"), SentParts("chat", t, names)))

\* The parts of what becomes of a turn are what is sent of it.
LEMMA ChatSaidParts ==
    ASSUME NEW t \in Turns, NEW names
    PROVE  /\ ChatSaid(t, names) \in Seq(Out)
           /\ \A m \in ToSet(ChatSaid(t, names)) : Good(m)
           /\ Each(TagOf, ChatSaid(t, names)) = SentBy("chat", t, names, "user")
  <1>0. "chat" \in APIs
    BY DEF APIs
  <1>1. SentRole(t, "user") \in Roles
    BY TurnFields DEF SentRole, Roles
  <1>2. CASE t.kind = "system"
    <2>1. ChatSaid(t, names) = <<>> /\ SentParts("chat", t, names) = <<>>
      BY <1>2 DEF ChatSaid, SentParts
    <2>2. Each(TagOf, <<>>) = <<>> /\ Tagged(SentRole(t, "user"), <<>>) = <<>>
      BY <1>1, EachEmpty, EmptySeq, TaggedProperties
    <2>3. ToSet(<<>>) = {} /\ <<>> \in Seq(Out)
      BY EmptySeq DEF ToSet
    <2>4. QED
      BY <2>1, <2>2, <2>3 DEF SentBy
  <1>3. CASE t.kind # "system"
    <2>1. SentParts("chat", t, names) \in Seq(OutPart)
      BY <1>0, SentTypes
    <2>2. commandCodeContentHasType(SentParts("chat", t, names), "tool-result")
             => SentRole(t, "user") = "tool"
      BY <1>0, HasResult DEF SentRole
    <2>3. QED
      BY <1>1, <1>3, <2>1, <2>2, SaidParts DEF ChatSaid, SentBy
  <1>4. QED
    BY <1>2, <1>3

\* The system text of a turn.
SystemOf(t) == IF t.kind = "system" /\ t.text # <<>> THEN <<t.text>> ELSE <<>>

\* A system turn's message.
LEMMA SystemContent ==
    ASSUME NEW t \in Turns, t.kind = "system"
    PROVE  /\ ChatMessage(t) = Message("system", Content(t))
           /\ contentToString(ChatMessage(t).content) = t.text
           /\ ChatMessage(t).content.blocks <=> t.blocks
           /\ contentToString(MessagesMessage(t).content) = t.text
           /\ MessagesMessage(t) = Message("system", Content(t))
  <1>1. ChatMessage(t) = Message("system", Content(t)) /\ MessagesMessage(t) = Message("system", Content(t))
    BY DEF ChatMessage, MessagesMessage
  <1>2. Message("system", Content(t)).content = Content(t)
    BY DEF Message
  <1>3. Content(t).parts = <<TextPart(t.text)>> /\ (Content(t).blocks <=> t.blocks)
    BY TurnFields DEF Content, String, Parts, TextPart
  <1>4. contentToString(Content(t)) = t.text
    BY <1>3, TurnFields, TextOfString
  <1>5. QED
    BY <1>1, <1>2, <1>3, <1>4

\* The IDs of an answer's calls.
LEMMA CallIDTypes ==
    ASSUME NEW t \in Turns, t.kind = "answer", NEW j \in DOMAIN t.calls
    PROVE  t.calls[j] \in Tool /\ t.calls[j].id \in ToolIDs
  <1> DEFINE s == t.calls
  <1>1. s \in Seq(Tool)
    BY TurnFields
  <1>2. j \in DOMAIN s
    OBVIOUS
  <1> HIDE DEF s
  <1>3. s[j] \in Tool
    BY <1>1, <1>2, LenProperties, ElementOfSeq
  <1>4. s[j].id \in ToolIDs
    BY <1>3 DEF Tool
  <1>5. QED
    BY <1>3, <1>4 DEF s

\* The calls of a turn's message.
LEMMA ChatCalls ==
    ASSUME NEW t \in Turns, NEW id
    PROVE  (\E j \in DOMAIN ChatMessage(t).calls : ChatMessage(t).calls[j].id = id)
              <=> /\ t.kind = "answer" /\ ~t.blocks
                  /\ \E j \in DOMAIN t.calls : t.calls[j].id = id
  <1>1. CASE t.kind = "answer" /\ ~t.blocks
    <2>1. ChatMessage(t).calls = [i \in DOMAIN t.calls |->
                      [id |-> t.calls[i].id, arguments |-> ChatInput(t, t.calls[i])]]
      BY <1>1 DEF ChatMessage, Message
    <2>2. QED
      BY <1>1, <2>1
  <1>2. CASE ~(t.kind = "answer" /\ ~t.blocks)
    <2>1. ChatMessage(t).calls = <<>>
      BY <1>2, TurnFields DEF ChatMessage, Message
    <2>2. QED
      BY <1>2, <2>1
  <1>3. QED
    BY <1>1, <1>2

\* The map of names has the calls in tool_calls.
LEMMA ChatNames ==
    ASSUME NEW h \in Seq(Turns)
    PROVE  buildOpenAIToolNameMap([i \in DOMAIN h |-> ChatMessage(h[i])]) = CalledIn("chat", h)
  <1> DEFINE ms == [i \in DOMAIN h |-> ChatMessage(h[i])]
             names == buildOpenAIToolNameMap(ms)
  <1>1. \A i \in DOMAIN h : h[i] \in Turns
    BY LenProperties, ElementOfSeq
  <1>2. DOMAIN ms = DOMAIN h /\ \A i \in DOMAIN h : ms[i] = ChatMessage(h[i])
    OBVIOUS
  <1> HIDE DEF ms
  <1>3. \A id : id \in names <=> \E i \in DOMAIN ms : \E j \in DOMAIN ms[i].calls : ms[i].calls[j].id = id
    BY DEF buildOpenAIToolNameMap
  <1> HIDE DEF names
  <1>4. \A id : id \in names <=> \E i \in DOMAIN h :
           \E j \in DOMAIN ChatMessage(h[i]).calls : ChatMessage(h[i]).calls[j].id = id
    BY <1>2, <1>3
  <1>5. \A id : id \in names <=> \E i \in DOMAIN h :
           /\ h[i].kind = "answer" /\ ~h[i].blocks
           /\ \E j \in DOMAIN h[i].calls : h[i].calls[j].id = id
    <2>1. \A i \in DOMAIN h : \A id :
              (\E j \in DOMAIN ChatMessage(h[i]).calls : ChatMessage(h[i]).calls[j].id = id)
                 <=> /\ h[i].kind = "answer" /\ ~h[i].blocks
                     /\ \E j \in DOMAIN h[i].calls : h[i].calls[j].id = id
      BY <1>1, ChatCalls
    <2> DEFINE C(i, id) == \E j \in DOMAIN ChatMessage(h[i]).calls : ChatMessage(h[i]).calls[j].id = id
               A(i, id) == /\ h[i].kind = "answer" /\ ~h[i].blocks
                           /\ \E j \in DOMAIN h[i].calls : h[i].calls[j].id = id
    <2>2. \A i \in DOMAIN h : \A id : C(i, id) <=> A(i, id)
      BY <2>1
    <2>3. \A id : id \in names <=> \E i \in DOMAIN h : C(i, id)
      BY <1>4
    <2> HIDE DEF C, A
    <2>4. \A id : id \in names <=> \E i \in DOMAIN h : A(i, id)
      BY <2>2, <2>3
    <2>5. QED
      BY <2>4 DEF A
  <1>6. \A i \in DOMAIN h : h[i].kind = "answer" => \A j \in DOMAIN h[i].calls : h[i].calls[j].id \in ToolIDs
    BY <1>1, CallIDTypes
  <1>7. \A id : id \in names <=> id \in CalledIn("chat", h)
    BY <1>5, <1>6 DEF CalledIn
  <1>8. QED
    BY <1>7 DEF names, ms

\* A request of Chat Completions.
LEMMA ChatSent ==
    ASSUME NEW h \in Seq(Turns), NEW request,
           request = OpenAIToCommandCode([i \in DOMAIN h |-> ChatMessage(h[i])])
    PROVE  /\ Flat(request) =
                 FlattenSeq([i \in DOMAIN h |-> SentBy("chat", h[i], CalledIn("chat", h), "user")])
           /\ \A m \in ToSet(request.messages) : Good(m)
           /\ request.system =
                 FlattenSeq([i \in DOMAIN h |-> IF h[i].blocks THEN <<>> ELSE SystemOf(h[i])])
  <1> DEFINE ms == [i \in DOMAIN h |-> ChatMessage(h[i])]
             names == buildOpenAIToolNameMap(ms)
             Said(m) == IF m.role = "system" THEN <<>>
                        ELSE NonEmpty(openaiMessageToCommandCode(m, names))
             Systems(m) == IF m.role = "system" /\ ~m.content.blocks
                           THEN SystemPart(contentToString(m.content)) ELSE <<>>
             ss == [i \in DOMAIN h |-> ChatSaid(h[i], names)]
  <1>1. /\ DOMAIN h = 1..Len(h) /\ Len(h) \in Nat /\ \A i \in DOMAIN h : h[i] \in Turns
        /\ DOMAIN ms = DOMAIN h /\ \A i \in DOMAIN h : ms[i] = ChatMessage(h[i])
    BY LenProperties, ElementOfSeq
  <1>2. names = CalledIn("chat", h)
    BY ChatNames
  <1>3. /\ request.messages = FlattenSeq([i \in DOMAIN ms |-> Said(ms[i])])
        /\ request.system = FlattenSeq([i \in DOMAIN ms |-> Systems(ms[i])])
    BY DEF OpenAIToCommandCode
  <1> HIDE DEF names
  <1>4. \A i \in DOMAIN h : Said(ms[i]) = ChatSaid(h[i], names)
    BY <1>1, ChatTurn DEF ChatSaid
  <1>5. [i \in DOMAIN ms |-> Said(ms[i])] = ss
    <2> HIDE DEF ms, Said
    <2>1. QED
      BY <1>1, <1>4
  <1>6. \A i \in DOMAIN h :
           /\ ss[i] \in Seq(Out)
           /\ \A m \in ToSet(ss[i]) : Good(m)
           /\ Each(TagOf, ss[i]) = SentBy("chat", h[i], names, "user")
    BY <1>1, ChatSaidParts
  <1>7. DOMAIN ss = DOMAIN h /\ ss \in Seq(Seq(Out))
    BY <1>1, <1>6
  <1> HIDE DEF ss
  <1>8. /\ Flat(request) = FlattenSeq([i \in DOMAIN ss |-> Each(TagOf, ss[i])])
        /\ \A m \in ToSet(request.messages) : Good(m)
    <2>1. request.messages = FlattenSeq(ss)
      BY <1>3, <1>5
    <2>2. \A i \in DOMAIN ss : \A m \in ToSet(ss[i]) : Good(m)
      BY <1>6, <1>7
    <2>3. QED
      BY ONLY <1>7, <2>1, <2>2, FlatOfMessages
  <1>9. [i \in DOMAIN ss |-> Each(TagOf, ss[i])]
           = [i \in DOMAIN h |-> SentBy("chat", h[i], CalledIn("chat", h), "user")]
    BY <1>2, <1>6, <1>7
  <1>10. \A i \in DOMAIN h : Systems(ms[i]) = IF h[i].blocks THEN <<>> ELSE SystemOf(h[i])
    <2> SUFFICES ASSUME NEW i \in DOMAIN h
                 PROVE  Systems(ms[i]) = IF h[i].blocks THEN <<>> ELSE SystemOf(h[i])
      OBVIOUS
    <2> DEFINE t == h[i]
    <2>1. t \in Turns /\ ms[i] = ChatMessage(t)
      BY <1>1
    <2> HIDE DEF t, ms
    <2>2. ms[i].role = "system" <=> t.kind = "system"
      BY <2>1, ChatTurn
    <2>3. CASE t.kind = "system"
      <3>1. contentToString(ms[i].content) = t.text /\ (ms[i].content.blocks <=> t.blocks)
        BY <2>1, <2>3, SystemContent
      <3>4. QED
        BY <2>2, <2>3, <3>1 DEF SystemPart, SystemOf, t
    <2>4. CASE t.kind # "system"
      BY <2>2, <2>4 DEF SystemOf, t
    <2>5. QED
      BY <2>3, <2>4
  <1>11. [i \in DOMAIN ms |-> Systems(ms[i])]
            = [i \in DOMAIN h |-> IF h[i].blocks THEN <<>> ELSE SystemOf(h[i])]
    <2> HIDE DEF ms, Systems
    <2>1. QED
      BY <1>1, <1>10
  <1>12. QED
    BY <1>3, <1>8, <1>9, <1>11
-----------------------------------------------------------------------------
(* Responses. *)

\* The history without its opening.
LEMMA RestProperties ==
    ASSUME NEW h \in Seq(Turns)
    PROVE  /\ Len(Opening(h)) \in {0, 1} /\ Rest(h) \in Seq(Turns)
           /\ Len(h) = Len(Rest(h)) + Len(Opening(h))
           /\ \A i \in 1..Len(Rest(h)) : h[i + Len(Opening(h))] = Rest(h)[i]
           /\ Len(Opening(h)) = 1 => Opening(h) = <<h[1]>> /\ h[1].kind = "system"
           /\ Len(Opening(h)) = 0 => Opening(h) = <<>> /\ (h # <<>> => h[1].kind # "system")
  <1> DEFINE k == Len(Opening(h))
             r == Rest(h)
  <1> SUFFICES /\ k \in {0, 1} /\ r \in Seq(Turns) /\ Len(h) = Len(r) + k
               /\ \A i \in 1..Len(r) : h[i + k] = r[i]
               /\ k = 1 => Opening(h) = <<h[1]>> /\ h[1].kind = "system"
               /\ k = 0 => Opening(h) = <<>> /\ (h # <<>> => h[1].kind # "system")
    OBVIOUS
  <1>0. Len(h) \in Nat /\ (h # <<>> => Len(h) >= 1 /\ Head(h) = h[1])
    BY EmptySeq, HeadTailProperties
  <1>1. CASE h # <<>> /\ Head(h).kind = "system"
    <2>1. Opening(h) = <<h[1]>> /\ k = 1
      BY <1>0, <1>1 DEF Opening
    <2>2. r = SubSeq(h, 2, Len(h))
      BY <2>1 DEF Rest
    <2>3. /\ r \in Seq(Turns) /\ Len(r) = Len(h) - 1
          /\ \A i \in 1..Len(r) : r[i] = h[i + 1]
      <3> DEFINE n == Len(h)
      <3>1. n \in Nat /\ n >= 1 /\ DOMAIN h = 1..n /\ \A i \in 1..n : h[i] \in Turns
        BY <1>0, <1>1, LenProperties, ElementOfSeq
      <3>2. /\ SubSeq(h, 2, n) \in Seq(Turns) /\ Len(SubSeq(h, 2, n)) = n - 1
            /\ \A i \in 1..(n - 1) : SubSeq(h, 2, n)[i] = h[i + 1]
        <4>1. \A i \in 2..n : h[i] \in Turns
          BY <3>1
        <4>2. /\ SubSeq(h, 2, n) \in Seq(Turns)
              /\ Len(SubSeq(h, 2, n)) = IF 2 <= n THEN n - 2 + 1 ELSE 0
              /\ \A i \in 1..(n - 2 + 1) : SubSeq(h, 2, n)[i] = h[2 + i - 1]
          <5> HIDE DEF n
          <5>1. 2 \in Int /\ n \in Int
            BY <3>1
          <5>2. QED
            BY <4>1, <5>1, SubSeqProperties
        <4>3. n - 2 + 1 = n - 1 /\ \A i \in 1..(n - 1) : 2 + i - 1 = i + 1
          BY <3>1
        <4>4. (IF 2 <= n THEN n - 2 + 1 ELSE 0) = n - 1
          BY <3>1
        <4> HIDE DEF n
        <4>5. QED
          BY <4>2, <4>3, <4>4
      <3> HIDE DEF n
      <3>4. r \in Seq(Turns) /\ Len(r) = n - 1 /\ \A i \in 1..(n - 1) : r[i] = h[i + 1]
        BY <2>2, <3>2 DEF n
      <3>5. QED
        BY <3>4 DEF n
    <2>4. QED
      BY <1>0, <1>1, <2>1, <2>3
  <1>2. CASE ~(h # <<>> /\ Head(h).kind = "system")
    <2>1. Opening(h) = <<>> /\ k = 0
      BY <1>2 DEF Opening
    <2>2. r = SubSeq(h, 1, Len(h))
      BY <2>1 DEF Rest
    <2>3. r \in Seq(Turns) /\ Len(r) = Len(h) /\ \A i \in 1..Len(r) : r[i] = h[i]
      BY <1>0, <2>2
    <2>4. \A i \in 1..Len(r) : i + k = i
      BY <2>1
    <2>5. QED
      BY <1>0, <1>2, <2>1, <2>3, <2>4
  <1>3. QED
    BY <1>1, <1>2

\* What becomes of the rest is what becomes of the history, if nothing becomes
\* of the opening.
LEMMA RestFlattened ==
    ASSUME NEW S, NEW h \in Seq(Turns), NEW ss \in Seq(Seq(S)), NEW tt \in Seq(Seq(S)),
           Len(ss) = Len(h), Len(tt) = Len(Rest(h)),
           \A i \in 1..Len(Rest(h)) : ss[i + Len(Opening(h))] = tt[i],
           Len(Opening(h)) = 1 => ss[1] = <<>>
    PROVE  FlattenSeq(ss) = FlattenSeq(tt)
  <1> DEFINE k == Len(Opening(h))
             r == Rest(h)
  <1>1. k \in {0, 1} /\ Len(h) = Len(r) + k /\ Len(r) \in Nat
    BY RestProperties, LenProperties
  <1>2. CASE k = 1
    <2>1. Len(ss) = Len(tt) + 1 /\ ss[1] = <<>> /\ \A i \in 1..Len(tt) : ss[i + 1] = tt[i]
      BY <1>1, <1>2
    <2>2. QED
      BY <2>1, FlattenTail
  <1>3. CASE k = 0
    <2>1. Len(ss) = Len(tt) /\ \A i \in 1..Len(tt) : ss[i] = tt[i]
      <3>1. Len(ss) = Len(tt) /\ \A i \in 1..Len(tt) : i + k = i /\ ss[i + k] = tt[i]
        BY <1>1, <1>3
      <3>2. QED
        BY <3>1
    <2>2. ss = tt
      <3>1. ss = [i \in 1..Len(ss) |-> ss[i]] /\ tt = [i \in 1..Len(tt) |-> tt[i]]
        BY LenProperties
      <3>2. QED
        BY <2>1, <3>1
    <2>3. QED
      BY <2>2
  <1>4. QED
    BY <1>1, <1>2, <1>3

\* Contents, and items.
Contents == [blocks : BOOLEAN, parts : Seq(InPart)]
CallItem == [c \in Tool |-> Item("function_call", "", NoContent, c.id, Arguments(c))]
MessageItem == [p \in Roles \X Contents |-> Item("message", p[1], p[2], "", "")]
OutputItem  == [p \in Text \X ToolIDs |-> Item("function_call_output", "", String(p[1]), p[2], "")]
Items == {MessageItem[p] : p \in Roles \X Contents} \cup {CallItem[c] : c \in Tool}
         \cup {OutputItem[p] : p \in Text \X ToolIDs}

\* What becomes of an item.
OfItem(names) == [item \in Items |-> NonEmpty(responseInputItemToCommandCode(item, names))]
Sound == {m \in Out : Good(m)}

\* Content whose parts are known is converted to known parts.
LEMMA ContentTypes ==
    ASSUME NEW content \in Contents, NEW names
    PROVE  openAIContentToCommandCode(content, names) \in Seq(OutPart)
  <1>1. content.parts \in Seq(InPart)
    BY DEF Contents
  <1>2. Each(OfPart(names), content.parts) \in Seq(OutPart)
    <2> DEFINE s == content.parts
    <2>1. s \in Seq(InPart)
      BY <1>1
    <2> HIDE DEF s
    <2>2. ImagePart \in InPart
      BY PartConversion
    <2>3. Each(OfPart(names), s) \in Seq(OutPart)
      BY <2>1, <2>2, OfPartIsMap, EachProperties
    <2>4. QED
      BY <2>3 DEF s
  <1>3. QED
    BY <1>1, <1>2, ContentIsEach

\* The contents of Chat Completions.
LEMMA ChatContents ==
    ASSUME NEW t \in Turns, t.kind # "result"
    PROVE  ChatMessage(t).content \in Contents
  <1> USE TurnFields
  <1>0. <<TextPart(t.text)>> \in Seq(InPart) /\ <<>> \in Seq(InPart) /\ <<ImagePart>> \in Seq(InPart)
    BY PartConversion, EmptySeq
  <1>1. String(t.text) \in Contents /\ NoContent \in Contents
    BY <1>0 DEF String, NoContent, Contents, TextPart
  <1>2. \A s \in Seq(InPart) : Parts(s) \in Contents
    BY DEF Parts, Contents
  <1>3. CASE t.kind = "system"
    BY <1>0, <1>1, <1>2, <1>3 DEF ChatMessage, Message, Content
  <1>4. CASE t.kind = "user"
    <2>1. UserParts(t) \in Seq(InPart)
      BY <1>0, ConcatProperties DEF UserParts
    <2>2. QED
      BY <1>1, <1>2, <1>4, <2>1 DEF ChatMessage, Message
  <1>5. CASE t.kind = "answer" /\ ~t.blocks
    BY <1>1, <1>5 DEF ChatMessage, Message
  <1>6. CASE t.kind = "answer" /\ t.blocks
    <2> DEFINE u == <<TextPart(t.text)>>
               w == [i \in DOMAIN t.calls |-> UsePart(t.calls[i].id, Parsed(ChatInput(t, t.calls[i])))]
    <2>1. w \in Seq(InPart)
      BY <1>6, UsesConverted, Zenon
    <2>2. ChatMessage(t).content = Parts(u \o w)
      BY <1>6 DEF ChatMessage, Message
    <2>3. u \in Seq(InPart)
      BY <1>0
    <2> HIDE DEF u, w
    <2>4. u \o w \in Seq(InPart)
      BY <2>1, <2>3, ConcatProperties
    <2>5. QED
      BY <1>2, <2>2, <2>4
  <1>7. QED
    BY <1>3, <1>4, <1>5, <1>6

\* What becomes of each kind of item.
LEMMA ItemConversion ==
    ASSUME NEW names
    PROVE  /\ \A role \in Roles, content \in Contents :
                 LET c == openAIContentToCommandCode(content, names)
                 IN  /\ Item("message", role, content, "", "") \in Items
                     /\ responseInputItemToCommandCode(Item("message", role, content, "", ""), names)
                           = CommandCodeMessage(RoleOf(role, c), c)
                     /\ c \in Seq(OutPart)
           /\ \A c \in Tool :
                 /\ CallItem[c] \in Items
                 /\ responseInputItemToCommandCode(CallItem[c], names)
                       = CommandCodeMessage("assistant", <<CallC(c.id, TryParseJSON(Arguments(c)))>>)
                 /\ CallC(c.id, TryParseJSON(Arguments(c))) \in OutPart
           /\ \A x \in Text, id \in ToolIDs :
                 /\ Item("function_call_output", "", String(x), id, "") \in Items
                 /\ responseInputItemToCommandCode(
                       Item("function_call_output", "", String(x), id, ""), names)
                       = CommandCodeMessage("tool", <<ResultC(id, Named(id, names, "unknown"), x, FALSE)>>)
                 /\ ResultC(id, Named(id, names, "unknown"), x, FALSE) \in OutPart
  <1>1. ASSUME NEW role \in Roles, NEW content \in Contents
        PROVE  /\ Item("message", role, content, "", "") \in Items
               /\ responseInputItemToCommandCode(Item("message", role, content, "", ""), names)
                     = CommandCodeMessage(RoleOf(role, openAIContentToCommandCode(content, names)),
                                          openAIContentToCommandCode(content, names))
               /\ openAIContentToCommandCode(content, names) \in Seq(OutPart)
    <2>1. Item("message", role, content, "", "") \in Items
      <3>1. <<role, content>> \in Roles \X Contents
        OBVIOUS
      <3>2. MessageItem[<<role, content>>] \in Items
        BY <3>1 DEF Items
      <3>3. QED
        BY <3>1, <3>2 DEF MessageItem
    <2>2. openAIContentToCommandCode(content, names) \in Seq(OutPart)
      BY ContentTypes
    <2>3. QED
      BY <2>1, <2>2 DEF responseInputItemToCommandCode, Item
  <1>2. ASSUME NEW c \in Tool
        PROVE  /\ CallItem[c] \in Items
               /\ responseInputItemToCommandCode(CallItem[c], names)
                     = CommandCodeMessage("assistant", <<CallC(c.id, TryParseJSON(Arguments(c)))>>)
               /\ CallC(c.id, TryParseJSON(Arguments(c))) \in OutPart
    <2>1. CallItem[c] \in Items
      BY DEF Items
    <2>2. responseInputItemToCommandCode(CallItem[c], names)
             = CommandCodeMessage("assistant", <<CallC(c.id, TryParseJSON(Arguments(c)))>>)
      BY DEF responseInputItemToCommandCode, CallItem, Item
    <2>3. c.id \in ToolIDs /\ TryParseJSON(Arguments(c)) \in Sendable
      BY DEF Tool, Arguments, Parsed, TryParseJSON, Sendable
    <2>4. QED
      BY <2>1, <2>2, <2>3, OutParts
  <1>3. ASSUME NEW x \in Text, NEW id \in ToolIDs
        PROVE  /\ Item("function_call_output", "", String(x), id, "") \in Items
               /\ responseInputItemToCommandCode(
                     Item("function_call_output", "", String(x), id, ""), names)
                     = CommandCodeMessage("tool", <<ResultC(id, Named(id, names, "unknown"), x, FALSE)>>)
               /\ ResultC(id, Named(id, names, "unknown"), x, FALSE) \in OutPart
    <2>1. Item("function_call_output", "", String(x), id, "") \in Items
      <3>1. <<x, id>> \in Text \X ToolIDs
        OBVIOUS
      <3>2. OutputItem[<<x, id>>] \in Items
        BY <3>1 DEF Items
      <3>3. QED
        BY <3>1, <3>2 DEF OutputItem
    <2>2. contentToString(String(x)) = x
      <3>1. String(x).parts = <<TextPart(x)>>
        BY DEF String, TextPart
      <3>2. QED
        BY <3>1, TextOfString
    <2>3. responseInputItemToCommandCode(Item("function_call_output", "", String(x), id, ""), names)
             = CommandCodeMessage("tool", <<ResultC(id, Named(id, names, "unknown"), x, FALSE)>>)
      BY <2>2 DEF responseInputItemToCommandCode, Item
    <2>4. QED
      BY <2>1, <2>3, NamedType, OutParts
  <1>4. QED
    BY <1>1, <1>2, <1>3

\* A message with parts is as it should be.
LEMMA SoundMessage ==
    ASSUME NEW role \in Roles, NEW ps \in Seq(OutPart),
           commandCodeContentHasType(ps, "tool-result") => role = "tool"
    PROVE  NonEmpty(CommandCodeMessage(role, ps)) \in Seq(Sound)
  <1> DEFINE m == CommandCodeMessage(role, ps)
  <1>1. m \in Out /\ m.content = ps /\ m.role = role
    BY DEF CommandCodeMessage, Out
  <1> HIDE DEF m
  <1>2. CASE ps = <<>>
    <2>1. NonEmpty(m) = <<>>
      BY <1>1, <1>2 DEF NonEmpty
    <2>2. QED
      BY <2>1, EmptySeq DEF m
  <1>3. CASE ps # <<>>
    <2>1. m \in Sound
      BY <1>1, <1>3 DEF Sound, Good
    <2>2. NonEmpty(m) = <<m>>
      BY <1>1, <1>3 DEF NonEmpty
    <2>3. QED
      BY <2>1, <2>2 DEF m
  <1>4. QED
    BY <1>2, <1>3

\* An item becomes messages as they should be.
LEMMA OfItemIsMap ==
    ASSUME NEW names
    PROVE  IsMap(OfItem(names), Items, Sound)
  <1>2. ASSUME NEW item \in Items
        PROVE  NonEmpty(responseInputItemToCommandCode(item, names)) \in Seq(Sound)
    <2>1. CASE \E role \in Roles, content \in Contents : item = Item("message", role, content, "", "")
      <3>1. PICK role \in Roles, content \in Contents : item = Item("message", role, content, "", "")
        BY <2>1
      <3> DEFINE c == openAIContentToCommandCode(content, names)
      <3>2. responseInputItemToCommandCode(item, names) = CommandCodeMessage(RoleOf(role, c), c)
        BY <3>1, ItemConversion
      <3>3. c \in Seq(OutPart)
        BY ItemConversion
      <3> HIDE DEF c
      <3>4. RoleOf(role, c) \in Roles /\ (commandCodeContentHasType(c, "tool-result") => RoleOf(role, c) = "tool")
        BY DEF RoleOf, Roles
      <3>5. QED
        BY SoundMessage, <3>2, <3>3, <3>4
    <2>2. CASE \E c \in Tool : item = CallItem[c]
      <3>1. PICK c \in Tool : item = CallItem[c]
        BY <2>2
      <3> DEFINE p == CallC(c.id, TryParseJSON(Arguments(c)))
      <3>2. responseInputItemToCommandCode(item, names) = CommandCodeMessage("assistant", <<p>>)
            /\ p \in OutPart
        BY <3>1, ItemConversion
      <3>3. p.type = "tool-call"
        BY DEF CallC
      <3> HIDE DEF p
      <3>4. ~commandCodeContentHasType(<<p>>, "tool-result") /\ <<p>> \in Seq(OutPart) /\ "assistant" \in Roles
        BY <3>2, <3>3 DEF commandCodeContentHasType, Roles
      <3>5. QED
        BY SoundMessage, <3>2, <3>4
    <2>3. CASE \E x \in Text, id \in ToolIDs : item = Item("function_call_output", "", String(x), id, "")
      <3>1. PICK x \in Text, id \in ToolIDs : item = Item("function_call_output", "", String(x), id, "")
        BY <2>3
      <3> DEFINE p == ResultC(id, Named(id, names, "unknown"), x, FALSE)
      <3>2. responseInputItemToCommandCode(item, names) = CommandCodeMessage("tool", <<p>>)
            /\ p \in OutPart
        BY <3>1, ItemConversion
      <3> HIDE DEF p
      <3>3. <<p>> \in Seq(OutPart) /\ "tool" \in Roles
        BY <3>2 DEF Roles
      <3>4. QED
        BY SoundMessage, <3>2, <3>3
    <2>4. QED
      <3>1. CASE \E p \in Roles \X Contents : item = MessageItem[p]
        <4>1. PICK p \in Roles \X Contents : item = MessageItem[p]
          BY <3>1
        <4>2. item = Item("message", p[1], p[2], "", "") /\ p[1] \in Roles /\ p[2] \in Contents
          BY <4>1 DEF MessageItem
        <4>3. QED
          BY <2>1, <4>2
      <3>2. CASE \E c \in Tool : item = CallItem[c]
        BY <2>2, <3>2
      <3>3. CASE \E p \in Text \X ToolIDs : item = OutputItem[p]
        <4>1. PICK p \in Text \X ToolIDs : item = OutputItem[p]
          BY <3>3
        <4>2. /\ item = Item("function_call_output", "", String(p[1]), p[2], "")
              /\ p[1] \in Text /\ p[2] \in ToolIDs
          BY <4>1 DEF OutputItem
        <4>3. QED
          BY <2>3, <4>2
      <3>4. QED
        BY <3>1, <3>2, <3>3 DEF Items
  <1>3. QED
    BY <1>2 DEF IsMap, OfItem

\* Messages as they should be are messages.
LEMMA SoundMessages ==
    ASSUME NEW s \in Seq(Sound)
    PROVE  s \in Seq(Out) /\ \A m \in ToSet(s) : Good(m)
  <1>1. Len(s) \in Nat /\ DOMAIN s = 1..Len(s) /\ s = [i \in 1..Len(s) |-> s[i]]
    BY LenProperties
  <1>2. \A i \in 1..Len(s) : s[i] \in Out /\ Good(s[i])
    BY ElementOfSeq DEF Sound
  <1>3. QED
    BY <1>1, <1>2 DEF ToSet

\* What is sent of one item.
LEMMA OneItem ==
    ASSUME NEW names, NEW item \in Items, NEW role \in Roles, NEW ps \in Seq(OutPart),
           responseInputItemToCommandCode(item, names) = CommandCodeMessage(role, ps),
           commandCodeContentHasType(ps, "tool-result") => role = "tool"
    PROVE  Each(TagOf, Each(OfItem(names), <<item>>)) = Tagged(role, ps)
  <1>1. Each(OfItem(names), <<item>>) = OfItem(names)[item]
    BY OfItemIsMap, EachOne
  <1>2. OfItem(names)[item] = NonEmpty(CommandCodeMessage(role, ps))
    BY DEF OfItem
  <1>3. QED
    BY <1>1, <1>2, SaidParts

\* The calls of an answer as items.
LEMMA CallItemsConverted ==
    ASSUME NEW t \in Turns, t.kind = "answer", ~t.blocks, NEW names
    PROVE  /\ Mapped(CallItem, t.calls) \in Seq(Items)
           /\ Each(TagOf, Each(OfItem(names), Mapped(CallItem, t.calls)))
                 = Tagged("assistant", Mapped(CallFun("responses", t), t.calls))
  <1> DEFINE s == t.calls
             m == [c \in Tool |-> CommandCodeMessage("assistant", <<CallFun("responses", t)[c]>>)]
             h == [c \in Tool |-> OfItem(names)[CallItem[c]]]
             p == [c \in Tool |-> [role |-> "assistant", part |-> CallFun("responses", t)[c]]]
             k == [c \in Tool |-> TagOf[m[c]]]
             g == [q \in OutPart |-> [role |-> "assistant", part |-> q]]
  <1>0. "responses" \in APIs /\ "assistant" \in Roles
    BY DEF APIs, Roles
  <1>1. s \in Seq(Tool)
    BY TurnFields
  <1>2. IsFun(CallFun("responses", t), Tool, OutPart)
    BY <1>0, CallsMapped
  <1>3. \A c \in Tool : CallFun("responses", t)[c] = CallC(c.id, TryParseJSON(Arguments(c)))
    BY DEF CallFun, InputSent
  <1>4. IsFun(CallItem, Tool, Items)
    <2>1. \A c \in Tool : CallItem[c] \in Items
      BY DEF Items
    <2>2. QED
      BY <2>1 DEF IsFun, CallItem
  <1>5. \A c \in Tool : /\ m[c] \in Out /\ h[c] = <<m[c]>>
                         /\ k[c] = <<p[c]>> /\ p[c] \in TaggedPart
    <2> SUFFICES ASSUME NEW c \in Tool
                 PROVE  /\ m[c] \in Out /\ h[c] = <<m[c]>>
                        /\ k[c] = <<p[c]>> /\ p[c] \in TaggedPart
      OBVIOUS
    <2> DEFINE q == CallFun("responses", t)[c]
    <2>1. q \in OutPart
      BY <1>2 DEF IsFun
    <2>2. responseInputItemToCommandCode(CallItem[c], names) = CommandCodeMessage("assistant", <<q>>)
      BY <1>3, ItemConversion
    <2>3. CallItem[c] \in Items
      BY <1>4 DEF IsFun
    <2>4. /\ m[c] = CommandCodeMessage("assistant", <<q>>)
          /\ h[c] = OfItem(names)[CallItem[c]]
          /\ p[c] = [role |-> "assistant", part |-> q]
          /\ k[c] = TagOf[m[c]]
      OBVIOUS
    <2> HIDE DEF q, m, h, p, k
    <2>5. m[c] \in Out /\ m[c].role = "assistant" /\ m[c].content = <<q>>
      BY <1>0, <2>1, <2>4 DEF CommandCodeMessage, Out
    <2>6. h[c] = NonEmpty(m[c])
      BY <2>2, <2>3, <2>4 DEF OfItem
    <2>7. h[c] = <<m[c]>>
      BY <2>5, <2>6 DEF NonEmpty
    <2>8. k[c] = Tagged("assistant", <<q>>)
      BY <2>4, <2>5 DEF TagOf
    <2>9. Tagged("assistant", <<q>>) = <<p[c]>>
      BY <2>4 DEF Tagged
    <2>10. p[c] \in TaggedPart
      BY <1>0, <2>1, <2>4 DEF TaggedPart
    <2>11. QED
      BY <2>5, <2>7, <2>8, <2>9, <2>10
  <1>6. /\ IsFun(m, Tool, Out) /\ IsMap(h, Tool, Out)
        /\ IsFun(p, Tool, TaggedPart) /\ IsMap(k, Tool, TaggedPart)
    <2>1. /\ m = [c \in Tool |-> m[c]] /\ h = [c \in Tool |-> h[c]]
          /\ p = [c \in Tool |-> p[c]] /\ k = [c \in Tool |-> k[c]]
      OBVIOUS
    <2> HIDE DEF m, h, p, k
    <2>2. ASSUME NEW c \in Tool PROVE h[c] \in Seq(Out) /\ k[c] \in Seq(TaggedPart)
      <3>1. m[c] \in Out /\ p[c] \in TaggedPart /\ h[c] = <<m[c]>> /\ k[c] = <<p[c]>>
        BY <1>5
      <3>2. <<m[c]>> \in Seq(Out)
        BY ONLY <3>1
      <3>3. <<p[c]>> \in Seq(TaggedPart)
        BY ONLY <3>1
      <3>4. QED
        BY ONLY <3>1, <3>2, <3>3
    <2>3. IsFun(m, Tool, Out) /\ IsFun(p, Tool, TaggedPart)
      BY <1>5, <2>1 DEF IsFun
    <2>4. h \in [Tool -> Seq(Out)] /\ k \in [Tool -> Seq(TaggedPart)]
      BY ONLY <2>1, <2>2
    <2>5. QED
      BY <2>3, <2>4 DEF IsMap
  <1>7. (\A c \in Tool : h[c] = OfItem(names)[CallItem[c]]) /\ \A c \in Tool : k[c] = TagOf[m[c]]
    OBVIOUS
  <1>8. \A c \in Tool : p[c] = g[CallFun("responses", t)[c]]
    BY <1>2 DEF IsFun
  <1>9. Mapped(CallFun("responses", t), s) \in Seq(OutPart)
    BY <1>0, CallsMapped
  <1>10. Tagged("assistant", Mapped(CallFun("responses", t), s))
            = Mapped(g, Mapped(CallFun("responses", t), s))
    BY <1>0, <1>9, TaggedProperties
  <1> HIDE DEF m, h, p, k, g, s
  <1>11. Each(OfItem(names), Mapped(CallItem, s)) = Each(h, s)
    BY <1>1, <1>4, <1>7, EachMapped
  <1>12. Each(h, s) = Mapped(m, s)
    BY <1>1, <1>5, <1>6, EachSingle
  <1>13. Each(TagOf, Mapped(m, s)) = Each(k, s)
    BY <1>1, <1>6, <1>7, EachMapped
  <1>14. Each(k, s) = Mapped(p, s)
    BY <1>1, <1>5, <1>6, EachSingle
  <1>15. Mapped(g, Mapped(CallFun("responses", t), s)) = Mapped(p, s)
    BY <1>1, <1>8, MappedMapped
  <1>16. Mapped(CallItem, s) \in Seq(Items)
    BY <1>1, <1>4, MappedConcat
  <1>17. QED
    BY <1>10, <1>11, <1>12, <1>13, <1>14, <1>15, <1>16 DEF s

\* What is sent of a turn.
LEMMA ResponsesTurn ==
    ASSUME NEW t \in Turns, NEW names
    PROVE  /\ ResponsesItems(t) \in Seq(Items)
           /\ Each(TagOf, Each(OfItem(names), ResponsesItems(t))) = SentBy("responses", t, names, "user")
  <1> USE TurnFields
  <1> DEFINE m == ChatMessage(t)
             c == openAIContentToCommandCode(m.content, names)
             one == Item("message", m.role, m.content, "", "")
  <1>0. "responses" \in APIs /\ "chat" \in APIs
    BY DEF APIs
  <1>00. /\ t.kind = "answer" /\ ~t.blocks => c = TextsC(t.text)
         /\ t.kind = "answer" /\ t.blocks =>
               c = TextsC(t.text) \o Mapped(CallFun("chat", t), t.calls)
    <2>1. t \in Turns /\ c = openAIContentToCommandCode(ChatMessage(t).content, names)
      OBVIOUS
    <2> HIDE DEF c, m, one
    <2>2. QED
      BY ONLY <2>1, ChatContent
  <1>1. ASSUME t.kind # "result", m.role = SentRole(t, "user"), SentRole(t, "user") \in Roles,
               ResponsesItems(t) = <<one>>, c = SentParts("responses", t, names)
        PROVE  /\ ResponsesItems(t) \in Seq(Items)
               /\ Each(TagOf, Each(OfItem(names), ResponsesItems(t))) = SentBy("responses", t, names, "user")
    <2>1. m.content \in Contents
      BY <1>1, ChatContents
    <2>2. /\ one \in Items /\ c \in Seq(OutPart)
          /\ responseInputItemToCommandCode(one, names) = CommandCodeMessage(RoleOf(m.role, c), c)
      <3> DEFINE r == m.role
                 x == m.content
      <3>1. r \in Roles /\ x \in Contents
        BY <1>1, <2>1
      <3> HIDE DEF r, x, m
      <3>2. /\ Item("message", r, x, "", "") \in Items
            /\ openAIContentToCommandCode(x, names) \in Seq(OutPart)
            /\ responseInputItemToCommandCode(Item("message", r, x, "", ""), names)
                  = CommandCodeMessage(RoleOf(r, openAIContentToCommandCode(x, names)),
                                       openAIContentToCommandCode(x, names))
        BY <3>1, ItemConversion
      <3>3. QED
        BY <3>2 DEF r, x
    <2>3. ~commandCodeContentHasType(c, "tool-result")
      BY <1>0, <1>1, HasResult
    <2> HIDE DEF c, one
    <2>4. RoleOf(m.role, c) = SentRole(t, "user")
      BY <1>1, <2>3 DEF RoleOf
    <2>5. Each(TagOf, Each(OfItem(names), <<one>>)) = Tagged(SentRole(t, "user"), c)
      BY <1>1, <2>2, <2>3, <2>4, OneItem
    <2>6. QED
      BY <1>1, <2>2, <2>5 DEF SentBy
  <1>2. CASE t.kind = "system"
    <2>1. m.role = "system" /\ SentRole(t, "user") = "system" /\ "system" \in Roles
      BY <1>2 DEF ChatMessage, Message, SentRole, Roles
    <2>2. ResponsesItems(t) = <<one>>
      BY <1>2 DEF ResponsesItems
    <2>3. c = TextsC(t.text)
      BY <1>2, ChatContent
    <2>4. SentParts("responses", t, names) = TextsC(t.text)
      BY <1>2 DEF SentParts
    <2> HIDE DEF c, m, one
    <2>5. QED
      BY <1>1, <1>2, <2>1, <2>2, <2>3, <2>4
  <1>3. CASE t.kind = "user"
    <2>1. m.role = "user" /\ SentRole(t, "user") = "user" /\ "user" \in Roles
      BY <1>3 DEF ChatMessage, Message, SentRole, Roles
    <2>2. ResponsesItems(t) = <<one>>
      BY <1>3 DEF ResponsesItems
    <2>3. c = SentParts("chat", t, names)
      BY <1>3, ChatContent
    <2>4. SentParts("responses", t, names) = SentParts("chat", t, names)
      BY <1>3 DEF SentParts
    <2> HIDE DEF c, m, one
    <2>5. QED
      BY <1>1, <1>3, <2>1, <2>2, <2>3, <2>4
  <1>4. ASSUME t.kind = "answer"
        PROVE  SentParts("responses", t, names) = TextsC(t.text) \o Mapped(CallFun("responses", t), t.calls)
    <2>1. TextsC(t.text) \in Seq(OutPart)
      BY OutParts
    <2>2. <<>> \o TextsC(t.text) = TextsC(t.text)
      BY <2>1, ConcatEmptySeq
    <2>3. SentParts("responses", t, names) = (<<>> \o TextsC(t.text)) \o
             [i \in DOMAIN t.calls |-> CallC(t.calls[i].id, InputSent("responses", t, t.calls[i]))]
      BY <1>4 DEF SentParts
    <2>4. [i \in DOMAIN t.calls |-> CallC(t.calls[i].id, InputSent("responses", t, t.calls[i]))]
             = Mapped(CallFun("responses", t), t.calls)
      BY <1>0, <1>4, CallsMapped
    <2>5. QED
      BY <2>2, <2>3, <2>4
  <1>5. CASE t.kind = "answer" /\ t.blocks
    <2>1. m.role = "assistant" /\ SentRole(t, "user") = "assistant" /\ "assistant" \in Roles
      BY <1>5 DEF ChatMessage, Message, SentRole, Roles
    <2>2. ResponsesItems(t) = <<one>>
      BY <1>5 DEF ResponsesItems
    <2>3. c = TextsC(t.text) \o Mapped(CallFun("chat", t), t.calls)
      BY <1>00, <1>5
    <2>4. CallFun("responses", t) = CallFun("chat", t)
      BY <1>5 DEF CallFun, InputSent
    <2>5. c = SentParts("responses", t, names)
      BY <1>4, <1>5, <2>3, <2>4
    <2> HIDE DEF c, m, one
    <2>6. QED
      BY <1>1, <1>5, <2>1, <2>2, <2>5
  <1>6. CASE t.kind = "answer" /\ ~t.blocks
    <2> DEFINE text == Item("message", "assistant", Parts(<<TextPart(t.text)>>), "", "")
               u == IF t.text = <<>> THEN <<>> ELSE <<text>>
               w == Mapped(CallItem, t.calls)
               calls == Mapped(CallFun("responses", t), t.calls)
    <2>1. w \in Seq(Items) /\ Each(TagOf, Each(OfItem(names), w)) = Tagged("assistant", calls)
      BY <1>6, CallItemsConverted
    <2>2. ResponsesItems(t) = u \o w
      <3>1. ResponsesItems(t) = u \o [i \in DOMAIN t.calls |->
                Item("function_call", "", NoContent, t.calls[i].id, Arguments(t.calls[i]))]
        BY <1>6 DEF ResponsesItems
      <3>2. [i \in DOMAIN t.calls |->
                Item("function_call", "", NoContent, t.calls[i].id, Arguments(t.calls[i]))] = w
        <4> DEFINE s == t.calls
        <4>1. s \in Seq(Tool)
          BY <1>6
        <4> HIDE DEF s
        <4>2. DOMAIN s = 1..Len(s) /\ \A i \in 1..Len(s) : s[i] \in Tool
          BY <4>1, LenProperties, ElementOfSeq
        <4>3. [i \in DOMAIN s |-> Item("function_call", "", NoContent, s[i].id, Arguments(s[i]))]
                 = Mapped(CallItem, s)
          BY <4>2 DEF Mapped, CallItem
        <4>4. QED
          BY <4>3 DEF s
      <3>3. QED
        BY <3>1, <3>2
    <2>3. TextsC(t.text) \in Seq(OutPart) /\ "assistant" \in Roles /\ SentRole(t, "user") = "assistant"
      BY <1>6, OutParts DEF Roles, SentRole
    <2>4. u \in Seq(Items) /\ Each(TagOf, Each(OfItem(names), u)) = Tagged("assistant", TextsC(t.text))
      <3>1. CASE t.text = <<>>
        <4>1. u = <<>> /\ TextsC(t.text) = <<>>
          BY <3>1 DEF TextsC
        <4>2. Each(OfItem(names), <<>>) = <<>> /\ Each(TagOf, <<>>) = <<>>
          BY EachEmpty
        <4>3. Tagged("assistant", <<>>) = <<>>
          BY DEF Tagged
        <4>4. QED
          BY <4>1, <4>2, <4>3, EmptySeq
      <3>2. CASE t.text # <<>>
        <4> DEFINE content == Parts(<<TextPart(t.text)>>)
        <4>1. content.parts = <<TextPart(t.text)>> /\ TextPart(t.text) \in InPart
          BY PartConversion DEF Parts
        <4>2. content \in Contents
          BY <4>1 DEF Parts, Contents
        <4>3. openAIContentToCommandCode(content, names) = TextsC(t.text)
          BY <4>1, PartConversion, OnePartContent
        <4>4. ~commandCodeContentHasType(TextsC(t.text), "tool-result")
          BY DEF commandCodeContentHasType, TextsC, TextC
        <4> HIDE DEF content
        <4>5. Item("message", "assistant", content, "", "") \in Items
              /\ responseInputItemToCommandCode(Item("message", "assistant", content, "", ""), names)
                    = CommandCodeMessage(RoleOf("assistant", TextsC(t.text)), TextsC(t.text))
          BY <2>3, <4>2, <4>3, ItemConversion
        <4>6. RoleOf("assistant", TextsC(t.text)) = "assistant"
          BY <4>4 DEF RoleOf
        <4>7. /\ text \in Items
              /\ responseInputItemToCommandCode(text, names)
                    = CommandCodeMessage("assistant", TextsC(t.text))
          BY <4>5, <4>6 DEF content
        <4> HIDE DEF text
        <4>8. Each(TagOf, Each(OfItem(names), <<text>>)) = Tagged("assistant", TextsC(t.text))
          BY <2>3, <4>4, <4>7, OneItem
        <4>9. QED
          BY <3>2, <4>7, <4>8
      <3>3. QED
        BY <3>1, <3>2
    <2>5. calls \in Seq(OutPart)
      BY <1>0, <1>6, CallsMapped
    <2> HIDE DEF u, w, calls
    <2>6. Each(OfItem(names), u \o w) = Each(OfItem(names), u) \o Each(OfItem(names), w)
      BY <2>1, <2>4, OfItemIsMap, EachConcat
    <2>7. Each(OfItem(names), u) \in Seq(Out) /\ Each(OfItem(names), w) \in Seq(Out)
      <3>1. \A s \in Seq(Items) : Each(OfItem(names), s) \in Seq(Sound)
        <4>1. SUFFICES ASSUME NEW s \in Seq(Items) PROVE Each(OfItem(names), s) \in Seq(Sound)
          OBVIOUS
        <4>2. QED
          BY OfItemIsMap, EachTyped
      <3>2. QED
        BY <2>1, <2>4, <3>1, SoundMessages
    <2>8. Each(TagOf, Each(OfItem(names), u) \o Each(OfItem(names), w))
             = Each(TagOf, Each(OfItem(names), u)) \o Each(TagOf, Each(OfItem(names), w))
      BY <2>7, TagIsMap, EachConcat
    <2>9. Tagged("assistant", TextsC(t.text) \o calls)
             = Tagged("assistant", TextsC(t.text)) \o Tagged("assistant", calls)
      BY <2>3, <2>5, TaggedConcat
    <2>10. u \o w \in Seq(Items)
      BY <2>1, <2>4, ConcatProperties
    <2>11. SentParts("responses", t, names) = TextsC(t.text) \o calls
      BY <1>4, <1>6 DEF calls
    <2>12. QED
      BY <2>1, <2>2, <2>3, <2>4, <2>6, <2>8, <2>9, <2>10, <2>11 DEF SentBy
  <1>7. CASE t.kind = "result"
    <2> DEFINE item == Item("function_call_output", "", String(t.text), t.id, "")
               p == ResultC(t.id, Named(t.id, names, "unknown"), t.text, FALSE)
    <2>1. ResponsesItems(t) = <<item>>
      BY <1>7 DEF ResponsesItems
    <2>2. SentParts("responses", t, names) = <<p>> /\ SentRole(t, "user") = "tool" /\ "tool" \in Roles
      BY <1>7 DEF SentParts, SentRole, ErrorSent, Otherwise, Roles
    <2>3. item \in Items /\ p \in OutPart
          /\ responseInputItemToCommandCode(item, names) = CommandCodeMessage("tool", <<p>>)
      BY <1>7, ItemConversion
    <2> HIDE DEF item, p
    <2>4. <<p>> \in Seq(OutPart) /\ <<item>> \in Seq(Items)
      BY <2>3
    <2>5. Each(TagOf, Each(OfItem(names), <<item>>)) = Tagged("tool", <<p>>)
      BY <2>2, <2>3, <2>4, OneItem
    <2>6. QED
      BY <2>1, <2>2, <2>4, <2>5 DEF SentBy
  <1>8. QED
    BY <1>2, <1>3, <1>5, <1>6, <1>7

\* The calls among a turn's items.
LEMMA TurnsCalls ==
    ASSUME NEW t \in Turns, NEW id
    PROVE  (\E item \in ToSet(ResponsesItems(t)) : item.type = "function_call" /\ item.id = id)
              <=> /\ t.kind = "answer" /\ ~t.blocks
                  /\ \E j \in DOMAIN t.calls : t.calls[j].id = id
  <1> USE TurnFields
  <1>1. CASE t.kind = "answer" /\ ~t.blocks
    <2> DEFINE s == t.calls
               u == IF t.text = <<>> THEN <<>>
                    ELSE <<Item("message", "assistant", Parts(<<TextPart(t.text)>>), "", "")>>
               w == [i \in DOMAIN s |-> Item("function_call", "", NoContent, s[i].id, Arguments(s[i]))]
    <2>1. ResponsesItems(t) = u \o w
      BY <1>1 DEF ResponsesItems
    <2>2. s \in Seq(Tool) /\ Len(s) \in Nat /\ DOMAIN s = 1..Len(s)
      BY <1>1, LenProperties
    <2>3. u \in Seq(ToSet(u)) /\ \A item \in ToSet(u) : item.type = "message"
      <3> DEFINE a == Item("message", "assistant", Parts(<<TextPart(t.text)>>), "", "")
      <3>1. a.type = "message"
        BY DEF Item
      <3>2. u = <<>> \/ u = <<a>>
        OBVIOUS
      <3> HIDE DEF a, u
      <3>3. u = <<>> => u \in Seq(ToSet(u)) /\ ToSet(u) = {}
        BY EmptySeq, FewElements
      <3>4. u = <<a>> => ToSet(u) = {a} /\ u \in Seq({a})
        BY FewElements
      <3>5. QED
        BY <3>1, <3>2, <3>3, <3>4
    <2>4. DOMAIN w = DOMAIN s /\ \A i \in DOMAIN s : w[i].type = "function_call" /\ w[i].id = s[i].id
      BY DEF Item
    <2>5. ToSet(u \o w) = ToSet(u) \cup ToSet(w)
      <3> DEFINE B == ToSet(u) \cup ToSet(w)
      <3>1. u \in Seq(B)
        <4> HIDE DEF u, w
        <4>1. QED
          BY <2>3, LenProperties, ElementOfSeq
      <3>2. w = [i \in 1..Len(s) |-> w[i]] /\ \A i \in 1..Len(s) : w[i] \in B
        <4> HIDE DEF s
        <4>1. QED
          BY <2>2 DEF ToSet
      <3> HIDE DEF B, u, w, s
      <3>3. w \in Seq(B)
        BY ONLY <2>2, <3>2
      <3>4. ToSet(u \o w) = ToSet(u) \cup ToSet(w)
        BY <3>1, <3>3, ElementsOfConcat
      <3>5. QED
        BY <3>4
    <2>6. (\E item \in ToSet(w) : item.type = "function_call" /\ item.id = id)
             <=> \E j \in DOMAIN s : s[j].id = id
      <3> HIDE DEF s, w
      <3>1. QED
        BY <2>4 DEF ToSet
    <2> HIDE DEF u, w
    <2>7. QED
      BY <1>1, <2>1, <2>3, <2>5, <2>6
  <1>2. CASE ~(t.kind = "answer" /\ ~t.blocks)
    <2> DEFINE a == Item("function_call_output", "", String(t.text), t.id, "")
               b == Item("message", ChatMessage(t).role, ChatMessage(t).content, "", "")
    <2>1. ResponsesItems(t) = <<a>> \/ ResponsesItems(t) = <<b>>
      BY <1>2 DEF ResponsesItems
    <2>2. a.type = "function_call_output" /\ b.type = "message"
      BY DEF Item
    <2>3. ToSet(<<a>>) = {a} /\ ToSet(<<b>>) = {b}
      BY FewElements
    <2> HIDE DEF a, b
    <2>4. QED
      BY <1>2, <2>1, <2>2, <2>3
  <1>3. QED
    BY <1>1, <1>2

\* The names that are found.
LEMMA ResponsesNames ==
    ASSUME NEW h \in Seq(Turns), NEW r, r = Rest(h)
    PROVE  responsesToolNameMap(FlattenSeq([i \in DOMAIN r |-> ResponsesItems(r[i])]))
              = CalledIn("responses", h)
  <1> DEFINE tt == [i \in DOMAIN r |-> ResponsesItems(r[i])]
             k == Len(Opening(h))
             items == FlattenSeq(tt)
             names == responsesToolNameMap(items)
             C(t, id) == /\ t.kind = "answer" /\ ~t.blocks
                         /\ \E j \in DOMAIN t.calls : t.calls[j].id = id
  <1>1. /\ k \in {0, 1} /\ r \in Seq(Turns) /\ Len(h) = Len(r) + k
        /\ \A i \in 1..Len(r) : h[i + k] = r[i]
        /\ k = 1 => h[1].kind = "system"
    BY RestProperties
  <1>2. /\ DOMAIN r = 1..Len(r) /\ Len(r) \in Nat /\ \A i \in 1..Len(r) : r[i] \in Turns
        /\ DOMAIN h = 1..Len(h) /\ \A i \in 1..Len(h) : h[i] \in Turns
    BY <1>1, LenProperties, ElementOfSeq
  <1>3. tt \in Seq(Seq(Items)) /\ DOMAIN tt = DOMAIN r /\ \A i \in DOMAIN r : tt[i] = ResponsesItems(r[i])
    BY <1>2, ResponsesTurn
  <1> HIDE DEF tt
  <1>4. ToSet(items) = UNION {ToSet(tt[i]) : i \in DOMAIN tt}
    BY <1>3, ElementsOfFlatten
  <1>5. \A id : id \in names <=> \E item \in ToSet(items) : item.type = "function_call" /\ item.id = id
    BY DEF responsesToolNameMap, ToSet
  <1> HIDE DEF items, names
  <1>6. \A id : id \in names <=> \E i \in DOMAIN r : \E item \in ToSet(ResponsesItems(r[i])) :
                                    item.type = "function_call" /\ item.id = id
    BY <1>3, <1>4, <1>5
  <1>7. \A id : id \in names <=> \E i \in 1..Len(r) : C(r[i], id)
    <2> DEFINE D(t, id) == \E item \in ToSet(ResponsesItems(t)) : item.type = "function_call" /\ item.id = id
    <2>1. \A i \in DOMAIN r : \A id : D(r[i], id) <=> C(r[i], id)
      BY <1>2, TurnsCalls
    <2>2. \A id : id \in names <=> \E i \in DOMAIN r : D(r[i], id)
      BY <1>6
    <2> HIDE DEF C, D
    <2>3. QED
      BY <1>2, <2>1, <2>2
  <1>8. \A id : (\E i \in 1..Len(r) : C(r[i], id)) <=> \E i \in DOMAIN h : C(h[i], id)
    <2>1. \A id : k = 1 => ~C(h[1], id)
      BY <1>1
    <2> HIDE DEF C, k
    <2>2. SUFFICES ASSUME NEW id
                   PROVE  (\E i \in 1..Len(r) : C(r[i], id)) <=> \E i \in DOMAIN h : C(h[i], id)
      OBVIOUS
    <2>3. ASSUME NEW i \in 1..Len(r), C(r[i], id) PROVE \E j \in DOMAIN h : C(h[j], id)
      <3>1. i + k \in DOMAIN h /\ h[i + k] = r[i]
        BY <1>1, <1>2
      <3>2. QED
        BY <2>3, <3>1
    <2>4. ASSUME NEW j \in DOMAIN h, C(h[j], id) PROVE \E i \in 1..Len(r) : C(r[i], id)
      <3>1. ~(k = 1 /\ j = 1)
        BY <2>1, <2>4
      <3>2. j - k \in 1..Len(r) /\ (j - k) + k = j
        BY <1>1, <1>2, <3>1
      <3>3. r[j - k] = h[j]
        BY <1>1, <3>2
      <3>4. QED
        BY <2>4, <3>2, <3>3
    <2>5. QED
      BY <2>3, <2>4
  <1>9. \A i \in DOMAIN h : \A id : C(h[i], id) => id \in ToolIDs
    BY <1>2, CallIDTypes
  <1>10. \A id : id \in CalledIn("responses", h) <=> id \in ToolIDs /\ \E i \in DOMAIN h : C(h[i], id)
    BY DEF CalledIn
  <1> HIDE DEF C
  <1>11. \A id : id \in names <=> id \in CalledIn("responses", h)
    BY <1>7, <1>8, <1>9, <1>10
  <1>12. names = CalledIn("responses", h)
    BY <1>11
  <1>13. QED
    BY <1>12 DEF names, items, tt

\* What is sent of the i-th turn: nothing of a system turn at the start.
SentOf(api, h, i, user) ==
    IF h[i].kind = "system" /\ i = 1 THEN <<>> ELSE SentBy(api, h[i], CalledIn(api, h), user)

\* What is sent of a turn are parts with a role.
LEMMA SentByTypes ==
    ASSUME NEW api \in APIs, NEW t \in Turns, NEW names, NEW user \in {"user", "tool"}
    PROVE  /\ SentBy(api, t, names, user) \in Seq(TaggedPart)
           /\ SentRole(t, user) \in Roles
           /\ t.kind = "system" /\ api # "responses" => SentBy(api, t, names, user) = <<>>
  <1>1. SentRole(t, user) \in Roles
    BY TurnFields DEF SentRole, Roles
  <1>2. SentParts(api, t, names) \in Seq(OutPart)
    BY SentTypes
  <1>3. t.kind = "system" /\ api # "responses" => SentParts(api, t, names) = <<>>
    BY DEF SentParts
  <1>4. QED
    BY <1>1, <1>2, <1>3, TaggedProperties DEF SentBy

\* A request of Responses.
LEMMA ResponsesSent ==
    ASSUME NEW h \in Seq(Turns), NEW r, r = Rest(h), NEW request,
           request = OpenAIResponsesToCommandCode(Opening(h),
                        FlattenSeq([i \in DOMAIN r |-> ResponsesItems(r[i])]))
    PROVE  /\ Flat(request) = FlattenSeq([i \in DOMAIN h |-> SentOf("responses", h, i, "user")])
           /\ \A m \in ToSet(request.messages) : Good(m)
           /\ request.system =
                 FlattenSeq([i \in DOMAIN h |-> IF i = 1 THEN SystemOf(h[i]) ELSE <<>>])
  <1> DEFINE k == Len(Opening(h))
             tt == [i \in DOMAIN r |-> ResponsesItems(r[i])]
             items == FlattenSeq(tt)
             names == responsesToolNameMap(items)
             ms == [i \in DOMAIN tt |-> Each(OfItem(names), tt[i])]
             sent == [i \in DOMAIN h |-> SentOf("responses", h, i, "user")]
             rest == [i \in DOMAIN r |-> SentBy("responses", r[i], names, "user")]
  <1>0. "responses" \in APIs
    BY DEF APIs
  <1>1. /\ k \in {0, 1} /\ r \in Seq(Turns) /\ Len(h) = Len(r) + k
        /\ \A i \in 1..Len(r) : h[i + k] = r[i]
        /\ k = 1 => Opening(h) = <<h[1]>> /\ h[1].kind = "system"
        /\ k = 0 => Opening(h) = <<>> /\ (h # <<>> => h[1].kind # "system")
    BY RestProperties
  <1>2. /\ DOMAIN r = 1..Len(r) /\ Len(r) \in Nat /\ \A i \in 1..Len(r) : r[i] \in Turns
        /\ DOMAIN h = 1..Len(h) /\ Len(h) \in Nat /\ \A i \in 1..Len(h) : h[i] \in Turns
    BY <1>1, LenProperties, ElementOfSeq
  <1>3. names = CalledIn("responses", h)
    BY ResponsesNames
  <1>4. /\ request.messages = FlattenSeq([i \in DOMAIN items |->
                                 NonEmpty(responseInputItemToCommandCode(items[i], names))])
        /\ request.system = FlattenSeq([i \in DOMAIN Opening(h) |-> SystemPart(Opening(h)[i].text)])
    BY DEF OpenAIResponsesToCommandCode
  <1>5. tt \in Seq(Seq(Items)) /\ DOMAIN tt = DOMAIN r /\ \A i \in DOMAIN r : tt[i] = ResponsesItems(r[i])
    BY <1>2, ResponsesTurn
  <1> HIDE DEF tt, k
  <1>6. items \in Seq(Items)
    BY <1>5, EmptySeq, FlattenProperties
  <1> HIDE DEF items, names
  <1>7. request.messages = Each(OfItem(names), items)
    <2>1. DOMAIN items = 1..Len(items) /\ \A i \in 1..Len(items) : items[i] \in Items
      BY <1>6, LenProperties, ElementOfSeq
    <2>2. [i \in DOMAIN items |-> NonEmpty(responseInputItemToCommandCode(items[i], names))]
             = [i \in DOMAIN items |-> OfItem(names)[items[i]]]
      BY <2>1 DEF OfItem
    <2>3. QED
      BY <1>4, <2>2, Zenon DEF Each
  <1>8. Each(OfItem(names), items) = FlattenSeq(ms)
    BY <1>5, OfItemIsMap, EachFlatten DEF items
  <1>9. \A i \in DOMAIN tt : ms[i] \in Seq(Out) /\ \A m \in ToSet(ms[i]) : Good(m)
    <2>1. \A i \in DOMAIN tt : tt[i] \in Seq(Items)
      BY <1>2, <1>5, ResponsesTurn
    <2>2. \A i \in DOMAIN tt : Each(OfItem(names), tt[i]) \in Seq(Sound)
      BY <2>1, OfItemIsMap, EachTyped
    <2>3. QED
      BY <2>2, SoundMessages
  <1>10. DOMAIN ms = DOMAIN tt /\ ms \in Seq(Seq(Out))
    BY <1>2, <1>5, <1>9
  <1>11. \A i \in DOMAIN ms : Each(TagOf, ms[i]) = SentBy("responses", r[i], names, "user")
    BY <1>2, <1>5, <1>10, ResponsesTurn
  <1> HIDE DEF ms
  <1>12. /\ Flat(request) = FlattenSeq([i \in DOMAIN ms |-> Each(TagOf, ms[i])])
         /\ \A m \in ToSet(request.messages) : Good(m)
    <2>1. request.messages = FlattenSeq(ms)
      BY <1>7, <1>8
    <2>2. \A i \in DOMAIN ms : \A m \in ToSet(ms[i]) : Good(m)
      BY <1>9, <1>10
    <2>3. QED
      BY ONLY <1>10, <2>1, <2>2, FlatOfMessages
  <1>13. [i \in DOMAIN ms |-> Each(TagOf, ms[i])] = rest
    BY <1>5, <1>10, <1>11
  <1>14. FlattenSeq(sent) = FlattenSeq(rest)
    <2>1. \A i \in DOMAIN r : SentBy("responses", r[i], names, "user") \in Seq(TaggedPart)
      BY <1>0, <1>2, SentByTypes
    <2>2. rest \in Seq(Seq(TaggedPart)) /\ Len(rest) = Len(r)
      BY <1>2, <2>1
    <2>3. \A i \in DOMAIN h : SentOf("responses", h, i, "user") \in Seq(TaggedPart)
      BY <1>0, <1>2, SentByTypes, EmptySeq DEF SentOf
    <2>4. sent \in Seq(Seq(TaggedPart)) /\ Len(sent) = Len(h)
      BY <1>2, <2>3
    <2>5. k = 1 => sent[1] = <<>>
      BY <1>1, <1>2 DEF SentOf
    <2>6. \A i \in 1..Len(r) : sent[i + k] = rest[i]
      <3> SUFFICES ASSUME NEW i \in 1..Len(r) PROVE sent[i + k] = rest[i]
        OBVIOUS
      <3>1. i + k \in DOMAIN h /\ h[i + k] = r[i]
        BY <1>1, <1>2
      <3>2. ~(h[i + k].kind = "system" /\ i + k = 1)
        <4>1. i + k = 1 => k = 0 /\ h # <<>>
          BY <1>1, <1>2
        <4>2. i + k = 1 => h[1].kind # "system"
          BY <1>1, <4>1
        <4>3. QED
          BY <4>2
      <3>3. sent[i + k] = SentBy("responses", h[i + k], CalledIn("responses", h), "user")
        BY <3>1, <3>2 DEF SentOf
      <3>4. rest[i] = SentBy("responses", r[i], names, "user")
        BY <1>2
      <3>5. QED
        BY <1>3, <3>1, <3>3, <3>4
    <2> HIDE DEF sent, rest
    <2>7. /\ \A i \in 1..Len(Rest(h)) : sent[i + Len(Opening(h))] = rest[i]
          /\ Len(Opening(h)) = 1 => sent[1] = <<>>
      BY <2>5, <2>6 DEF k
    <2>8. Len(sent) = Len(h) /\ Len(rest) = Len(Rest(h))
      BY <2>2, <2>4
    <2>9. h \in Seq(Turns) /\ sent \in Seq(Seq(TaggedPart)) /\ rest \in Seq(Seq(TaggedPart))
      BY <2>2, <2>4
    <2>10. QED
      BY ONLY <2>7, <2>8, <2>9, RestFlattened
  <1>15. request.system = FlattenSeq([i \in DOMAIN h |-> IF i = 1 THEN SystemOf(h[i]) ELSE <<>>])
    <2> DEFINE ss == [i \in DOMAIN h |-> IF i = 1 THEN SystemOf(h[i]) ELSE <<>>]
    <2>1. \A t \in Turns : SystemOf(t) \in Seq(Text)
      BY TurnFields, EmptySeq DEF SystemOf
    <2>2. ss \in Seq(Seq(Text)) /\ Len(ss) = Len(h)
      BY <1>2, <2>1, EmptySeq
    <2>3. \A i \in 2..Len(ss) : ss[i] = <<>>
      BY <1>2, <2>2
    <2>4. h = <<>> <=> Len(h) = 0
      BY EmptySeq
    <2>5. FlattenSeq(ss) = IF ss = <<>> THEN <<>> ELSE ss[1]
      <3> HIDE DEF ss
      <3>1. QED
        BY <2>2, <2>3, FirstOnly
    <2>6. CASE k = 1
      <3>1. Opening(h) = <<h[1]>> /\ h[1].kind = "system" /\ h[1] \in Turns /\ Len(h) >= 1
        BY <1>1, <1>2, <2>6
      <3>2. SystemPart(h[1].text) = SystemOf(h[1])
        BY <3>1 DEF SystemPart, SystemOf
      <3>3. [i \in DOMAIN Opening(h) |-> SystemPart(Opening(h)[i].text)] = <<SystemOf(h[1])>>
        BY <3>1, <3>2
      <3>4. FlattenSeq(<<SystemOf(h[1])>>) = SystemOf(h[1])
        BY <2>1, <3>1, FlattenOne
      <3>5. ss # <<>> /\ ss[1] = SystemOf(h[1])
        BY <1>2, <2>2, <3>1
      <3>6. QED
        BY <1>4, <2>5, <3>3, <3>4, <3>5
    <2>7. CASE k = 0
      <3>1. [i \in DOMAIN Opening(h) |-> SystemPart(Opening(h)[i].text)] = <<>>
        BY <1>1, <2>7
      <3>2. FlattenSeq(<<>>) = <<>>
        BY FlattenProperties, EmptySeq
      <3>3. ss = <<>> \/ ss[1] = <<>>
        <4>1. CASE h = <<>>
          BY <1>2, <2>2, <2>4, <4>1, EmptySeq
        <4>2. CASE h # <<>>
          <5>1. h[1].kind # "system" /\ 1 \in DOMAIN h
            BY <1>1, <1>2, <2>4, <2>7, <4>2
          <5>2. QED
            BY <5>1 DEF SystemOf
        <4>3. QED
          BY <4>1, <4>2
      <3>4. QED
        BY <1>4, <2>5, <3>1, <3>2, <3>3
    <2>8. QED
      BY <1>1, <2>6, <2>7
  <1>16. QED
    BY <1>12, <1>13, <1>14, <1>15
-----------------------------------------------------------------------------
(* Messages: what becomes of a turn's own message. *)

\* The parts that clients of Messages send, their conversion, and a turn's own.
ThinkingPart(x) == [type |-> "thinking", text |-> x]
APart == InPart \cup {ThinkingPart(x) : x \in Text}
AOfPart(names) == [p \in APart |-> anthropicContentPartToCommandCode(p, names)]
PartsOf(t) == MessagesMessage(t).content.parts

\* What each kind of part is converted to.
LEMMA APartConversion ==
    ASSUME NEW names
    PROVE  /\ \A x \in Text :
                 /\ TextPart(x) \in APart /\ ThinkingPart(x) \in APart
                 /\ anthropicContentPartToCommandCode(TextPart(x), names) = TextsC(x)
                 /\ anthropicContentPartToCommandCode(ThinkingPart(x), names) = TextsC(x)
           /\ ImagePart \in APart
           /\ anthropicContentPartToCommandCode(ImagePart, names) = <<ImageC>>
           /\ \A id \in ToolIDs, in \in Sendable :
                 /\ UsePart(id, in) \in APart
                 /\ anthropicContentPartToCommandCode(UsePart(id, in), names) = <<CallC(id, in)>>
           /\ \A t \in Turns : t.kind = "result" =>
                 /\ ResultPart(t) \in APart
                 /\ anthropicContentPartToCommandCode(ResultPart(t), names)
                       = <<ResultC(t.id, Named(t.id, names, ""), t.text, t.error)>>
  <1>1. /\ \A x \in Text : TextPart(x) \in APart /\ ThinkingPart(x) \in APart
        /\ ImagePart \in APart
        /\ \A id \in ToolIDs, in \in Sendable : UsePart(id, in) \in APart
        /\ \A t \in Turns : t.kind = "result" => ResultPart(t) \in APart
    BY PartConversion DEF APart
  <1>2. /\ \A x \in Text : /\ anthropicContentPartToCommandCode(TextPart(x), names) = TextsC(x)
                           /\ anthropicContentPartToCommandCode(ThinkingPart(x), names) = TextsC(x)
        /\ anthropicContentPartToCommandCode(ImagePart, names) = <<ImageC>>
        /\ \A id \in ToolIDs, in \in Sendable :
              anthropicContentPartToCommandCode(UsePart(id, in), names) = <<CallC(id, in)>>
    BY DEF anthropicContentPartToCommandCode, TextPart, ThinkingPart, ImagePart, UsePart
  <1>3. \A t \in Turns : t.kind = "result" =>
            anthropicContentPartToCommandCode(ResultPart(t), names)
               = <<ResultC(t.id, Named(t.id, names, ""), t.text, t.error)>>
    BY DEF anthropicContentPartToCommandCode, ResultPart
  <1>4. QED
    BY <1>1, <1>2, <1>3

\* They are parts that the upstream gets.
LEMMA AOfPartIsMap ==
    ASSUME NEW names
    PROVE  IsMap(AOfPart(names), APart, OutPart)
  <1>1. ASSUME NEW p \in APart PROVE anthropicContentPartToCommandCode(p, names) \in Seq(OutPart)
    <2>1. CASE \E x \in Text : p = TextPart(x) \/ p = ThinkingPart(x)
      BY <2>1, APartConversion, OutParts
    <2>2. CASE p = ImagePart
      BY <2>2, APartConversion, OutParts
    <2>3. CASE \E id \in ToolIDs, in \in Sendable : p = UsePart(id, in)
      <3>1. PICK id \in ToolIDs, in \in Sendable : p = UsePart(id, in)
        BY <2>3
      <3>2. CallC(id, in) \in OutPart
        BY OutParts
      <3>3. anthropicContentPartToCommandCode(UsePart(id, in), names) = <<CallC(id, in)>>
        BY APartConversion
      <3>4. anthropicContentPartToCommandCode(p, names) = <<CallC(id, in)>>
        BY <3>1, <3>3
      <3>5. QED
        BY <3>2, <3>4
    <2>4. CASE \E t \in Turns : t.kind = "result" /\ p = ResultPart(t)
      <3>1. PICK t \in Turns : t.kind = "result" /\ p = ResultPart(t)
        BY <2>4
      <3>2. ResultC(t.id, Named(t.id, names, ""), t.text, t.error) \in OutPart
        BY <3>1, TurnFields, NamedType, OutParts
      <3>3. anthropicContentPartToCommandCode(ResultPart(t), names)
               = <<ResultC(t.id, Named(t.id, names, ""), t.text, t.error)>>
        BY <3>1, APartConversion
      <3>4. anthropicContentPartToCommandCode(p, names)
               = <<ResultC(t.id, Named(t.id, names, ""), t.text, t.error)>>
        BY <3>1, <3>3
      <3> DEFINE q == ResultC(t.id, Named(t.id, names, ""), t.text, t.error)
      <3>5. q \in OutPart /\ anthropicContentPartToCommandCode(p, names) = <<q>>
        BY <3>2, <3>4
      <3> HIDE DEF q
      <3>6. QED
        BY ONLY <3>5
    <2>5. QED
      BY <2>1, <2>2, <2>3, <2>4 DEF InPart, APart
  <1>2. QED
    BY <1>1 DEF IsMap, AOfPart

\* One part, converted.
LEMMA OneAPart ==
    ASSUME NEW names, NEW p \in APart
    PROVE  /\ <<p>> \in Seq(APart)
           /\ Each(AOfPart(names), <<p>>) = anthropicContentPartToCommandCode(p, names)
  <1>1. Each(AOfPart(names), <<p>>) = AOfPart(names)[p]
    BY AOfPartIsMap, EachOne
  <1>2. QED
    BY <1>1 DEF AOfPart

\* The calls of an answer, converted.
LEMMA AUsesConverted ==
    ASSUME NEW t \in Turns, t.kind = "answer", NEW names, NEW w,
           w = [i \in DOMAIN t.calls |-> UsePart(t.calls[i].id, MessagesInput(t, t.calls[i]))]
    PROVE  /\ w \in Seq(APart)
           /\ Each(AOfPart(names), w) = Mapped(CallFun("messages", t), t.calls)
  <1> DEFINE s == t.calls
             g == [c \in Tool |-> UsePart(c.id, MessagesInput(t, c))]
             h == [c \in Tool |-> <<CallC(c.id, InputSent("messages", t, c))>>]
  <1>0. "messages" \in APIs
    BY DEF APIs
  <1>1. s \in Seq(Tool)
    BY TurnFields
  <1>2. ASSUME NEW c \in Tool
        PROVE  /\ c.id \in ToolIDs /\ InputSent("messages", t, c) \in Sendable
               /\ MessagesInput(t, c) = InputSent("messages", t, c)
    <2>1. c.id \in ToolIDs
      BY DEF Tool
    <2>2. InputSent("messages", t, c) \in Sendable
      BY <1>0, InputTypes
    <2>3. QED
      BY <2>1, <2>2 DEF InputSent
  <1>3. IsFun(g, Tool, APart)
    <2>1. \A c \in Tool : UsePart(c.id, MessagesInput(t, c)) \in APart
      BY <1>2, APartConversion
    <2>2. QED
      BY <2>1 DEF IsFun
  <1>4. \A c \in Tool : h[c] = AOfPart(names)[g[c]]
    <2> SUFFICES ASSUME NEW c \in Tool PROVE h[c] = AOfPart(names)[g[c]]
      OBVIOUS
    <2>1. /\ g[c] = UsePart(c.id, InputSent("messages", t, c))
          /\ h[c] = <<CallC(c.id, InputSent("messages", t, c))>>
      BY <1>2
    <2>2. g[c] \in APart
      BY <1>3 DEF IsFun
    <2>3. anthropicContentPartToCommandCode(g[c], names) = h[c]
      <3> HIDE DEF g, h
      <3>1. QED
        BY <1>2, <2>1, APartConversion
    <2>4. QED
      BY <2>2, <2>3 DEF AOfPart
  <1>5. IsMap(h, Tool, OutPart) /\ \A c \in Tool : h[c] = <<CallFun("messages", t)[c]>>
    <2>1. \A c \in Tool : CallC(c.id, InputSent("messages", t, c)) \in OutPart
      BY <1>2, OutParts
    <2>2. QED
      BY <2>1 DEF IsMap, CallFun
  <1>6. IsFun(CallFun("messages", t), Tool, OutPart)
    BY <1>0, CallsMapped
  <1>7. w = Mapped(g, s)
    <2>1. w = [i \in DOMAIN s |-> UsePart(s[i].id, MessagesInput(t, s[i]))]
      OBVIOUS
    <2> HIDE DEF s
    <2>2. DOMAIN s = 1..Len(s) /\ \A i \in 1..Len(s) : s[i] \in Tool
      BY <1>1, LenProperties, ElementOfSeq
    <2>3. QED
      BY <2>1, <2>2 DEF Mapped
  <1> HIDE DEF g, h, s
  <1>8. Each(AOfPart(names), Mapped(g, s)) = Each(h, s)
    BY <1>1, <1>3, <1>4, EachMapped
  <1>9. Each(h, s) = Mapped(CallFun("messages", t), s)
    BY <1>1, <1>5, <1>6, EachSingle
  <1>10. Mapped(g, s) \in Seq(APart)
    BY <1>1, <1>3, MappedConcat
  <1>11. QED
    BY <1>7, <1>8, <1>9, <1>10 DEF s

\* A turn's own message.
LEMMA OwnMessage ==
    ASSUME NEW t \in Turns
    PROVE  /\ t.kind = "system" => MessagesMessage(t).role = "system"
           /\ t.kind = "answer" => MessagesMessage(t).role = "assistant"
           /\ Spoken(t) => MessagesMessage(t) = Message("user", Parts(PartsOf(t)))
           /\ Spoken(t) <=> t.kind \in {"user", "result"}
           /\ t.kind \in {"system", "answer", "user", "result"}
  <1>1. t.kind = "system" => MessagesMessage(t).role = "system"
    BY DEF MessagesMessage, Message
  <1>2. t.kind = "answer" => MessagesMessage(t).role = "assistant"
    BY DEF MessagesMessage, Message
  <1>3. CASE t.kind = "user"
    <2>1. MessagesMessage(t) = Message("user", Parts(UserParts(t)))
      BY <1>3 DEF MessagesMessage
    <2>2. Message("user", Parts(UserParts(t))).content.parts = UserParts(t)
      BY DEF Message, Parts
    <2>3. QED
      BY <1>3, <2>1, <2>2 DEF PartsOf, Spoken
  <1>4. CASE t.kind = "result"
    <2>1. MessagesMessage(t) = Message("user", Parts(<<ResultPart(t)>>))
      BY <1>4 DEF MessagesMessage
    <2>2. Message("user", Parts(<<ResultPart(t)>>)).content.parts = <<ResultPart(t)>>
      BY DEF Message, Parts
    <2>3. QED
      BY <1>4, <2>1, <2>2 DEF PartsOf, Spoken
  <1>5. QED
    BY <1>1, <1>2, <1>3, <1>4, TurnFields DEF Spoken

\* Its parts are converted to what is sent.
LEMMA OwnParts ==
    ASSUME NEW t \in Turns, t.kind # "system", NEW names
    PROVE  /\ PartsOf(t) \in Seq(APart)
           /\ Each(AOfPart(names), PartsOf(t)) = SentParts("messages", t, names)
  <1> USE TurnFields
  <1>0. "messages" \in APIs
    BY DEF APIs
  <1>1. CASE t.kind = "user"
    <2> DEFINE u == <<TextPart(t.text)>>
               w == IF t.image THEN <<ImagePart>> ELSE <<>>
               x == IF t.image THEN <<ImageC>> ELSE <<>>
    <2>1. PartsOf(t) = u \o w
      BY <1>1 DEF PartsOf, MessagesMessage, Message, Parts, UserParts
    <2>2. SentParts("messages", t, names) = TextsC(t.text) \o x
      BY <1>1 DEF SentParts
    <2>3. u \in Seq(APart) /\ Each(AOfPart(names), u) = TextsC(t.text)
      BY APartConversion, OneAPart
    <2>4. w \in Seq(APart) /\ Each(AOfPart(names), w) = x
      <3>1. <<ImagePart>> \in Seq(APart) /\ Each(AOfPart(names), <<ImagePart>>) = <<ImageC>>
        BY APartConversion, OneAPart
      <3>2. <<>> \in Seq(APart) /\ Each(AOfPart(names), <<>>) = <<>>
        BY EmptySeq, EachEmpty
      <3>3. QED
        BY <3>1, <3>2
    <2> HIDE DEF u, w, x
    <2>5. Each(AOfPart(names), u \o w) = Each(AOfPart(names), u) \o Each(AOfPart(names), w)
      BY <2>3, <2>4, AOfPartIsMap, EachConcat
    <2>6. u \o w \in Seq(APart)
      BY <2>3, <2>4, ConcatProperties
    <2>7. QED
      BY <2>1, <2>2, <2>3, <2>4, <2>5, <2>6
  <1>2. CASE t.kind = "result"
    <2>1. PartsOf(t) = <<ResultPart(t)>>
      BY <1>2 DEF PartsOf, MessagesMessage, Message, Parts
    <2>2. SentParts("messages", t, names) = <<ResultC(t.id, Named(t.id, names, ""), t.text, t.error)>>
      BY <1>2 DEF SentParts, Otherwise, ErrorSent
    <2>3. /\ ResultPart(t) \in APart
          /\ anthropicContentPartToCommandCode(ResultPart(t), names)
                = <<ResultC(t.id, Named(t.id, names, ""), t.text, t.error)>>
      BY <1>2, APartConversion
    <2>4. QED
      BY <2>1, <2>2, <2>3, OneAPart
  <1>3. CASE t.kind = "answer"
    <2> DEFINE u == IF t.thinking = <<>> THEN <<>> ELSE <<ThinkingPart(t.thinking)>>
               v == IF t.text = <<>> THEN <<>> ELSE <<TextPart(t.text)>>
               w == [i \in DOMAIN t.calls |-> UsePart(t.calls[i].id, MessagesInput(t, t.calls[i]))]
               calls == Mapped(CallFun("messages", t), t.calls)
    <2>1. PartsOf(t) = (u \o v) \o w
      BY <1>3 DEF PartsOf, MessagesMessage, Message, Parts, ThinkingPart
    <2>2. SentParts("messages", t, names) = (TextsC(t.thinking) \o TextsC(t.text)) \o calls
      <3>1. SentParts("messages", t, names) = (TextsC(t.thinking) \o TextsC(t.text)) \o
                [i \in DOMAIN t.calls |-> CallC(t.calls[i].id, InputSent("messages", t, t.calls[i]))]
        BY <1>3 DEF SentParts
      <3>2. [i \in DOMAIN t.calls |-> CallC(t.calls[i].id, InputSent("messages", t, t.calls[i]))] = calls
        BY <1>0, <1>3, CallsMapped
      <3>3. QED
        BY <3>1, <3>2
    <2>3. w \in Seq(APart) /\ Each(AOfPart(names), w) = calls
      BY <1>3, AUsesConverted
    <2>4. <<>> \in Seq(APart) /\ Each(AOfPart(names), <<>>) = <<>>
      BY EmptySeq, EachEmpty
    <2>5. u \in Seq(APart) /\ Each(AOfPart(names), u) = TextsC(t.thinking)
      <3>1. /\ <<ThinkingPart(t.thinking)>> \in Seq(APart)
            /\ Each(AOfPart(names), <<ThinkingPart(t.thinking)>>) = TextsC(t.thinking)
        BY <1>3, APartConversion, OneAPart
      <3>2. QED
        BY <2>4, <3>1 DEF TextsC
    <2>6. v \in Seq(APart) /\ Each(AOfPart(names), v) = TextsC(t.text)
      <3>1. /\ <<TextPart(t.text)>> \in Seq(APart)
            /\ Each(AOfPart(names), <<TextPart(t.text)>>) = TextsC(t.text)
        BY APartConversion, OneAPart
      <3>2. QED
        BY <2>4, <3>1 DEF TextsC
    <2> HIDE DEF u, v, w, calls
    <2>7. /\ u \o v \in Seq(APart)
          /\ Each(AOfPart(names), u \o v) = Each(AOfPart(names), u) \o Each(AOfPart(names), v)
      BY <2>5, <2>6, ConcatProperties, AOfPartIsMap, EachConcat
    <2>8. /\ (u \o v) \o w \in Seq(APart)
          /\ Each(AOfPart(names), (u \o v) \o w) = Each(AOfPart(names), u \o v) \o Each(AOfPart(names), w)
      <3> DEFINE x == u \o v
      <3>1. x \in Seq(APart)
        BY <2>7
      <3> HIDE DEF x
      <3>2. x \o w \in Seq(APart)
        BY ONLY <2>3, <3>1, ConcatProperties
      <3>3. Each(AOfPart(names), x \o w) = Each(AOfPart(names), x) \o Each(AOfPart(names), w)
        BY ONLY <2>3, <3>1, AOfPartIsMap, EachConcat
      <3>4. QED
        BY <3>2, <3>3 DEF x
    <2>9. QED
      BY <2>1, <2>2, <2>3, <2>5, <2>6, <2>7, <2>8
  <1>4. QED
    BY <1>1, <1>2, <1>3
-----------------------------------------------------------------------------
(* Messages: the client's messages, turn by turn. *)

\* What the user and the tools have said, as one message.
Joint(s) == Message("user", Parts(s))
AMessages == {MessagesMessage(t) : t \in {x \in Turns : ~Spoken(x)}} \cup {Joint(s) : s \in Seq(APart)}
AddTurnStep == [x \in Seq(AMessages) \X Turns |-> AddTurn(x[1], x[2])]

\* A joint message.
LEMMA JointFields ==
    ASSUME NEW s \in Seq(APart)
    PROVE  /\ Joint(s) \in AMessages /\ Joint(s).role = "user" /\ Joint(s).content.parts = s
           /\ \A t \in Turns : Spoken(t) => Joined(Joint(s), t) = Joint(s \o PartsOf(t))
  <1>1. Joint(s) \in AMessages
    BY DEF AMessages
  <1>2. Joint(s).role = "user" /\ Joint(s).content.parts = s
    BY DEF Joint, Message, Parts
  <1>3. ASSUME NEW t PROVE Joined(Joint(s), t) = Joint(s \o PartsOf(t))
    BY <1>2, Zenon DEF Joined, PartsOf, Joint
  <1>4. QED
    BY <1>1, <1>2, <1>3

\* A user's message is a joint one, every other one that of a turn.
LEMMA AMessageCases ==
    ASSUME NEW m \in AMessages
    PROVE  /\ m.role \in {"system", "assistant", "user"}
           /\ m.role = "user" => \E s \in Seq(APart) : m = Joint(s)
           /\ m.role # "user" => \E t \in Turns : ~Spoken(t) /\ m = MessagesMessage(t)
  <1>1. CASE \E t \in Turns : ~Spoken(t) /\ m = MessagesMessage(t)
    <2>1. PICK t \in Turns : ~Spoken(t) /\ m = MessagesMessage(t)
      BY <1>1
    <2>2. m.role \in {"system", "assistant"}
      BY <2>1, OwnMessage
    <2>3. QED
      BY <2>1, <2>2
  <1>2. CASE \E s \in Seq(APart) : m = Joint(s)
    BY <1>2, JointFields
  <1>3. QED
    BY <1>1, <1>2 DEF AMessages

\* A turn's own message is one of them.
LEMMA OwnTyped ==
    ASSUME NEW t \in Turns
    PROVE  /\ MessagesMessage(t) \in AMessages
           /\ Spoken(t) => MessagesMessage(t) = Joint(PartsOf(t)) /\ PartsOf(t) \in Seq(APart)
  <1>1. CASE Spoken(t)
    <2>1. PartsOf(t) \in Seq(APart) /\ MessagesMessage(t) = Joint(PartsOf(t))
      BY <1>1, OwnMessage, OwnParts DEF Joint
    <2>2. QED
      BY <2>1, JointFields
  <1>2. CASE ~Spoken(t)
    BY <1>2 DEF AMessages
  <1>3. QED
    BY <1>1, <1>2

\* A turn is added to the last message, or is the next.
LEMMA AddTurnCases ==
    ASSUME NEW ms \in Seq(AMessages), NEW t \in Turns
    PROVE  /\ AddTurn(ms, t) \in Seq(AMessages)
           /\ ~Spoken(t) => AddTurn(ms, t) = Append(ms, MessagesMessage(t))
           /\ Spoken(t) /\ (ms = <<>> \/ Last(ms).role # "user") =>
                 AddTurn(ms, t) = Append(ms, Joint(PartsOf(t)))
           /\ \A f \in Seq(AMessages), s \in Seq(APart) : Spoken(t) /\ ms = Append(f, Joint(s)) =>
                 AddTurn(ms, t) = Append(f, Joint(s \o PartsOf(t)))
           /\ Spoken(t) /\ ms # <<>> /\ Last(ms).role = "user" =>
                 \E f \in Seq(AMessages), s \in Seq(APart) :
                    /\ ms = Append(f, Joint(s))
                    /\ AddTurn(ms, t) = Append(f, Joint(s \o PartsOf(t)))
                    /\ s \o PartsOf(t) \in Seq(APart)
  <1>0. /\ MessagesMessage(t) \in AMessages
        /\ Spoken(t) => MessagesMessage(t) = Joint(PartsOf(t)) /\ PartsOf(t) \in Seq(APart)
    BY OwnTyped
  <1>1. ASSUME ~(Spoken(t) /\ ms # <<>> /\ Last(ms).role = "user")
        PROVE  AddTurn(ms, t) = Append(ms, MessagesMessage(t)) /\ AddTurn(ms, t) \in Seq(AMessages)
    <2>1. AddTurn(ms, t) = Append(ms, MessagesMessage(t))
      BY <1>1 DEF AddTurn
    <2>2. QED
      BY <1>0, <2>1, AppendProperties
  <1>2. ASSUME NEW f \in Seq(AMessages), NEW s \in Seq(APart), Spoken(t), ms = Append(f, Joint(s))
        PROVE  /\ AddTurn(ms, t) = Append(f, Joint(s \o PartsOf(t))) /\ AddTurn(ms, t) \in Seq(AMessages)
               /\ s \o PartsOf(t) \in Seq(APart)
    <2> DEFINE j == Joint(s)
    <2>1. j \in AMessages /\ j.role = "user" /\ Joined(j, t) = Joint(s \o PartsOf(t))
      BY <1>2, JointFields
    <2>2. ms = Append(f, j)
      BY <1>2
    <2> HIDE DEF j
    <2>3. ms # <<>> /\ Last(ms) = j /\ Front(ms) = f
      <3>1. Len(ms) = Len(f) + 1 /\ Len(f) \in Nat /\ ms[Len(f) + 1] = j /\ \A i \in 1..Len(f) : ms[i] = f[i]
        BY <2>1, <2>2, AppendProperties, LenProperties
      <3>2. ms # <<>> /\ Last(ms) = j
        BY <3>1, EmptySeq DEF Last
      <3>3. Front(ms) \in Seq(AMessages) /\ ms = Append(Front(ms), Last(ms))
        BY <3>2, FrontAndLast
      <3>4. Front(ms) = SubSeq(ms, 1, Len(ms) - 1)
        BY DEF Front
      <3> DEFINE g == Front(ms)
      <3>5. Len(g) = Len(f) /\ \A i \in 1..Len(f) : g[i] = f[i]
        BY <3>1, <3>4
      <3>6. g \in Seq(AMessages)
        BY <3>3
      <3> HIDE DEF g
      <3>7. g = f
        BY <3>5, <3>6, SeqEqual
      <3>8. QED
        BY <3>2, <3>7 DEF g
    <2>4. AddTurn(ms, t) = Append(f, Joined(j, t))
      BY <1>2, <2>1, <2>3 DEF AddTurn
    <2>5. s \o PartsOf(t) \in Seq(APart)
      BY <1>0, <1>2, ConcatProperties
    <2>6. Joint(s \o PartsOf(t)) \in AMessages
      BY <2>5, JointFields
    <2>7. QED
      BY <2>1, <2>4, <2>5, <2>6, AppendProperties
  <1>3. ASSUME Spoken(t), ms # <<>>, Last(ms).role = "user"
        PROVE  \E f \in Seq(AMessages), s \in Seq(APart) : ms = Append(f, Joint(s))
    <2>1. Front(ms) \in Seq(AMessages) /\ Last(ms) \in AMessages /\ ms = Append(Front(ms), Last(ms))
      BY <1>3, FrontAndLast
    <2>2. PICK s \in Seq(APart) : Last(ms) = Joint(s)
      BY <1>3, <2>1, AMessageCases
    <2>3. QED
      BY <2>1, <2>2
  <1>4. QED
    BY <1>0, <1>1, <1>2, <1>3

\* Adding a turn is a step.
LEMMA AddTurnIsStep == <<>> \in Seq(AMessages) /\ IsStep(AddTurnStep, Seq(AMessages), Turns)
  <1>1. \A x \in Seq(AMessages) \X Turns : AddTurn(x[1], x[2]) \in Seq(AMessages)
    BY AddTurnCases
  <1>2. QED
    BY <1>1, EmptySeq DEF AddTurnStep, IsStep

\* The messages are a run.
LEMMA MessagesAreRun ==
    ASSUME NEW s \in Seq(Turns)
    PROVE  MessagesMessages(s) = Run(Seq(AMessages), AddTurnStep, <<>>, s)
  <1> DEFINE A == Seq(AMessages)
             Body(f) == [S \in SUBSET (DOMAIN s) |->
                           IF S = {} THEN <<>> ELSE AddTurn(f[S \ {Max(S)}], s[Max(S)])]
             it == CHOOSE f : f = Body(f)
  <1>0. <<>> \in A /\ IsStep(AddTurnStep, A, Turns)
    BY AddTurnIsStep
  <1>1. DOMAIN s = 1..Len(s)
    BY LenProperties
  <1>2. \A a \in A, e \in Turns : AddTurnStep[<<a, e>>] = AddTurn(a, e)
    BY DEF AddTurnStep
  <1> HIDE DEF A
  <1>3. PICK g : Total(g, A, Turns, AddTurnStep, <<>>, s)
    BY <1>0, TotalExists
  <1>4. g = Body(g)
    BY <1>1, <1>2, <1>3 DEF Total
  <1>5. it = Body(it)
    BY <1>4
  <1> HIDE DEF it
  <1>6. Folds(it, A, AddTurnStep, <<>>, s)
    BY <1>1, <1>2, <1>3, <1>5 DEF Folds, Total
  <1>7. it[1..Len(s)] = Run(A, AddTurnStep, <<>>, s)
    BY <1>0, <1>6, FoldValue
  <1>8. MessagesMessages(s) = it[DOMAIN s]
    BY DEF it, MessagesMessages, FoldLeft, MapThenFoldSet
  <1>9. QED
    BY <1>1, <1>7, <1>8 DEF A

\* The messages, one turn at a time.
LEMMA MessagesAppend ==
    ASSUME NEW h \in Seq(Turns), NEW t \in Turns
    PROVE  /\ MessagesMessages(h) \in Seq(AMessages)
           /\ MessagesMessages(Append(h, t)) = AddTurn(MessagesMessages(h), t)
           /\ MessagesMessages(<<>>) = <<>>
  <1> DEFINE A == Seq(AMessages)
  <1>0. <<>> \in A /\ IsStep(AddTurnStep, A, Turns)
    BY AddTurnIsStep
  <1>1. Append(h, t) \in Seq(Turns) /\ <<>> \in Seq(Turns)
    BY AppendProperties, EmptySeq
  <1>2. /\ MessagesMessages(h) = Run(A, AddTurnStep, <<>>, h)
        /\ MessagesMessages(Append(h, t)) = Run(A, AddTurnStep, <<>>, Append(h, t))
        /\ MessagesMessages(<<>>) = Run(A, AddTurnStep, <<>>, <<>>)
    BY <1>1, MessagesAreRun
  <1>3. \A a \in A : AddTurnStep[<<a, t>>] = AddTurn(a, t)
    BY DEF AddTurnStep
  <1> HIDE DEF A
  <1>4. /\ Run(A, AddTurnStep, <<>>, h) \in A
        /\ Run(A, AddTurnStep, <<>>, Append(h, t)) = AddTurnStep[<<Run(A, AddTurnStep, <<>>, h), t>>]
    BY <1>0, RunAppend
  <1>5. Run(A, AddTurnStep, <<>>, <<>>) = <<>>
    BY <1>0, RunEmpty DEF IsStep
  <1>6. QED
    BY <1>2, <1>3, <1>4, <1>5 DEF A

\* What becomes of the messages of others than the user becomes of their turns.
LEMMA UnspokenMapped ==
    ASSUME NEW X, NEW f, IsMap(f, AMessages, X), \A s \in Seq(APart) : f[Joint(s)] = <<>>,
           NEW g, IsMap(g, Turns, X), \A t \in Turns : g[t] = f[MessagesMessage(t)]
    PROVE  \A h \in Seq(Turns) : Each(f, MessagesMessages(h)) = Each(g, h)
  <1> DEFINE T == {h \in Seq(Turns) : Each(f, MessagesMessages(h)) = Each(g, h)}
  <1>1. <<>> \in T
    <2>1. MessagesMessages(<<>>) = <<>>
      <3>1. <<>> \in Seq(Turns)
        BY EmptySeq
      <3>2. MessagesMessages(<<>>) = Run(Seq(AMessages), AddTurnStep, <<>>, <<>>)
        BY <3>1, MessagesAreRun
      <3>3. Run(Seq(AMessages), AddTurnStep, <<>>, <<>>) = <<>>
        BY AddTurnIsStep, RunEmpty DEF IsStep
      <3>4. QED
        BY <3>2, <3>3
    <2>2. QED
      BY <2>1, EachEmpty, EmptySeq
  <1>2. ASSUME NEW h \in Seq(Turns), NEW t \in Turns, h \in T PROVE Append(h, t) \in T
    <2> DEFINE ms == MessagesMessages(h)
               k == MessagesMessages(Append(h, t))
    <2>1. ms \in Seq(AMessages) /\ k = AddTurn(ms, t) /\ Append(h, t) \in Seq(Turns)
      BY MessagesAppend, AppendProperties
    <2>2. Each(f, ms) = Each(g, h)
      BY <1>2
    <2>3. Each(g, Append(h, t)) = Each(g, h) \o f[MessagesMessage(t)]
      <3>1. Each(g, Append(h, t)) = Each(g, h) \o g[t]
        BY EachProperties
      <3>2. QED
        BY <3>1
    <2> HIDE DEF ms, k
    <2>4. \A m \in AMessages : Each(f, Append(ms, m)) = Each(f, ms) \o f[m] /\ Each(f, ms) \in Seq(X)
      BY <2>1, EachProperties
    <2>5. CASE ~(Spoken(t) /\ ms # <<>> /\ Last(ms).role = "user")
      <3>1. MessagesMessage(t) \in AMessages /\ k = Append(ms, MessagesMessage(t))
        BY <2>1, <2>5, AddTurnCases, OwnTyped
      <3>2. Each(f, k) = Each(g, Append(h, t))
        BY <2>2, <2>3, <2>4, <3>1
      <3>3. QED
        BY <2>1, <3>2 DEF k
    <2>6. CASE Spoken(t) /\ ms # <<>> /\ Last(ms).role = "user"
      <3>1. PICK l \in Seq(AMessages), s \in Seq(APart) :
               /\ ms = Append(l, Joint(s)) /\ k = Append(l, Joint(s \o PartsOf(t)))
               /\ s \o PartsOf(t) \in Seq(APart)
        BY <2>1, <2>6, AddTurnCases
      <3>2. Joint(s) \in AMessages /\ Joint(s \o PartsOf(t)) \in AMessages
        BY <3>1, JointFields
      <3>3. \A m \in AMessages : Each(f, Append(l, m)) = Each(f, l) \o f[m]
        BY EachProperties
      <3>4. f[Joint(s)] = <<>> /\ f[Joint(s \o PartsOf(t))] = <<>> /\ f[MessagesMessage(t)] = <<>>
        BY <2>6, <3>1, OwnTyped
      <3>5. Each(f, k) = Each(f, ms)
        BY <3>1, <3>2, <3>3, <3>4
      <3>6. Each(g, h) \o <<>> = Each(g, h)
        <4>1. Each(g, h) \in Seq(X)
          BY EachTyped
        <4>2. QED
          BY <4>1, ConcatEmptySeq
      <3>7. QED
        BY <2>1, <2>2, <2>3, <3>4, <3>5, <3>6 DEF k
    <2>7. QED
      BY <2>5, <2>6
  <1> HIDE DEF T
  <1>3. \A h \in Seq(Turns) : h \in T
    BY <1>1, <1>2, SeqInduction
  <1>4. QED
    BY <1>3 DEF T
-----------------------------------------------------------------------------
(* Messages: what is sent of the messages. *)

\* What becomes of a message, and its parts with their role.
SaidOf(names) == [m \in AMessages |-> IF m.role = "system" THEN <<>>
                                      ELSE NonEmpty(anthropicMessageToCommandCode(m, names))]
TaggedOf(names) == [m \in AMessages |-> Each(TagOf, SaidOf(names)[m])]

\* The parts of a message are converted.
LEMMA AContentIsEach ==
    ASSUME NEW names, NEW m, NEW ps \in Seq(APart), m.content.parts = ps
    PROVE  /\ anthropicMessageToCommandCode(m, names)
                 = CommandCodeMessage(RoleOf(m.role, Each(AOfPart(names), ps)), Each(AOfPart(names), ps))
           /\ Each(AOfPart(names), ps) \in Seq(OutPart)
  <1>1. DOMAIN ps = 1..Len(ps) /\ \A i \in 1..Len(ps) : ps[i] \in APart
    BY LenProperties, ElementOfSeq
  <1>2. [i \in DOMAIN ps |-> anthropicContentPartToCommandCode(ps[i], names)]
            = [i \in DOMAIN ps |-> AOfPart(names)[ps[i]]]
    BY <1>1 DEF AOfPart
  <1>3. FlattenSeq([i \in DOMAIN ps |-> anthropicContentPartToCommandCode(ps[i], names)])
            = Each(AOfPart(names), ps)
    BY <1>2, Zenon DEF Each
  <1>4. anthropicMessageToCommandCode(m, names)
           = CommandCodeMessage(RoleOf(m.role, Each(AOfPart(names), ps)), Each(AOfPart(names), ps))
    BY <1>3, Zenon DEF anthropicMessageToCommandCode
  <1>5. Each(AOfPart(names), ps) \in Seq(OutPart)
    BY AOfPartIsMap, EachTyped
  <1>6. QED
    BY <1>4, <1>5

\* What is sent of the message of another than the user.
LEMMA UnspokenTagged ==
    ASSUME NEW t \in Turns, ~Spoken(t), NEW names, NEW user
    PROVE  /\ SaidOf(names)[MessagesMessage(t)] \in Seq(Sound)
           /\ TaggedOf(names)[MessagesMessage(t)] = SentBy("messages", t, names, user)
  <1> DEFINE m == MessagesMessage(t)
             ps == SentParts("messages", t, names)
  <1>0. "messages" \in APIs /\ m \in AMessages
    BY OwnTyped DEF APIs
  <1>1. CASE t.kind = "system"
    <2>1. m.role = "system"
      BY <1>1, OwnMessage
    <2>2. SaidOf(names)[m] = <<>>
      BY <1>0, <2>1 DEF SaidOf
    <2>3. TaggedOf(names)[m] = <<>>
      BY <1>0, <2>2, EachEmpty DEF TaggedOf
    <2>4. SentBy("messages", t, names, user) = <<>>
      BY <1>1 DEF SentBy, SentParts, Tagged
    <2>5. QED
      BY <2>2, <2>3, <2>4, EmptySeq
  <1>2. CASE t.kind = "answer"
    <2>1. m.role = "assistant" /\ SentRole(t, user) = "assistant" /\ "assistant" \in Roles
      BY <1>2, OwnMessage DEF SentRole, Roles
    <2>2. PartsOf(t) \in Seq(APart) /\ Each(AOfPart(names), PartsOf(t)) = ps
      BY <1>2, OwnParts
    <2>3. /\ anthropicMessageToCommandCode(m, names) = CommandCodeMessage(RoleOf(m.role, ps), ps)
          /\ ps \in Seq(OutPart)
      <3> DEFINE q == PartsOf(t)
      <3>1. q \in Seq(APart) /\ m.content.parts = q /\ Each(AOfPart(names), q) = ps
        BY <2>2 DEF PartsOf
      <3> HIDE DEF q, m, ps
      <3>2. QED
        BY <3>1, AContentIsEach
    <2>4. ~commandCodeContentHasType(ps, "tool-result")
      BY <1>0, <1>2, HasResult
    <2> HIDE DEF ps, m
    <2>5. RoleOf(m.role, ps) = "assistant"
      BY <2>1, <2>4 DEF RoleOf
    <2>6. SaidOf(names)[m] = NonEmpty(CommandCodeMessage("assistant", ps))
      BY <1>0, <2>1, <2>3, <2>5 DEF SaidOf
    <2>7. SaidOf(names)[m] \in Seq(Sound)
      BY <2>1, <2>3, <2>4, <2>6, SoundMessage
    <2>8. Each(TagOf, NonEmpty(CommandCodeMessage("assistant", ps))) = Tagged("assistant", ps)
      BY <2>1, <2>3, <2>4, SaidParts
    <2>9. TaggedOf(names)[m] = Tagged("assistant", ps)
      BY <1>0, <2>6, <2>8 DEF TaggedOf
    <2>10. QED
      BY <2>1, <2>7, <2>9 DEF SentBy, m, ps
  <1>3. QED
    BY <1>1, <1>2, OwnMessage

\* What is sent of a joint message.
LEMMA JointTagged ==
    ASSUME NEW s \in Seq(APart), NEW names
    PROVE  /\ SaidOf(names)[Joint(s)] \in Seq(Sound)
           /\ TaggedOf(names)[Joint(s)]
                 = Tagged(RoleOf("user", Each(AOfPart(names), s)), Each(AOfPart(names), s))
           /\ Each(AOfPart(names), s) \in Seq(OutPart)
  <1> DEFINE m == Joint(s)
             ps == Each(AOfPart(names), s)
             role == RoleOf("user", ps)
  <1>1. m \in AMessages /\ m.role = "user" /\ m.content.parts = s
    BY JointFields
  <1>2. /\ anthropicMessageToCommandCode(m, names) = CommandCodeMessage(RoleOf(m.role, ps), ps)
        /\ ps \in Seq(OutPart)
    <2> HIDE DEF m
    <2>1. QED
      BY <1>1, AContentIsEach
  <1> HIDE DEF ps, m
  <1>3. role \in Roles /\ (commandCodeContentHasType(ps, "tool-result") => role = "tool")
    BY DEF RoleOf, Roles
  <1> HIDE DEF role
  <1>4. SaidOf(names)[m] = NonEmpty(CommandCodeMessage(role, ps))
    BY <1>1, <1>2 DEF SaidOf, role
  <1>5. SaidOf(names)[m] \in Seq(Sound)
    BY <1>2, <1>3, <1>4, SoundMessage
  <1>6. Each(TagOf, NonEmpty(CommandCodeMessage(role, ps))) = Tagged(role, ps)
    BY <1>2, <1>3, SaidParts
  <1>7. TaggedOf(names)[m] = Tagged(role, ps)
    BY <1>1, <1>4, <1>6 DEF TaggedOf
  <1>8. QED
    BY <1>2, <1>5, <1>7 DEF role, m, ps

\* Both are sequences of what they should be.
LEMMA SaidIsMap ==
    ASSUME NEW names
    PROVE  IsMap(SaidOf(names), AMessages, Sound) /\ IsMap(TaggedOf(names), AMessages, TaggedPart)
  <1>1. ASSUME NEW m \in AMessages PROVE SaidOf(names)[m] \in Seq(Sound)
    <2>1. CASE m.role = "user"
      BY <2>1, AMessageCases, JointTagged
    <2>2. CASE m.role # "user"
      BY <2>2, AMessageCases, UnspokenTagged
    <2>3. QED
      BY <2>1, <2>2
  <1>2. SaidOf(names) = [m \in AMessages |-> SaidOf(names)[m]]
    BY DEF SaidOf
  <1>3. IsMap(SaidOf(names), AMessages, Sound)
    BY <1>1, <1>2 DEF IsMap
  <1>4. ASSUME NEW m \in AMessages PROVE Each(TagOf, SaidOf(names)[m]) \in Seq(TaggedPart)
    <2>1. SaidOf(names)[m] \in Seq(Out)
      BY <1>1, SoundMessages
    <2>2. QED
      BY <2>1, TagIsMap, EachTyped
  <1>5. IsMap(TaggedOf(names), AMessages, TaggedPart)
    BY <1>4 DEF IsMap, TaggedOf
  <1>6. QED
    BY <1>3, <1>5

\* What the user and the tools say in a row.
SpokenTurns == {t \in Turns : Spoken(t)}
PartsFun == [t \in SpokenTurns |-> PartsOf(t)]
SentFun(names) == [t \in SpokenTurns |-> SentParts("messages", t, names)]
HasAnswer(h) == \E i \in DOMAIN h : h[i].kind = "result"
RoleIn(u) == IF HasAnswer(u) THEN "tool" ELSE "user"

\* What is sent of it: all with the role of the tool, if one has answered.
LEMMA GroupTagged ==
    ASSUME NEW u \in Seq(SpokenTurns), NEW names
    PROVE  /\ Each(PartsFun, u) \in Seq(APart)
           /\ TaggedOf(names)[Joint(Each(PartsFun, u))]
                 = FlattenSeq([i \in DOMAIN u |-> SentBy("messages", u[i], names, RoleIn(u))])
  <1> DEFINE s == Each(PartsFun, u)
             c == Each(AOfPart(names), s)
             ss == [i \in DOMAIN u |-> SentParts("messages", u[i], names)]
             g == [p \in OutPart |-> [role |-> RoleIn(u), part |-> p]]
  <1>0. "messages" \in APIs /\ RoleIn(u) \in Roles
    BY DEF APIs, RoleIn, Roles
  <1>1. /\ DOMAIN u = 1..Len(u) /\ Len(u) \in Nat
        /\ \A i \in 1..Len(u) : u[i] \in SpokenTurns /\ u[i] \in Turns /\ u[i].kind \in {"user", "result"}
    BY LenProperties, ElementOfSeq, OwnMessage DEF SpokenTurns
  <1>2. IsMap(PartsFun, SpokenTurns, APart)
    BY OwnTyped DEF IsMap, PartsFun, SpokenTurns
  <1>3. \A t \in SpokenTurns : t \in Turns /\ t.kind # "system"
    BY OwnMessage DEF SpokenTurns
  <1>4. s \in Seq(APart)
    BY <1>2, EachTyped
  <1>5. c = Each(SentFun(names), u)
    <2>1. \A t \in SpokenTurns : SentFun(names)[t] = Each(AOfPart(names), PartsFun[t])
      BY <1>3, OwnParts DEF SentFun, PartsFun
    <2>2. QED
      BY <1>2, <2>1, AOfPartIsMap, EachEach
  <1>6. Each(SentFun(names), u) = FlattenSeq(ss)
    <2>1. [i \in DOMAIN u |-> SentFun(names)[u[i]]] = ss
      BY <1>1 DEF SentFun
    <2>2. QED
      BY <2>1, Zenon DEF Each
  <1>7. ss \in Seq(Seq(OutPart)) /\ DOMAIN ss = DOMAIN u
        /\ \A i \in DOMAIN u : ss[i] = SentParts("messages", u[i], names)
    BY <1>0, <1>1, SentTypes
  <1>8. TaggedOf(names)[Joint(s)] = Tagged(RoleOf("user", c), c) /\ c \in Seq(OutPart)
    BY <1>4, JointTagged
  <1> HIDE DEF s, c, ss
  <1>9. commandCodeContentHasType(c, "tool-result") <=> HasAnswer(u)
    <2>1. commandCodeContentHasType(c, "tool-result") <=> \E p \in ToSet(c) : p.type = "tool-result"
      BY DEF commandCodeContentHasType, ToSet
    <2>2. ToSet(c) = UNION {ToSet(ss[i]) : i \in DOMAIN ss}
      BY <1>5, <1>6, <1>7, ElementsOfFlatten
    <2>3. \A i \in DOMAIN u : (\E p \in ToSet(ss[i]) : p.type = "tool-result") <=> u[i].kind = "result"
      <3> SUFFICES ASSUME NEW i \in DOMAIN u
                   PROVE  (\E p \in ToSet(ss[i]) : p.type = "tool-result") <=> u[i].kind = "result"
        OBVIOUS
      <3>1. commandCodeContentHasType(SentParts("messages", u[i], names), "tool-result")
               <=> u[i].kind = "result"
        BY <1>0, <1>1, HasResult
      <3>2. commandCodeContentHasType(ss[i], "tool-result")
               <=> \E p \in ToSet(ss[i]) : p.type = "tool-result"
        BY DEF commandCodeContentHasType, ToSet
      <3>3. QED
        BY <1>7, <3>1, <3>2
    <2>4. QED
      BY <1>7, <2>1, <2>2, <2>3 DEF HasAnswer
  <1>10. RoleOf("user", c) = RoleIn(u)
    BY <1>9 DEF RoleOf, RoleIn
  <1>11. Tagged(RoleIn(u), c) = Mapped(g, c) /\ IsFun(g, OutPart, TaggedPart)
    BY <1>0, <1>8, TaggedProperties
  <1>12. \A i \in DOMAIN u : SentBy("messages", u[i], names, RoleIn(u)) = Mapped(g, ss[i])
    <2> SUFFICES ASSUME NEW i \in DOMAIN u
                 PROVE  SentBy("messages", u[i], names, RoleIn(u)) = Mapped(g, ss[i])
      OBVIOUS
    <2>1. SentRole(u[i], RoleIn(u)) = RoleIn(u)
      BY <1>1 DEF SentRole, RoleIn, HasAnswer
    <2>2. ss[i] \in Seq(OutPart)
      BY <1>0, <1>1, <1>7, SentTypes
    <2>3. Tagged(RoleIn(u), ss[i]) = Mapped(g, ss[i])
      BY <1>0, <2>2, TaggedProperties
    <2>4. QED
      BY <1>7, <2>1, <2>3 DEF SentBy
  <1> HIDE DEF g
  <1>13. Mapped(g, FlattenSeq(ss)) = FlattenSeq([i \in DOMAIN ss |-> Mapped(g, ss[i])])
    BY <1>7, <1>11, MappedFlatten
  <1>14. [i \in DOMAIN ss |-> Mapped(g, ss[i])]
            = [i \in DOMAIN u |-> SentBy("messages", u[i], names, RoleIn(u))]
    BY <1>7, <1>12
  <1>15. QED
    BY <1>4, <1>5, <1>6, <1>8, <1>10, <1>11, <1>13, <1>14 DEF s
-----------------------------------------------------------------------------
(* Messages: turns in groups. *)

\* A tool has answered in what is said in a row with turn i.
ResultNear(h, i) ==
    \E j \in DOMAIN h : /\ h[j].kind = "result"
                        /\ \A k \in DOMAIN h : (i <= k /\ k <= j) \/ (j <= k /\ k <= i) => Spoken(h[k])
UserOf(h, i) == IF ResultNear(h, i) THEN "tool" ELSE "user"

\* What is sent of each turn.
SentA(h, names) == [i \in DOMAIN h |-> SentBy("messages", h[i], names, UserOf(h, i))]

\* Nothing said at the end of the first part goes on in the second.
Parted(g, u) == g = <<>> \/ u = <<>> \/ ~Spoken(g[Len(g)]) \/ ~Spoken(u[1])

\* What is near a turn is in its own part.
LEMMA NearParts ==
    ASSUME NEW g \in Seq(Turns), NEW u \in Seq(Turns), Parted(g, u)
    PROVE  /\ \A i \in 1..Len(g) : ResultNear(g \o u, i) <=> ResultNear(g, i)
           /\ \A i \in 1..Len(u) : ResultNear(g \o u, Len(g) + i) <=> ResultNear(u, i)
  <1> DEFINE h == g \o u
             n == Len(g)
             m == Len(u)
  <1>1. /\ DOMAIN h = 1..(n + m) /\ DOMAIN g = 1..n /\ DOMAIN u = 1..m /\ n \in Nat /\ m \in Nat
        /\ \A i \in 1..n : h[i] = g[i]
        /\ \A i \in 1..m : h[n + i] = u[i]
        /\ (g # <<>> => n >= 1) /\ (u # <<>> => m >= 1)
        /\ (g = <<>> => n = 0) /\ (u = <<>> => m = 0)
    BY ConcatParts, EmptySeq
  <1>2. n >= 1 /\ m >= 1 => ~Spoken(h[n]) \/ ~Spoken(h[n + 1])
    BY <1>1 DEF Parted
  <1> HIDE DEF h, n, m
  <1>3. ASSUME NEW i \in 1..n PROVE ResultNear(h, i) <=> ResultNear(g, i)
    <2>1. ASSUME ResultNear(g, i) PROVE ResultNear(h, i)
      <3>1. PICK j \in 1..n : /\ g[j].kind = "result"
                              /\ \A k \in 1..n : (i <= k /\ k <= j) \/ (j <= k /\ k <= i) => Spoken(g[k])
        BY <1>1, <2>1 DEF ResultNear
      <3>2. j \in DOMAIN h /\ h[j].kind = "result"
        BY <1>1, <3>1
      <3>3. ASSUME NEW k \in DOMAIN h, (i <= k /\ k <= j) \/ (j <= k /\ k <= i) PROVE Spoken(h[k])
        <4>1. k \in 1..n
          BY <1>1, <3>3
        <4>2. QED
          BY <1>1, <3>1, <3>3, <4>1
      <3>4. QED
        BY <3>2, <3>3 DEF ResultNear
    <2>2. ASSUME ResultNear(h, i) PROVE ResultNear(g, i)
      <3>1. PICK j \in 1..(n + m) :
               /\ h[j].kind = "result"
               /\ \A k \in 1..(n + m) : (i <= k /\ k <= j) \/ (j <= k /\ k <= i) => Spoken(h[k])
        BY <1>1, <2>2 DEF ResultNear
      <3>2. j \in 1..n
        <4>1. CASE j > n
          <5>1. n \in 1..(n + m) /\ n + 1 \in 1..(n + m) /\ i <= n /\ n <= j /\ i <= n + 1 /\ n + 1 <= j
                /\ n >= 1 /\ m >= 1
            BY <1>1, <4>1
          <5>2. Spoken(h[n]) /\ Spoken(h[n + 1])
            BY <3>1, <5>1
          <5>3. QED
            BY <1>2, <5>1, <5>2
        <4>2. QED
          BY <1>1, <4>1
      <3>3. ASSUME NEW k \in 1..n, (i <= k /\ k <= j) \/ (j <= k /\ k <= i) PROVE Spoken(g[k])
        <4>1. k \in 1..(n + m) /\ h[k] = g[k]
          BY <1>1
        <4>2. Spoken(h[k])
          BY <3>1, <3>3, <4>1
        <4>3. QED
          BY <4>1, <4>2
      <3>4. QED
        BY <1>1, <3>1, <3>2, <3>3 DEF ResultNear
    <2>3. QED
      BY <2>1, <2>2
  <1>4. ASSUME NEW i \in 1..m PROVE ResultNear(h, n + i) <=> ResultNear(u, i)
    <2>1. ASSUME ResultNear(u, i) PROVE ResultNear(h, n + i)
      <3>1. PICK j \in 1..m : /\ u[j].kind = "result"
                              /\ \A k \in 1..m : (i <= k /\ k <= j) \/ (j <= k /\ k <= i) => Spoken(u[k])
        BY <1>1, <2>1 DEF ResultNear
      <3>2. n + j \in DOMAIN h /\ h[n + j].kind = "result"
        BY <1>1, <3>1
      <3>3. ASSUME NEW k \in DOMAIN h, (n + i <= k /\ k <= n + j) \/ (n + j <= k /\ k <= n + i)
            PROVE  Spoken(h[k])
        <4> DEFINE l == k - n
        <4>1. l \in 1..m /\ k = n + l /\ ((i <= l /\ l <= j) \/ (j <= l /\ l <= i))
          BY <1>1, <3>3
        <4> HIDE DEF l
        <4>2. QED
          BY <1>1, <3>1, <4>1
      <3>4. QED
        BY <3>2, <3>3 DEF ResultNear
    <2>2. ASSUME ResultNear(h, n + i) PROVE ResultNear(u, i)
      <3>1. PICK j \in 1..(n + m) :
               /\ h[j].kind = "result"
               /\ \A k \in 1..(n + m) : (n + i <= k /\ k <= j) \/ (j <= k /\ k <= n + i) => Spoken(h[k])
        BY <1>1, <2>2 DEF ResultNear
      <3>2. j > n
        <4>1. CASE ~(j > n)
          <5>1. n \in 1..(n + m) /\ n + 1 \in 1..(n + m) /\ j <= n /\ n <= n + i /\ j <= n + 1
                /\ n + 1 <= n + i /\ n >= 1 /\ m >= 1
            BY <1>1, <4>1
          <5>2. Spoken(h[n]) /\ Spoken(h[n + 1])
            BY <3>1, <5>1
          <5>3. QED
            BY <1>2, <5>1, <5>2
        <4>2. QED
          BY <4>1
      <3> DEFINE l == j - n
      <3>3. l \in 1..m /\ j = n + l
        BY <1>1, <3>2
      <3> HIDE DEF l
      <3>4. ASSUME NEW k \in 1..m, (i <= k /\ k <= l) \/ (l <= k /\ k <= i) PROVE Spoken(u[k])
        <4>1. n + k \in 1..(n + m) /\ h[n + k] = u[k]
              /\ ((n + i <= n + k /\ n + k <= j) \/ (j <= n + k /\ n + k <= n + i))
          BY <1>1, <3>3, <3>4
        <4>2. QED
          BY <3>1, <4>1
      <3>5. u[l].kind = "result"
        BY <1>1, <3>1, <3>3
      <3>6. QED
        BY <1>1, <3>3, <3>4, <3>5 DEF ResultNear
    <2>3. QED
      BY <2>1, <2>2
  <1>5. QED
    BY <1>3, <1>4 DEF h, n, m

\* What is sent of each part.
LEMMA SentParted ==
    ASSUME NEW g \in Seq(Turns), NEW u \in Seq(Turns), Parted(g, u), NEW names
    PROVE  /\ SentA(g, names) \in Seq(Seq(TaggedPart))
           /\ FlattenSeq(SentA(g \o u, names))
                 = FlattenSeq(SentA(g, names)) \o FlattenSeq(SentA(u, names))
  <1>0. "messages" \in APIs
    BY DEF APIs
  <1>1. ASSUME NEW s \in Seq(Turns)
        PROVE  /\ SentA(s, names) \in Seq(Seq(TaggedPart)) /\ Len(SentA(s, names)) = Len(s)
               /\ \A i \in 1..Len(s) :
                     SentA(s, names)[i] = SentBy("messages", s[i], names, UserOf(s, i))
    <2>1. DOMAIN s = 1..Len(s) /\ Len(s) \in Nat /\ \A i \in 1..Len(s) : s[i] \in Turns
      BY LenProperties, ElementOfSeq
    <2>2. \A i \in 1..Len(s) : SentBy("messages", s[i], names, UserOf(s, i)) \in Seq(TaggedPart)
      BY <1>0, <2>1, SentByTypes DEF UserOf
    <2>3. QED
      BY <2>1, <2>2 DEF SentA
  <1> DEFINE h == g \o u
             a == SentA(g, names)
             b == SentA(u, names)
             c == SentA(h, names)
  <1>2. /\ h \in Seq(Turns) /\ Len(h) = Len(g) + Len(u) /\ Len(g) \in Nat /\ Len(u) \in Nat
        /\ \A i \in 1..Len(g) : h[i] = g[i]
        /\ \A i \in 1..Len(u) : h[Len(g) + i] = u[i]
    BY ConcatParts
  <1>3. /\ a \in Seq(Seq(TaggedPart)) /\ b \in Seq(Seq(TaggedPart)) /\ c \in Seq(Seq(TaggedPart))
        /\ Len(a) = Len(g) /\ Len(b) = Len(u) /\ Len(c) = Len(g) + Len(u)
    BY <1>1, <1>2
  <1>4. \A i \in 1..Len(g) : c[i] = a[i]
    <2>1. \A i \in 1..Len(g) : UserOf(h, i) = UserOf(g, i)
      BY NearParts DEF UserOf
    <2>2. SUFFICES ASSUME NEW i \in 1..Len(g) PROVE c[i] = a[i]
      OBVIOUS
    <2>3. a[i] = SentBy("messages", g[i], names, UserOf(g, i))
      BY <1>1
    <2>4. i \in 1..Len(h) /\ h[i] = g[i] /\ UserOf(h, i) = UserOf(g, i)
      BY <1>2, <2>1
    <2>5. c[i] = SentBy("messages", h[i], names, UserOf(h, i))
      <3> HIDE DEF h, a
      <3>1. QED
        BY <1>1, <1>2, <2>4
    <2>6. QED
      BY ONLY <2>3, <2>4, <2>5
  <1>5. \A i \in 1..Len(u) : c[Len(g) + i] = b[i]
    <2>1. \A i \in 1..Len(u) : UserOf(h, Len(g) + i) = UserOf(u, i)
      BY NearParts DEF UserOf
    <2>2. SUFFICES ASSUME NEW i \in 1..Len(u) PROVE c[Len(g) + i] = b[i]
      OBVIOUS
    <2>3. b[i] = SentBy("messages", u[i], names, UserOf(u, i))
      BY <1>1
    <2>4. Len(g) + i \in 1..Len(h) /\ h[Len(g) + i] = u[i] /\ UserOf(h, Len(g) + i) = UserOf(u, i)
      BY <1>2, <2>1
    <2>5. c[Len(g) + i] = SentBy("messages", h[Len(g) + i], names, UserOf(h, Len(g) + i))
      <3> HIDE DEF h, b
      <3>1. QED
        BY <1>1, <1>2, <2>4
    <2>6. QED
      BY ONLY <2>3, <2>4, <2>5
  <1> HIDE DEF h, a, b, c
  <1>6. /\ a \o b \in Seq(Seq(TaggedPart)) /\ Len(a \o b) = Len(a) + Len(b)
        /\ \A i \in 1..Len(a) : (a \o b)[i] = a[i]
        /\ \A i \in 1..Len(b) : (a \o b)[Len(a) + i] = b[i]
    <2> DEFINE Q == Seq(TaggedPart)
    <2>1. a \in Seq(Q) /\ b \in Seq(Q)
      BY <1>3
    <2> HIDE DEF Q
    <2>2. /\ a \o b \in Seq(Q) /\ Len(a \o b) = Len(a) + Len(b)
          /\ \A i \in 1..Len(a) : (a \o b)[i] = a[i]
          /\ \A i \in 1..Len(b) : (a \o b)[Len(a) + i] = b[i]
      BY <2>1, ConcatParts
    <2>3. QED
      BY <2>2 DEF Q
  <1>7. \A i \in 1..Len(c) : c[i] = (a \o b)[i]
    <2> SUFFICES ASSUME NEW i \in 1..Len(c) PROVE c[i] = (a \o b)[i]
      OBVIOUS
    <2>1. CASE i <= Len(g)
      BY <1>2, <1>3, <1>4, <1>6, <2>1
    <2>2. CASE i > Len(g)
      <3> DEFINE l == i - Len(g)
      <3>1. l \in 1..Len(u) /\ i = Len(g) + l
        BY <1>2, <1>3, <2>2
      <3> HIDE DEF l
      <3>2. QED
        BY <1>3, <1>5, <1>6, <3>1
    <2>3. QED
      BY <1>2, <1>3, <2>1, <2>2
  <1>8. c = a \o b
    BY <1>3, <1>6, <1>7, SeqEqual
  <1>9. FlattenSeq(a \o b) = FlattenSeq(a) \o FlattenSeq(b)
    BY <1>3, FlattenConcat
  <1>10. QED
    BY <1>3, <1>8, <1>9 DEF h, a, b, c
-----------------------------------------------------------------------------
(* Messages: the last group of a history. *)

\* The history is g and then what has been said in a row since; the messages are
\* those of g, with the joint message of the group.
Group(h, g, u, names) ==
    /\ g \in Seq(Turns) /\ u \in Seq(SpokenTurns) /\ h = g \o u
    /\ g # <<>> => ~Spoken(g[Len(g)])
    /\ MessagesMessages(h) = IF u = <<>> THEN MessagesMessages(g)
                             ELSE Append(MessagesMessages(g), Joint(Each(PartsFun, u)))
    /\ MessagesMessages(g) # <<>> => Last(MessagesMessages(g)).role # "user"
    /\ Each(TaggedOf(names), MessagesMessages(g)) = FlattenSeq(SentA(g, names))

\* The messages are messages.
LEMMA MessagesTyped ==
    ASSUME NEW h \in Seq(Turns)
    PROVE  MessagesMessages(h) \in Seq(AMessages)
  <1>1. CASE h = <<>>
    <2>1. MessagesMessages(h) = <<>>
      BY <1>1, MessagesAreRun, AddTurnIsStep, RunEmpty, EmptySeq DEF IsStep
    <2>2. QED
      BY <2>1, EmptySeq
  <1>2. CASE h # <<>>
    <2>1. Len(h) \in Nat /\ Len(h) >= 1 /\ \A i \in 1..Len(h) : h[i] \in Turns
      BY <1>2, EmptySeq, LenProperties, ElementOfSeq
    <2>2. h[1] \in Turns
      BY <2>1
    <2>3. QED
      BY <2>2, MessagesAppend
  <1>3. QED
    BY <1>1, <1>2

\* What is said in a row is a part of the history.
LEMMA SpokenSeq ==
    ASSUME NEW u \in Seq(SpokenTurns)
    PROVE  u \in Seq(Turns) /\ \A i \in DOMAIN u : Spoken(u[i]) /\ u[i] \in SpokenTurns
  <1>1. DOMAIN u = 1..Len(u) /\ Len(u) \in Nat /\ \A i \in 1..Len(u) : u[i] \in SpokenTurns
    BY LenProperties, ElementOfSeq
  <1>2. u = [i \in 1..Len(u) |-> u[i]]
    BY <1>1, LenProperties
  <1>3. \A i \in 1..Len(u) : u[i] \in Turns /\ Spoken(u[i])
    BY <1>1 DEF SpokenTurns
  <1>4. QED
    BY <1>1, <1>2, <1>3

\* In a history of spoken turns every turn is near every answer.
LEMMA AllSpoken ==
    ASSUME NEW u \in Seq(SpokenTurns), NEW names
    PROVE  SentA(u, names) = [i \in DOMAIN u |-> SentBy("messages", u[i], names, RoleIn(u))]
  <1>1. \A i \in DOMAIN u : ResultNear(u, i) <=> HasAnswer(u)
    BY SpokenSeq DEF ResultNear, HasAnswer
  <1>2. \A i \in DOMAIN u : UserOf(u, i) = RoleIn(u)
    BY <1>1 DEF UserOf, RoleIn
  <1>3. QED
    BY <1>2 DEF SentA

\* What is sent of a history, when that of its groups is known.
LEMMA GroupSent ==
    ASSUME NEW h, NEW g, NEW u, NEW names, Group(h, g, u, names)
    PROVE  Each(TaggedOf(names), MessagesMessages(h)) = FlattenSeq(SentA(h, names))
  <1>1. /\ g \in Seq(Turns) /\ u \in Seq(SpokenTurns) /\ u \in Seq(Turns) /\ h = g \o u
        /\ Parted(g, u)
    BY SpokenSeq DEF Group, Parted
  <1> DEFINE ms == MessagesMessages(g)
             j == Joint(Each(PartsFun, u))
  <1>2. MessagesMessages(h) = (IF u = <<>> THEN ms ELSE Append(ms, j))
        /\ Each(TaggedOf(names), ms) = FlattenSeq(SentA(g, names))
    BY DEF Group
  <1>3. FlattenSeq(SentA(h, names)) = FlattenSeq(SentA(g, names)) \o FlattenSeq(SentA(u, names))
        /\ SentA(g, names) \in Seq(Seq(TaggedPart))
    BY <1>1, SentParted
  <1>4. CASE u = <<>>
    <2>1. g \o <<>> = g
      BY <1>1, ConcatEmptySeq
    <2>2. QED
      BY <1>1, <1>2, <1>4, <2>1
  <1>5. CASE u # <<>>
    <2>1. Each(PartsFun, u) \in Seq(APart)
          /\ TaggedOf(names)[j] = FlattenSeq([i \in DOMAIN u |-> SentBy("messages", u[i], names, RoleIn(u))])
      BY <1>1, GroupTagged
    <2>2. TaggedOf(names)[j] = FlattenSeq(SentA(u, names))
      BY <1>1, <2>1, AllSpoken
    <2>3. j \in AMessages /\ ms \in Seq(AMessages)
      <3>1. j \in AMessages
        BY <2>1, JointFields
      <3>2. ms \in Seq(AMessages)
        BY <1>1, MessagesTyped
      <3>3. QED
        BY <3>1, <3>2
    <2>4. MessagesMessages(h) = Append(ms, j)
      BY <1>2, <1>5
    <2> HIDE DEF ms, j
    <2>5. Each(TaggedOf(names), Append(ms, j)) = Each(TaggedOf(names), ms) \o TaggedOf(names)[j]
      BY <2>3, SaidIsMap, EachProperties
    <2>6. QED
      BY <1>2, <1>3, <2>2, <2>4, <2>5
  <1>6. QED
    BY <1>4, <1>5

\* The next turn, if it is said in a row with the last.
LEMMA GroupGrows ==
    ASSUME NEW h \in Seq(Turns), NEW g, NEW u, NEW names, Group(h, g, u, names),
           NEW t \in Turns, Spoken(t)
    PROVE  Group(Append(h, t), g, Append(u, t), names)
  <1> DEFINE ms == MessagesMessages(g)
             s == Each(PartsFun, u)
  <1>1. /\ g \in Seq(Turns) /\ u \in Seq(SpokenTurns) /\ u \in Seq(Turns) /\ h = g \o u
        /\ MessagesMessages(h) = (IF u = <<>> THEN ms ELSE Append(ms, Joint(s)))
        /\ ms # <<>> => Last(ms).role # "user"
    BY SpokenSeq DEF Group
  <1>2. t \in SpokenTurns /\ PartsFun[t] = PartsOf(t) /\ IsMap(PartsFun, SpokenTurns, APart)
    BY OwnTyped DEF IsMap, PartsFun, SpokenTurns
  <1>3. /\ s \in Seq(APart) /\ Each(PartsFun, Append(u, t)) = s \o PartsOf(t)
        /\ Each(PartsFun, <<>>) = <<>> /\ PartsOf(t) \in Seq(APart)
    BY <1>1, <1>2, EachProperties, OwnTyped
  <1>4. Append(u, t) \in Seq(SpokenTurns) /\ Append(u, t) # <<>> /\ Append(h, t) = g \o Append(u, t)
    <2>1. Append(u, t) \in Seq(SpokenTurns) /\ Len(Append(u, t)) = Len(u) + 1 /\ Len(u) \in Nat
      BY <1>1, <1>2, AppendProperties, LenProperties
    <2>2. g \o Append(u, t) = Append(g \o u, t)
      BY <1>1, ConcatAppend
    <2>3. Append(u, t) # <<>>
      BY <2>1
    <2>4. QED
      BY <1>1, <2>1, <2>2, <2>3
  <1>5. /\ MessagesMessages(Append(h, t)) = AddTurn(MessagesMessages(h), t) /\ ms \in Seq(AMessages)
        /\ MessagesMessages(h) \in Seq(AMessages)
    BY <1>1, MessagesAppend
  <1> HIDE DEF ms, s
  <1>6. AddTurn(MessagesMessages(h), t) = Append(ms, Joint(s \o PartsOf(t)))
    <2>1. CASE u = <<>>
      <3>1. AddTurn(ms, t) = Append(ms, Joint(PartsOf(t)))
        BY <1>1, <1>5, AddTurnCases
      <3>2. s \o PartsOf(t) = PartsOf(t)
        <4>1. s = <<>>
          BY <1>3, <2>1 DEF s
        <4>2. QED
          BY <1>3, <4>1, ConcatEmptySeq
      <3>3. QED
        BY <1>1, <2>1, <3>1, <3>2
    <2>2. CASE u # <<>>
      <3>1. MessagesMessages(h) = Append(ms, Joint(s))
        BY <1>1, <2>2
      <3>2. QED
        BY <1>3, <1>5, <3>1, AddTurnCases
    <2>3. QED
      BY <2>1, <2>2
  <1>7. MessagesMessages(Append(h, t)) = Append(ms, Joint(Each(PartsFun, Append(u, t))))
    BY <1>3, <1>5, <1>6
  <1>8. QED
    BY <1>1, <1>4, <1>7 DEF Group, ms

\* The next turn, if it is another's: the group is over.
LEMMA GroupEnds ==
    ASSUME NEW h \in Seq(Turns), NEW g, NEW u, NEW names, Group(h, g, u, names),
           NEW t \in Turns, ~Spoken(t)
    PROVE  Group(Append(h, t), Append(h, t), <<>>, names)
  <1> DEFINE k == Append(h, t)
             ms == MessagesMessages(h)
             m == MessagesMessage(t)
  <1>1. k \in Seq(Turns) /\ Len(k) = Len(h) + 1 /\ Len(h) \in Nat /\ k[Len(h) + 1] = t
    BY AppendProperties, LenProperties
  <1>2. k = h \o <<t>> /\ <<t>> \in Seq(Turns)
    <2>1. <<t>> \in Seq(Turns) /\ <<>> \in Seq(Turns) /\ Append(<<>>, t) = <<t>>
      BY EmptySeq
    <2>2. h \o Append(<<>>, t) = Append(h \o <<>>, t)
      BY <2>1, ConcatAppend
    <2>3. h \o <<>> = h
      BY ConcatEmptySeq
    <2>4. QED
      BY <2>1, <2>2, <2>3
  <1>3. k \o <<>> = k /\ <<>> \in Seq(SpokenTurns)
    BY <1>1, ConcatEmptySeq, EmptySeq
  <1>4. k # <<>> => ~Spoken(k[Len(k)])
    BY <1>1
  <1>5. /\ ms \in Seq(AMessages) /\ m \in AMessages /\ m.role # "user"
        /\ MessagesMessages(k) = Append(ms, m)
    <2>1. ms \in Seq(AMessages) /\ MessagesMessages(k) = AddTurn(ms, t)
      BY MessagesAppend
    <2>2. AddTurn(ms, t) = Append(ms, m)
      BY <2>1, AddTurnCases
    <2>3. m.role # "user"
      BY OwnMessage
    <2>4. QED
      BY <2>1, <2>2, <2>3, OwnTyped
  <1>6. TaggedOf(names)[m] = SentBy("messages", t, names, UserOf(<<t>>, 1))
    BY UnspokenTagged
  <1>7. Each(TaggedOf(names), ms) = FlattenSeq(SentA(h, names))
    BY GroupSent
  <1>8. FlattenSeq(SentA(k, names)) = FlattenSeq(SentA(h, names)) \o FlattenSeq(SentA(<<t>>, names))
    <2> DEFINE q == <<t>>
    <2>1. q \in Seq(Turns) /\ k = h \o q /\ q[1] = t
      BY <1>2
    <2> HIDE DEF q, k
    <2>2. Parted(h, q)
      BY <2>1 DEF Parted
    <2>3. FlattenSeq(SentA(h \o q, names)) = FlattenSeq(SentA(h, names)) \o FlattenSeq(SentA(q, names))
      BY <2>1, <2>2, SentParted
    <2>4. QED
      BY <2>1, <2>3 DEF q
  <1>9. FlattenSeq(SentA(<<t>>, names)) = TaggedOf(names)[m]
    <2>1. SentA(<<t>>, names) = <<SentBy("messages", t, names, UserOf(<<t>>, 1))>>
      BY DEF SentA
    <2>2. SentBy("messages", t, names, UserOf(<<t>>, 1)) \in Seq(TaggedPart)
      BY SentByTypes DEF UserOf, APIs
    <2>3. QED
      BY <1>6, <2>1, <2>2, FlattenOne
  <1> HIDE DEF ms, m, k
  <1>10. Each(TaggedOf(names), Append(ms, m)) = Each(TaggedOf(names), ms) \o TaggedOf(names)[m]
    BY <1>5, SaidIsMap, EachProperties
  <1>11. Last(MessagesMessages(k)).role # "user"
    <2>1. Last(Append(ms, m)) = m
      <3>1. Len(Append(ms, m)) = Len(ms) + 1 /\ Append(ms, m)[Len(ms) + 1] = m
        BY <1>5, AppendProperties
      <3>2. QED
        BY <3>1 DEF Last
    <2>2. QED
      BY <1>5, <2>1
  <1>12. Each(TaggedOf(names), MessagesMessages(k)) = FlattenSeq(SentA(k, names))
    BY <1>5, <1>7, <1>8, <1>9, <1>10
  <1>13. Group(k, k, <<>>, names)
    BY <1>1, <1>3, <1>4, <1>11, <1>12 DEF Group
  <1>14. QED
    BY <1>13 DEF k

\* Every history has a last group, so what is sent of its messages is known.
LEMMA MessagesTagged ==
    ASSUME NEW names
    PROVE  \A h \in Seq(Turns) :
              Each(TaggedOf(names), MessagesMessages(h)) = FlattenSeq(SentA(h, names))
  <1> DEFINE T == {h \in Seq(Turns) : \E g, u : Group(h, g, u, names)}
  <1>1. <<>> \in T
    <2>1. /\ <<>> \in Seq(Turns) /\ <<>> \in Seq(SpokenTurns)
          /\ MessagesMessages(<<>>) = <<>>
      BY EmptySeq, MessagesAreRun, AddTurnIsStep, RunEmpty DEF IsStep
    <2>2. <<>> = <<>> \o <<>>
      BY <2>1, ConcatEmptySeq
    <2>3. SentA(<<>>, names) = <<>>
      BY DEF SentA
    <2>4. FlattenSeq(<<>>) = <<>>
      BY FlattenProperties, EmptySeq
    <2>5. Each(TaggedOf(names), <<>>) = <<>>
      BY EachEmpty
    <2>6. Group(<<>>, <<>>, <<>>, names)
      BY <2>1, <2>2, <2>3, <2>4, <2>5 DEF Group
    <2>7. QED
      BY <2>1, <2>6
  <1>2. ASSUME NEW h \in Seq(Turns), NEW t \in Turns, h \in T PROVE Append(h, t) \in T
    <2>1. PICK g, u : Group(h, g, u, names)
      BY <1>2
    <2>2. Append(h, t) \in Seq(Turns)
      BY AppendProperties
    <2>3. \E k, v : Group(Append(h, t), k, v, names)
      <3>1. CASE Spoken(t)
        <4>1. Group(Append(h, t), g, Append(u, t), names)
          BY <2>1, <3>1, GroupGrows
        <4>2. QED
          BY <4>1
      <3>2. CASE ~Spoken(t)
        <4>1. Group(Append(h, t), Append(h, t), <<>>, names)
          BY <2>1, <3>2, GroupEnds
        <4>2. QED
          BY <4>1
      <3>3. QED
        BY <3>1, <3>2
    <2>4. QED
      BY <2>2, <2>3
  <1> HIDE DEF T
  <1>3. \A h \in Seq(Turns) : h \in T
    BY <1>1, <1>2, SeqInduction
  <1>4. QED
    BY <1>3, GroupSent DEF T
-----------------------------------------------------------------------------
(* Messages: the calls and the system texts. *)

\* A history is its opening and the rest.
LEMMA OpeningRest ==
    ASSUME NEW h \in Seq(Turns)
    PROVE  /\ Opening(h) \in Seq(Turns) /\ Rest(h) \in Seq(Turns) /\ h = Opening(h) \o Rest(h)
           /\ \A i \in DOMAIN Opening(h) : i = 1 /\ Opening(h)[i].kind = "system"
           /\ Parted(Opening(h), Rest(h))
  <1> DEFINE o == Opening(h)
             r == Rest(h)
  <1>1. /\ Len(o) \in {0, 1} /\ r \in Seq(Turns) /\ Len(h) = Len(r) + Len(o)
        /\ \A i \in 1..Len(r) : h[i + Len(o)] = r[i]
        /\ Len(o) = 1 => o = <<h[1]>> /\ h[1].kind = "system"
        /\ Len(o) = 0 => o = <<>>
    BY RestProperties
  <1>2. Len(h) \in Nat /\ Len(r) \in Nat /\ \A i \in 1..Len(h) : h[i] \in Turns
    BY <1>1, LenProperties, ElementOfSeq
  <1> HIDE DEF o, r
  <1>3. o \in Seq(Turns) /\ \A i \in 1..Len(o) : o[i] = h[i] /\ i = 1 /\ o[i].kind = "system"
    <2>1. CASE Len(o) = 0
      BY <1>1, <2>1, EmptySeq
    <2>2. CASE Len(o) = 1
      <3>1. h[1] \in Turns
        BY <1>1, <1>2, <2>2
      <3> DEFINE e == h[1]
      <3>2. e \in Turns /\ o = <<e>> /\ e.kind = "system"
        BY <1>1, <2>2, <3>1
      <3> HIDE DEF e
      <3>3. o \in Seq(Turns) /\ o[1] = e
        BY ONLY <3>2
      <3>4. \A i \in 1..Len(o) : i = 1
        BY <2>2
      <3>5. QED
        BY <3>2, <3>3, <3>4 DEF e
    <2>3. QED
      BY <1>1, <2>1, <2>2
  <1>4. DOMAIN o = 1..Len(o) /\ Len(o) \in Nat
    BY <1>3, LenProperties
  <1>5. /\ o \o r \in Seq(Turns) /\ Len(o \o r) = Len(o) + Len(r)
        /\ \A i \in 1..Len(o) : (o \o r)[i] = o[i]
        /\ \A i \in 1..Len(r) : (o \o r)[Len(o) + i] = r[i]
    BY <1>1, <1>3, ConcatParts
  <1>6. \A i \in 1..Len(h) : h[i] = (o \o r)[i]
    <2> SUFFICES ASSUME NEW i \in 1..Len(h) PROVE h[i] = (o \o r)[i]
      OBVIOUS
    <2>1. CASE i <= Len(o)
      <3>1. i \in 1..Len(o)
        BY <1>2, <1>4, <2>1
      <3>2. QED
        BY <1>3, <1>5, <3>1
    <2>2. CASE i > Len(o)
      <3> DEFINE l == i - Len(o)
      <3>1. l \in 1..Len(r) /\ i = l + Len(o) /\ i = Len(o) + l
        BY <1>1, <1>2, <1>4, <2>2
      <3> HIDE DEF l
      <3>2. QED
        BY <1>1, <1>5, <3>1
    <2>3. i <= Len(o) \/ i > Len(o)
      BY <1>2, <1>4
    <2>4. QED
      BY <2>1, <2>2, <2>3
  <1>7. h = o \o r
    BY <1>1, <1>2, <1>4, <1>5, <1>6, SeqEqual
  <1>8. Parted(o, r)
    <2>1. o # <<>> => Len(o) \in 1..Len(o)
      BY <1>1
    <2>2. o # <<>> => ~Spoken(o[Len(o)])
      BY <1>3, <2>1 DEF Spoken
    <2>3. QED
      BY <2>2 DEF Parted
  <1>9. QED
    BY <1>1, <1>3, <1>4, <1>7, <1>8 DEF o, r

\* The calls among the parts of an answer.
LEMMA UsesOfAnswer ==
    ASSUME NEW t \in Turns, t.kind = "answer", NEW id
    PROVE  (\E p \in ToSet(PartsOf(t)) : p.type = "tool_use" /\ p.id = id)
              <=> \E j \in DOMAIN t.calls : t.calls[j].id = id
  <1> DEFINE a == ThinkingPart(t.thinking)
             b == TextPart(t.text)
             u == IF t.thinking = <<>> THEN <<>> ELSE <<a>>
             v == IF t.text = <<>> THEN <<>> ELSE <<b>>
             w == [i \in DOMAIN t.calls |-> UsePart(t.calls[i].id, MessagesInput(t, t.calls[i]))]
  <1>1. PartsOf(t) = (u \o v) \o w
    BY DEF PartsOf, MessagesMessage, Message, Parts, ThinkingPart
  <1>2. w \in Seq(APart)
    BY AUsesConverted
  <1>3. a \in APart /\ b \in APart /\ a.type = "thinking" /\ b.type = "text"
    <2>1. a \in APart /\ b \in APart
      BY TurnFields, APartConversion
    <2>2. QED
      BY <2>1 DEF ThinkingPart, TextPart
  <1>4. DOMAIN w = DOMAIN t.calls
        /\ \A i \in DOMAIN t.calls : w[i].type = "tool_use" /\ w[i].id = t.calls[i].id
    BY DEF UsePart
  <1> HIDE DEF a, b
  <1>5. u \in Seq(APart) /\ v \in Seq(APart) /\ ToSet(u) \subseteq {a} /\ ToSet(v) \subseteq {b}
    <2>1. <<>> \in Seq(APart) /\ ToSet(<<>>) = {} /\ ToSet(<<a>>) = {a} /\ ToSet(<<b>>) = {b}
      BY EmptySeq, FewElements
    <2>2. <<a>> \in Seq(APart) /\ <<b>> \in Seq(APart)
      BY <1>3, OneAPart
    <2>3. QED
      BY <2>1, <2>2
  <1> HIDE DEF u, v, w
  <1>6. u \o v \in Seq(APart) /\ ToSet((u \o v) \o w) = (ToSet(u) \cup ToSet(v)) \cup ToSet(w)
    <2>1. u \o v \in Seq(APart)
      BY <1>5, ConcatProperties
    <2>2. ToSet(u \o v) = ToSet(u) \cup ToSet(v)
      BY <1>5, ElementsOfConcat
    <2>3. ToSet((u \o v) \o w) = ToSet(u \o v) \cup ToSet(w)
      BY <1>2, <2>1, ElementsOfConcat
    <2>4. QED
      BY <2>1, <2>2, <2>3
  <1>7. (\E p \in ToSet(w) : p.type = "tool_use" /\ p.id = id) <=> \E j \in DOMAIN w : w[j].type = "tool_use" /\ w[j].id = id
    BY DEF ToSet
  <1>8. QED
    BY <1>1, <1>3, <1>4, <1>5, <1>6, <1>7

\* The messages of answers, and their turns.
Answering == [m \in AMessages |-> IF m.role = "assistant" THEN <<m>> ELSE <<>>]
AnsweringTurn == [t \in Turns |-> Answering[MessagesMessage(t)]]

\* The messages of answers are those of the turns that are answers.
LEMMA AnsweringTurns ==
    /\ IsMap(Answering, AMessages, AMessages) /\ IsMap(AnsweringTurn, Turns, AMessages)
    /\ \A s \in Seq(Turns) : Each(Answering, MessagesMessages(s)) = Each(AnsweringTurn, s)
  <1>1. IsMap(Answering, AMessages, AMessages)
    <2>1. \A m \in AMessages : <<m>> \in Seq(AMessages) /\ <<>> \in Seq(AMessages)
      BY EmptySeq
    <2>2. QED
      BY <2>1 DEF IsMap, Answering
  <1>2. IsMap(AnsweringTurn, Turns, AMessages)
    BY <1>1, OwnTyped DEF IsMap, AnsweringTurn
  <1>3. \A s \in Seq(APart) : Answering[Joint(s)] = <<>>
    BY JointFields DEF Answering
  <1>4. \A t \in Turns : AnsweringTurn[t] = Answering[MessagesMessage(t)]
    BY DEF AnsweringTurn
  <1>5. QED
    BY <1>1, <1>2, <1>3, <1>4, UnspokenMapped

\* The names that are found.
LEMMA MessagesNames ==
    ASSUME NEW r \in Seq(Turns)
    PROVE  buildAnthropicToolNameMap(MessagesMessages(r)) = CalledIn("messages", r)
  <1> DEFINE ms == MessagesMessages(r)
             Uses(m, id) == \E p \in ToSet(m.content.parts) : p.type = "tool_use" /\ p.id = id
             Calls(t, id) == \E j \in DOMAIN t.calls : t.calls[j].id = id
             names == buildAnthropicToolNameMap(ms)
  <1>1. ms \in Seq(AMessages)
    BY MessagesTyped
  <1>2. \A id : id \in names <=> \E m \in ToSet(ms) : m.role = "assistant" /\ Uses(m, id)
    <2> HIDE DEF ms
    <2>1. \A id : id \in names <=> \E i \in DOMAIN ms : /\ ms[i].role = "assistant"
                                     /\ \E j \in DOMAIN ms[i].content.parts :
                                           /\ ms[i].content.parts[j].type = "tool_use"
                                           /\ ms[i].content.parts[j].id = id
      BY DEF buildAnthropicToolNameMap
    <2>2. \A i \in DOMAIN ms : \A id : Uses(ms[i], id) <=> \E j \in DOMAIN ms[i].content.parts :
                                           /\ ms[i].content.parts[j].type = "tool_use"
                                           /\ ms[i].content.parts[j].id = id
      BY DEF ToSet
    <2> HIDE DEF Uses, names
    <2>3. \A id : id \in names <=> \E i \in DOMAIN ms : ms[i].role = "assistant" /\ Uses(ms[i], id)
      BY <2>1, <2>2
    <2>4. QED
      BY <2>3 DEF ToSet
  <1>3. \A m : (m \in ToSet(ms) /\ m.role = "assistant") <=> m \in ToSet(Each(Answering, ms))
    <2> HIDE DEF ms
    <2>1. \A x : x \in ToSet(Each(Answering, ms)) <=> \E e \in ToSet(ms) : x \in ToSet(Answering[e])
      BY <1>1, AnsweringTurns, ElementsOfEach
    <2>2. \A e \in ToSet(ms) : e \in AMessages
      BY <1>1, LenProperties, ElementOfSeq DEF ToSet
    <2>3. \A e \in AMessages : ToSet(Answering[e]) = IF e.role = "assistant" THEN {e} ELSE {}
      BY FewElements DEF Answering
    <2> SUFFICES ASSUME NEW m
                 PROVE  (m \in ToSet(ms) /\ m.role = "assistant") <=> m \in ToSet(Each(Answering, ms))
      OBVIOUS
    <2>4. \A e \in ToSet(ms) : m \in ToSet(Answering[e]) <=> m = e /\ e.role = "assistant"
      BY <2>2, <2>3
    <2>5. m \in ToSet(Each(Answering, ms)) <=> \E e \in ToSet(ms) : m \in ToSet(Answering[e])
      BY <2>1
    <2>6. QED
      BY ONLY <2>4, <2>5
  <1>4. \A m : m \in ToSet(Each(AnsweringTurn, r))
                  <=> \E i \in DOMAIN r : r[i].kind = "answer" /\ m = MessagesMessage(r[i])
    <2>1. \A x : x \in ToSet(Each(AnsweringTurn, r)) <=> \E e \in ToSet(r) : x \in ToSet(AnsweringTurn[e])
      BY AnsweringTurns, ElementsOfEach
    <2>2. \A e \in ToSet(r) : e \in Turns
      BY LenProperties, ElementOfSeq DEF ToSet
    <2>3. \A t \in Turns : ToSet(AnsweringTurn[t]) = IF t.kind = "answer" THEN {MessagesMessage(t)} ELSE {}
      <3> SUFFICES ASSUME NEW t \in Turns
                   PROVE  ToSet(AnsweringTurn[t])
                             = IF t.kind = "answer" THEN {MessagesMessage(t)} ELSE {}
        OBVIOUS
      <3>1. MessagesMessage(t) \in AMessages /\ AnsweringTurn[t] = Answering[MessagesMessage(t)]
        BY OwnTyped DEF AnsweringTurn
      <3>2. MessagesMessage(t).role = "assistant" <=> t.kind = "answer"
        <4>1. \A c : Message("user", c).role = "user"
          BY DEF Message
        <4>2. Spoken(t) => MessagesMessage(t) = Message("user", Parts(PartsOf(t)))
          BY OwnMessage
        <4>3. Spoken(t) => MessagesMessage(t).role = "user"
          BY ONLY <4>1, <4>2
        <4>4. QED
          BY <4>3, OwnMessage
      <3> DEFINE m == MessagesMessage(t)
      <3> HIDE DEF m
      <3>3. ToSet(Answering[m]) = IF m.role = "assistant" THEN {m} ELSE {}
        BY <3>1, FewElements DEF Answering, m
      <3>4. QED
        BY <3>1, <3>2, <3>3 DEF m
    <2>4. \A t : t \in ToSet(r) <=> \E i \in DOMAIN r : t = r[i]
      BY DEF ToSet
    <2> SUFFICES ASSUME NEW m
                 PROVE  m \in ToSet(Each(AnsweringTurn, r))
                           <=> \E i \in DOMAIN r : r[i].kind = "answer" /\ m = MessagesMessage(r[i])
      OBVIOUS
    <2>5. m \in ToSet(Each(AnsweringTurn, r)) <=> \E e \in ToSet(r) : m \in ToSet(AnsweringTurn[e])
      BY <2>1
    <2>6. \A e \in ToSet(r) : m \in ToSet(AnsweringTurn[e]) <=> e.kind = "answer" /\ m = MessagesMessage(e)
      BY <2>2, <2>3
    <2>7. m \in ToSet(Each(AnsweringTurn, r)) <=> \E e \in ToSet(r) : e.kind = "answer" /\ m = MessagesMessage(e)
      BY ONLY <2>5, <2>6
    <2>8. QED
      BY ONLY <2>4, <2>7
  <1>5. Each(Answering, ms) = Each(AnsweringTurn, r)
    BY AnsweringTurns
  <1>6. \A i \in DOMAIN r : r[i] \in Turns
    BY LenProperties, ElementOfSeq
  <1>7. \A i \in DOMAIN r : r[i].kind = "answer" =>
           \A id : Uses(MessagesMessage(r[i]), id) <=> Calls(r[i], id)
    BY <1>6, UsesOfAnswer DEF PartsOf
  <1>8. \A i \in DOMAIN r : r[i].kind = "answer" => \A id : Calls(r[i], id) => id \in ToolIDs
    BY <1>6, CallIDTypes
  <1>9. \A id : id \in CalledIn("messages", r)
                   <=> id \in ToolIDs /\ \E i \in DOMAIN r : r[i].kind = "answer" /\ Calls(r[i], id)
    BY DEF CalledIn
  <1> HIDE DEF ms, names, Uses, Calls
  <1>10. \A id : id \in names <=> \E i \in DOMAIN r : r[i].kind = "answer" /\ Calls(r[i], id)
    BY <1>2, <1>3, <1>4, <1>5, <1>7
  <1>11. \A id : id \in names <=> id \in CalledIn("messages", r)
    BY <1>8, <1>9, <1>10
  <1>12. names = CalledIn("messages", r)
    BY <1>11
  <1>13. QED
    BY <1>12 DEF names, ms

\* The calls of the opening: none.
LEMMA CalledInRest ==
    ASSUME NEW h \in Seq(Turns)
    PROVE  CalledIn("messages", h) = CalledIn("messages", Rest(h))
  <1> DEFINE o == Opening(h)
             r == Rest(h)
             C(t, id) == t.kind = "answer" /\ \E j \in DOMAIN t.calls : t.calls[j].id = id
  <1>1. /\ o \in Seq(Turns) /\ r \in Seq(Turns) /\ h = o \o r
        /\ \A i \in DOMAIN o : o[i].kind = "system"
    BY OpeningRest
  <1> HIDE DEF o, r
  <1>2. /\ DOMAIN h = 1..(Len(o) + Len(r)) /\ DOMAIN o = 1..Len(o) /\ DOMAIN r = 1..Len(r)
        /\ Len(o) \in Nat /\ Len(r) \in Nat
        /\ \A i \in 1..Len(o) : h[i] = o[i]
        /\ \A i \in 1..Len(r) : h[Len(o) + i] = r[i]
    BY <1>1, ConcatParts
  <1>3. \A i \in 1..Len(o) : \A id : ~C(h[i], id)
    BY <1>1, <1>2
  <1>4. \A s, id : id \in CalledIn("messages", s) <=> id \in ToolIDs /\ \E i \in DOMAIN s : C(s[i], id)
    BY DEF CalledIn
  <1> HIDE DEF C
  <1>5. ASSUME NEW id PROVE (\E i \in DOMAIN h : C(h[i], id)) <=> \E i \in DOMAIN r : C(r[i], id)
    <2>1. ASSUME NEW i \in DOMAIN h, C(h[i], id) PROVE \E l \in DOMAIN r : C(r[l], id)
      <3> DEFINE l == i - Len(o)
      <3>1. l \in 1..Len(r) /\ i = Len(o) + l
        BY <1>2, <1>3, <2>1
      <3> HIDE DEF l
      <3>2. QED
        BY <1>2, <2>1, <3>1
    <2>2. ASSUME NEW i \in DOMAIN r, C(r[i], id) PROVE \E l \in DOMAIN h : C(h[l], id)
      <3>1. Len(o) + i \in DOMAIN h /\ h[Len(o) + i] = r[i]
        BY <1>2
      <3>2. QED
        BY <2>2, <3>1
    <2>3. QED
      BY <2>1, <2>2
  <1>6. \A id : id \in CalledIn("messages", h) <=> id \in CalledIn("messages", r)
    BY <1>4, <1>5
  <1>7. CalledIn("messages", h) = CalledIn("messages", r)
    BY <1>6
  <1>8. QED
    BY <1>7 DEF r
-----------------------------------------------------------------------------
(* Messages: the request. *)

\* The system texts of messages and of turns.
SystemIn == [m \in AMessages |-> IF m.role = "system" THEN SystemPart(contentToString(m.content))
                                 ELSE <<>>]
SystemFun == [t \in Turns |-> SystemOf(t)]

\* The system texts of the messages are those of the turns.
LEMMA SystemsOfTurns ==
    /\ IsMap(SystemFun, Turns, Text)
    /\ \A s \in Seq(Turns) : Each(SystemIn, MessagesMessages(s)) = Each(SystemFun, s)
  <1>1. \A t \in Turns : SystemOf(t) \in Seq(Text)
    BY TurnFields, EmptySeq DEF SystemOf
  <1>2. IsMap(SystemFun, Turns, Text)
    BY <1>1 DEF IsMap, SystemFun
  <1>3. \A s \in Seq(APart) : SystemIn[Joint(s)] = <<>>
    BY JointFields DEF SystemIn
  <1>4. ASSUME NEW t \in Turns PROVE SystemFun[t] = SystemIn[MessagesMessage(t)]
    <2> DEFINE m == MessagesMessage(t)
    <2>1. m \in AMessages
      BY OwnTyped
    <2>2. CASE t.kind = "system"
      <3>1. m.role = "system" /\ contentToString(m.content) = t.text
        BY <2>2, OwnMessage, SystemContent
      <3> HIDE DEF m
      <3>2. QED
        BY <2>1, <2>2, <3>1 DEF SystemIn, SystemFun, SystemOf, SystemPart, m
    <2>3. CASE t.kind # "system"
      <3>1. m.role # "system"
        <4>1. \A c : Message("user", c).role = "user"
          BY DEF Message
        <4>2. Spoken(t) => m = Message("user", Parts(PartsOf(t)))
          BY OwnMessage
        <4> HIDE DEF m
        <4>3. Spoken(t) => m.role = "user"
          BY ONLY <4>1, <4>2
        <4>4. QED
          BY <2>3, <4>3, OwnMessage DEF m
      <3> HIDE DEF m
      <3>2. QED
        BY <2>1, <2>3, <3>1 DEF SystemIn, SystemFun, SystemOf, m
    <2>4. QED
      BY <2>2, <2>3
  <1>5. IsMap(SystemIn, AMessages, Text)
    <2>1. ASSUME NEW m \in AMessages, m.role = "system"
          PROVE  SystemPart(contentToString(m.content)) \in Seq(Text)
      <3>1. PICK t \in Turns : m = MessagesMessage(t)
        BY <2>1, AMessageCases
      <3>2. SystemIn[m] \in Seq(Text)
        BY <1>2, <1>4, <3>1 DEF IsMap
      <3>3. QED
        BY <2>1, <3>2 DEF SystemIn
    <2>2. <<>> \in Seq(Text)
      BY EmptySeq
    <2>3. QED
      BY <2>1, <2>2 DEF IsMap, SystemIn
  <1>6. QED
    BY <1>2, <1>3, <1>4, <1>5, UnspokenMapped

\* The system text of a request of Messages.
LEMMA MessagesSystem ==
    ASSUME NEW h \in Seq(Turns), NEW request,
           request = AnthropicMessagesToCommandCode(Opening(h), MessagesMessages(Rest(h)))
    PROVE  request.system = FlattenSeq([i \in DOMAIN h |-> SystemOf(h[i])])
  <1> DEFINE o == Opening(h)
             r == Rest(h)
             ms == MessagesMessages(r)
  <1>1. /\ o \in Seq(Turns) /\ r \in Seq(Turns) /\ h = o \o r
        /\ \A i \in DOMAIN o : o[i].kind = "system"
    BY OpeningRest
  <1>2. ms \in Seq(AMessages)
    BY <1>1, MessagesTyped
  <1> HIDE DEF o, r, ms
  <1>3. request.system = FlattenSeq([i \in DOMAIN o |-> SystemPart(o[i].text)])
            \o FlattenSeq([i \in DOMAIN ms |->
                   IF ms[i].role = "system" THEN SystemPart(contentToString(ms[i].content)) ELSE <<>>])
    BY DEF AnthropicMessagesToCommandCode, o, r, ms
  <1>4. FlattenSeq([i \in DOMAIN o |-> SystemPart(o[i].text)]) = Each(SystemFun, o)
    <2>1. \A i \in DOMAIN o : o[i] \in Turns
      BY <1>1, LenProperties, ElementOfSeq
    <2>2. [i \in DOMAIN o |-> SystemPart(o[i].text)] = [i \in DOMAIN o |-> SystemFun[o[i]]]
      BY <1>1, <2>1 DEF SystemPart, SystemFun, SystemOf
    <2>3. QED
      BY <2>2, Zenon DEF Each
  <1>5. FlattenSeq([i \in DOMAIN ms |->
            IF ms[i].role = "system" THEN SystemPart(contentToString(ms[i].content)) ELSE <<>>])
               = Each(SystemIn, ms)
    <2>1. \A i \in DOMAIN ms : ms[i] \in AMessages
      BY <1>2, LenProperties, ElementOfSeq
    <2>2. [i \in DOMAIN ms |->
             IF ms[i].role = "system" THEN SystemPart(contentToString(ms[i].content)) ELSE <<>>]
             = [i \in DOMAIN ms |-> SystemIn[ms[i]]]
      BY <2>1 DEF SystemIn
    <2>3. QED
      BY <2>2, Zenon DEF Each
  <1>6. Each(SystemIn, ms) = Each(SystemFun, r)
    BY <1>1, SystemsOfTurns DEF ms
  <1>7. Each(SystemFun, o \o r) = Each(SystemFun, o) \o Each(SystemFun, r)
    BY <1>1, SystemsOfTurns, EachConcat
  <1>8. Each(SystemFun, h) = FlattenSeq([i \in DOMAIN h |-> SystemOf(h[i])])
    <2>1. \A i \in DOMAIN h : h[i] \in Turns
      BY LenProperties, ElementOfSeq
    <2>2. [i \in DOMAIN h |-> SystemFun[h[i]]] = [i \in DOMAIN h |-> SystemOf(h[i])]
      BY <2>1 DEF SystemFun
    <2>3. QED
      BY <2>2, Zenon DEF Each
  <1>9. QED
    BY <1>1, <1>3, <1>4, <1>5, <1>6, <1>7, <1>8

\* What is sent of a history is what is sent of the rest.
LEMMA RestSent ==
    ASSUME NEW h \in Seq(Turns), NEW names
    PROVE  FlattenSeq(SentA(Rest(h), names)) = FlattenSeq(SentA(h, names))
  <1> DEFINE o == Opening(h)
             r == Rest(h)
  <1>1. /\ o \in Seq(Turns) /\ r \in Seq(Turns) /\ h = o \o r
        /\ \A i \in DOMAIN o : o[i].kind = "system"
        /\ Parted(o, r)
    BY OpeningRest
  <1>2. o = <<>> \/ Len(o) = 1
    BY RestProperties
  <1> HIDE DEF o, r
  <1>3. DOMAIN o = 1..Len(o) /\ \A i \in DOMAIN o : o[i] \in Turns
    BY <1>1, LenProperties, ElementOfSeq
  <1>4. FlattenSeq(SentA(o \o r, names)) = FlattenSeq(SentA(o, names)) \o FlattenSeq(SentA(r, names))
    BY <1>1, SentParted
  <1>5. /\ SentA(r, names) \in Seq(Seq(TaggedPart)) /\ FlattenSeq(SentA(r, names)) \in Seq(TaggedPart)
    <2>1. Parted(r, <<>>)
      BY DEF Parted
    <2>2. SentA(r, names) \in Seq(Seq(TaggedPart))
      BY <1>1, <2>1, EmptySeq, SentParted
    <2>3. QED
      BY <2>2, EmptySeq, FlattenProperties
  <1>6. FlattenSeq(SentA(o, names)) = <<>>
    <2>0. "messages" \in APIs
      BY DEF APIs
    <2>1. CASE o = <<>>
      <3>1. SentA(o, names) = <<>>
        BY <2>1 DEF SentA
      <3>2. QED
        BY <3>1, EmptySeq, FlattenProperties
    <2>2. CASE Len(o) = 1
      <3>1. SentBy("messages", o[1], names, UserOf(o, 1)) = <<>>
        BY <1>1, <1>3, <2>0, <2>2, SentByTypes DEF UserOf
      <3>2. SentA(o, names) = <<SentBy("messages", o[1], names, UserOf(o, 1))>>
        BY <1>3, <2>2 DEF SentA
      <3>3. FlattenSeq(<<<<>>>>) = <<>>
        BY EmptySeq, FlattenOne
      <3>4. QED
        BY <3>1, <3>2, <3>3
    <2>3. QED
      BY <1>2, <2>1, <2>2
  <1>7. <<>> \o FlattenSeq(SentA(r, names)) = FlattenSeq(SentA(r, names))
    BY <1>5, ConcatEmptySeq
  <1>8. QED
    BY <1>1, <1>4, <1>6, <1>7 DEF r

\* A request of Messages.
LEMMA MessagesSent ==
    ASSUME NEW h \in Seq(Turns), NEW request,
           request = AnthropicMessagesToCommandCode(Opening(h), MessagesMessages(Rest(h)))
    PROVE  /\ Flat(request) = FlattenSeq([i \in DOMAIN h |-> SentOf("messages", h, i, UserOf(h, i))])
           /\ \A m \in ToSet(request.messages) : Good(m)
           /\ request.system = FlattenSeq([i \in DOMAIN h |-> SystemOf(h[i])])
  <1> DEFINE r == Rest(h)
             ms == MessagesMessages(r)
             names == buildAnthropicToolNameMap(ms)
             ss == [i \in DOMAIN ms |-> SaidOf(names)[ms[i]]]
  <1>0. "messages" \in APIs
    BY DEF APIs
  <1>1. r \in Seq(Turns) /\ ms \in Seq(AMessages)
    BY RestProperties, MessagesTyped
  <1>2. names = CalledIn("messages", h)
    BY <1>1, MessagesNames, CalledInRest
  <1> HIDE DEF r
  <1>3. request.messages = FlattenSeq([i \in DOMAIN ms |->
            IF ms[i].role = "system" THEN <<>>
            ELSE NonEmpty(anthropicMessageToCommandCode(ms[i], names))])
    BY DEF AnthropicMessagesToCommandCode, r
  <1> HIDE DEF names
  <1>4. Each(TaggedOf(names), ms) = FlattenSeq(SentA(r, names))
    BY <1>1, MessagesTagged
  <1> HIDE DEF ms
  <1>5. DOMAIN ms = 1..Len(ms) /\ Len(ms) \in Nat /\ \A i \in DOMAIN ms : ms[i] \in AMessages
    BY <1>1, LenProperties, ElementOfSeq
  <1>6. request.messages = FlattenSeq(ss)
    <2>1. [i \in DOMAIN ms |-> IF ms[i].role = "system" THEN <<>>
                               ELSE NonEmpty(anthropicMessageToCommandCode(ms[i], names))] = ss
      BY <1>5 DEF SaidOf
    <2>2. QED
      BY <1>3, <2>1
  <1>7. /\ DOMAIN ss = DOMAIN ms /\ ss \in Seq(Seq(Out))
        /\ \A i \in DOMAIN ss : ss[i] = SaidOf(names)[ms[i]] /\ \A m \in ToSet(ss[i]) : Good(m)
    <2>1. \A m \in AMessages : SaidOf(names)[m] \in Seq(Sound)
      BY SaidIsMap DEF IsMap
    <2>2. \A i \in DOMAIN ms : /\ SaidOf(names)[ms[i]] \in Seq(Out)
                               /\ \A m \in ToSet(SaidOf(names)[ms[i]]) : Good(m)
      BY <1>5, <2>1, SoundMessages
    <2>3. QED
      BY <1>5, <2>2
  <1> HIDE DEF ss
  <1>8. /\ Flat(request) = FlattenSeq([i \in DOMAIN ss |-> Each(TagOf, ss[i])])
        /\ \A m \in ToSet(request.messages) : Good(m)
    BY <1>6, <1>7, FlatOfMessages
  <1>9. FlattenSeq([i \in DOMAIN ss |-> Each(TagOf, ss[i])]) = Each(TaggedOf(names), ms)
    <2>1. [i \in DOMAIN ss |-> Each(TagOf, ss[i])] = [i \in DOMAIN ms |-> TaggedOf(names)[ms[i]]]
      BY <1>5, <1>7 DEF TaggedOf
    <2>2. QED
      BY <2>1, Zenon DEF Each
  <1>10. SentA(h, names) = [i \in DOMAIN h |-> SentOf("messages", h, i, UserOf(h, i))]
    <2>1. \A i \in DOMAIN h : h[i] \in Turns
      BY LenProperties, ElementOfSeq
    <2>2. \A i \in DOMAIN h : h[i].kind = "system" => SentBy("messages", h[i], names, UserOf(h, i)) = <<>>
      BY <1>0, <2>1, SentByTypes DEF UserOf
    <2>3. \A i \in DOMAIN h : SentBy("messages", h[i], names, UserOf(h, i))
                                 = SentOf("messages", h, i, UserOf(h, i))
      BY <1>2, <2>2 DEF SentOf
    <2>4. QED
      BY <2>3 DEF SentA
  <1>11. FlattenSeq(SentA(r, names)) = FlattenSeq(SentA(h, names))
    BY RestSent DEF r
  <1>12. request.system = FlattenSeq([i \in DOMAIN h |-> SystemOf(h[i])])
    BY MessagesSystem
  <1>13. QED
    BY <1>4, <1>8, <1>9, <1>10, <1>11, <1>12
-----------------------------------------------------------------------------
(* What each API sends of the history. *)

\* What each API sends of each turn of a history.
UserIn(api, h, i) == IF api = "messages" THEN UserOf(h, i) ELSE "user"
SentIn(api, h) == [i \in DOMAIN h |-> SentOf(api, h, i, UserIn(api, h, i))]

\* The messages of a request carry, part by part, what is sent of each turn.
LEMMA RequestSent ==
    ASSUME history \in Seq(Turns), NEW api \in APIs
    PROVE  /\ Flat(Request(api)) = FlattenSeq(SentIn(api, history))
           /\ \A m \in ToSet(Request(api).messages) : Good(m)
           /\ Request(api).system = FlattenSeq([i \in DOMAIN history |->
                 IF HeardAsSystem(api, i) /\ history[i].text # <<>> THEN <<history[i].text>> ELSE <<>>])
  <1> DEFINE ss == [i \in DOMAIN history |->
                 IF HeardAsSystem(api, i) /\ history[i].text # <<>> THEN <<history[i].text>> ELSE <<>>]
  <1>0. \A i \in DOMAIN history : history[i] \in Turns
    BY LenProperties, ElementOfSeq
  <1>1. CASE api = "chat"
    <2> DEFINE request == ChatRequest
    <2>1. Request(api) = request
      BY <1>1 DEF Request
    <2>2. request = OpenAIToCommandCode([i \in DOMAIN history |-> ChatMessage(history[i])])
      BY DEF ChatRequest
    <2> HIDE DEF request
    <2>3. /\ Flat(request) = FlattenSeq([i \in DOMAIN history |->
                                SentBy("chat", history[i], CalledIn("chat", history), "user")])
          /\ \A m \in ToSet(request.messages) : Good(m)
          /\ request.system = FlattenSeq([i \in DOMAIN history |->
                                 IF history[i].blocks THEN <<>> ELSE SystemOf(history[i])])
      BY <2>2, ChatSent
    <2>4. [i \in DOMAIN history |-> SentBy("chat", history[i], CalledIn("chat", history), "user")]
             = SentIn(api, history)
      <3>1. \A i \in DOMAIN history : history[i].kind = "system" =>
               SentBy("chat", history[i], CalledIn("chat", history), "user") = <<>>
        BY <1>0, <1>1, SentByTypes
      <3>2. \A i \in DOMAIN history : SentBy("chat", history[i], CalledIn("chat", history), "user")
                                         = SentOf("chat", history, i, "user")
        BY <3>1 DEF SentOf
      <3>3. QED
        BY <1>1, <3>2 DEF SentIn, UserIn
    <2>5. [i \in DOMAIN history |-> IF history[i].blocks THEN <<>> ELSE SystemOf(history[i])] = ss
      BY <1>1 DEF SystemOf, HeardAsSystem
    <2>6. QED
      BY <2>1, <2>3, <2>4, <2>5
  <1>2. CASE api = "messages"
    <2> DEFINE request == MessagesRequest
    <2>1. Request(api) = request
      BY <1>2 DEF Request
    <2>2. request = AnthropicMessagesToCommandCode(Opening(history), MessagesMessages(Rest(history)))
      BY DEF MessagesRequest
    <2> HIDE DEF request
    <2>3. /\ Flat(request) = FlattenSeq([i \in DOMAIN history |->
                                SentOf("messages", history, i, UserOf(history, i))])
          /\ \A m \in ToSet(request.messages) : Good(m)
          /\ request.system = FlattenSeq([i \in DOMAIN history |-> SystemOf(history[i])])
      BY <2>2, MessagesSent
    <2>4. [i \in DOMAIN history |-> SentOf("messages", history, i, UserOf(history, i))]
             = SentIn(api, history)
      BY <1>2 DEF SentIn, UserIn
    <2>5. [i \in DOMAIN history |-> SystemOf(history[i])] = ss
      BY <1>2 DEF SystemOf, HeardAsSystem
    <2>6. QED
      BY <2>1, <2>3, <2>4, <2>5
  <1>3. CASE api = "responses"
    <2> DEFINE request == ResponsesRequest
               r == Rest(history)
    <2>1. Request(api) = request
      BY <1>3 DEF Request
    <2>2. request = OpenAIResponsesToCommandCode(Opening(history),
                       FlattenSeq([i \in DOMAIN r |-> ResponsesItems(r[i])]))
      BY DEF ResponsesRequest
    <2>3. r = Rest(history)
      OBVIOUS
    <2> HIDE DEF request, r
    <2>4. /\ Flat(request) = FlattenSeq([i \in DOMAIN history |-> SentOf("responses", history, i, "user")])
          /\ \A m \in ToSet(request.messages) : Good(m)
          /\ request.system =
                FlattenSeq([i \in DOMAIN history |-> IF i = 1 THEN SystemOf(history[i]) ELSE <<>>])
      BY <2>2, <2>3, ResponsesSent
    <2>5. [i \in DOMAIN history |-> SentOf("responses", history, i, "user")] = SentIn(api, history)
      BY <1>3 DEF SentIn, UserIn
    <2>6. [i \in DOMAIN history |-> IF i = 1 THEN SystemOf(history[i]) ELSE <<>>] = ss
      BY <1>3 DEF SystemOf, HeardAsSystem
    <2>7. QED
      BY <2>1, <2>4, <2>5, <2>6
  <1>4. QED
    BY <1>1, <1>2, <1>3 DEF APIs

\* What is sent of a turn.
LEMMA SentInTypes ==
    ASSUME NEW h \in Seq(Turns), NEW api \in APIs
    PROVE  /\ SentIn(api, h) \in Seq(Seq(TaggedPart)) /\ DOMAIN SentIn(api, h) = DOMAIN h
           /\ \A i \in DOMAIN h : /\ h[i] \in Turns
                                  /\ UserIn(api, h, i) \in {"user", "tool"}
                                  /\ SentIn(api, h)[i] = SentOf(api, h, i, UserIn(api, h, i))
                                  /\ SentIn(api, h)[i] \in Seq(TaggedPart)
  <1>1. DOMAIN h = 1..Len(h) /\ Len(h) \in Nat /\ \A i \in DOMAIN h : h[i] \in Turns
    BY LenProperties, ElementOfSeq
  <1>2. \A i \in DOMAIN h : UserIn(api, h, i) \in {"user", "tool"}
    BY DEF UserIn, UserOf
  <1>3. \A i \in DOMAIN h : SentOf(api, h, i, UserIn(api, h, i)) \in Seq(TaggedPart)
    BY <1>1, <1>2, SentByTypes, EmptySeq DEF SentOf
  <1>4. QED
    BY <1>1, <1>2, <1>3 DEF SentIn

\* The parts that are sent are those of the turns, without their roles.
LEMMA PartsSent ==
    ASSUME history \in Seq(Turns), NEW api \in APIs, NEW p
    PROVE  (\E q \in ToSet(Flat(Request(api))) : p = q.part)
              <=> \E i \in DOMAIN history :
                     /\ ~(history[i].kind = "system" /\ i = 1)
                     /\ p \in ToSet(SentParts(api, history[i], CalledIn(api, history)))
  <1> DEFINE flat == Flat(Request(api))
             ss == SentIn(api, history)
             Ps(i) == SentParts(api, history[i], CalledIn(api, history))
  <1>1. flat = FlattenSeq(ss)
    BY RequestSent
  <1>2. /\ ss \in Seq(Seq(TaggedPart)) /\ DOMAIN ss = DOMAIN history
        /\ \A i \in DOMAIN history : ss[i] = SentOf(api, history, i, UserIn(api, history, i))
    BY SentInTypes
  <1> HIDE DEF ss, flat
  <1>3. ToSet(flat) = UNION {ToSet(ss[i]) : i \in DOMAIN history}
    <2>1. ToSet(FlattenSeq(ss)) = UNION {ToSet(ss[i]) : i \in DOMAIN ss}
      BY <1>2, ElementsOfFlatten
    <2>2. QED
      BY <1>1, <1>2, <2>1
  <1>4. \A i \in DOMAIN history : history[i].kind = "system" /\ i = 1 => ToSet(ss[i]) = {}
    BY <1>2, FewElements DEF SentOf
  <1>5. ASSUME NEW i \in DOMAIN history, ~(history[i].kind = "system" /\ i = 1)
        PROVE  (\E q \in ToSet(ss[i]) : p = q.part) <=> p \in ToSet(Ps(i))
    <2>1. ss[i] = SentBy(api, history[i], CalledIn(api, history), UserIn(api, history, i))
      BY <1>2, <1>5 DEF SentOf
    <2>2. DOMAIN ss[i] = DOMAIN Ps(i) /\ \A j \in DOMAIN Ps(i) : ss[i][j].part = Ps(i)[j]
      BY <2>1 DEF SentBy, Tagged
    <2> HIDE DEF Ps
    <2>3. QED
      BY <2>2 DEF ToSet
  <1> HIDE DEF Ps
  <1>6. (\E q \in ToSet(flat) : p = q.part)
           <=> \E i \in DOMAIN history : \E q \in ToSet(ss[i]) : p = q.part
    BY <1>3
  <1>7. QED
    BY <1>4, <1>5, <1>6 DEF Ps, flat
-----------------------------------------------------------------------------
(* Type correctness. *)

\* The inductive invariant: the histories are those of the turns there are.
Histories == /\ history \in Seq(Turns)
             /\ waiting \subseteq used /\ used \subseteq ToolIDs
             /\ settings \in Settings

\* Every history that is one is converted to messages the upstream knows.
LEMMA HistoriesSuffice == Histories <=> TypeOK
  <1>1. ASSUME history \in Seq(Turns), NEW api \in APIs, NEW m \in ToSet(Request(api).messages)
        PROVE  /\ m.role \in {"system", "user", "assistant", "tool"}
               /\ m.content # <<>>
               /\ commandCodeContentHasType(m.content, "tool-result") => m.role = "tool"
    BY <1>1, RequestSent DEF Good, Out, Roles
  <1>2. QED
    BY <1>1 DEF Histories, TypeOK, Turns

\* Initially there is no history.
LEMMA InitHistories == Init => Histories
  BY EmptySeq DEF Init, Histories

\* Every step of the client leaves a history.
LEMMA NextHistories == Histories /\ [Next]_vars => Histories'
  <1> SUFFICES ASSUME Histories, [Next]_vars PROVE Histories'
    OBVIOUS
  <1> USE DEF Histories
  <1>1. ASSUME NEW t \in Turns, Say(t)
        PROVE  history' \in Seq(Turns) /\ settings' \in Settings
    BY <1>1, AppendProperties DEF Say
  <1>2. CASE \E t \in SystemTurns : SystemSays(t)
    BY <1>1, <1>2 DEF SystemSays, Turns
  <1>3. CASE \E t \in UserTurns : UserSays(t)
    BY <1>1, <1>3 DEF UserSays, Turns
  <1>4. CASE \E t \in AnswerTurns : Answers(t)
    <2>1. PICK t \in AnswerTurns : Answers(t)
      BY <1>4
    <2>2. t \in Turns /\ t.kind = "answer" /\ Say(t)
      BY <2>1, ConversationAssumption DEF Turns, Answers
    <2>3. {t.calls[i].id : i \in DOMAIN t.calls} \subseteq ToolIDs
      BY <2>2, CallIDTypes
    <2>4. used' = used \cup {t.calls[i].id : i \in DOMAIN t.calls}
          /\ waiting' = {t.calls[i].id : i \in DOMAIN t.calls}
      BY <2>1 DEF Answers
    <2>5. QED
      BY <1>1, <2>2, <2>3, <2>4
  <1>5. CASE \E t \in ResultTurns : ToolAnswers(t)
    BY <1>1, <1>5 DEF ToolAnswers, Turns
  <1>6. CASE Forget
    <2>1. history # <<>>
      BY <1>6, EmptySeq, ConversationAssumption DEF Forget
    <2>2. Tail(history) \in Seq(Turns)
      BY <2>1
    <2>3. QED
      BY <1>6, <2>2 DEF Forget
  <1>7. CASE UNCHANGED vars
    BY <1>7 DEF vars
  <1>8. QED
    BY <1>2, <1>3, <1>4, <1>5, <1>6, <1>7 DEF Next

\* In every behaviour the history is one of turns there are.
LEMMA HistoriesInvariant == Spec => []Histories
  <1>1. QED
    BY InitHistories, NextHistories, PTL DEF Spec
-----------------------------------------------------------------------------
(* Names, failures and inputs: what the parts of a request say. *)

\* A tool's answer in a request is that of a turn, with what is sent of it.
LEMMA ResultsSent ==
    ASSUME history \in Seq(Turns), NEW api \in APIs, NEW p
    PROVE  p \in Parts3(api, "tool-result") <=>
              \E i \in DOMAIN history :
                 /\ history[i].kind = "result"
                 /\ p = ResultC(history[i].id,
                                Named(history[i].id, CalledIn(api, history), Otherwise(api)),
                                history[i].text, ErrorSent(api, history[i]))
  <1> DEFINE Ps(i) == SentParts(api, history[i], CalledIn(api, history))
             R(i) == ResultC(history[i].id,
                             Named(history[i].id, CalledIn(api, history), Otherwise(api)),
                             history[i].text, ErrorSent(api, history[i]))
  <1>0. \A i \in DOMAIN history : history[i] \in Turns
    BY LenProperties, ElementOfSeq
  <1>1. p \in Parts3(api, "tool-result")
           <=> p.type = "tool-result" /\ \E q \in ToSet(Flat(Request(api))) : p = q.part
    BY DEF Parts3
  <1>2. (\E q \in ToSet(Flat(Request(api))) : p = q.part)
           <=> \E i \in DOMAIN history : ~(history[i].kind = "system" /\ i = 1) /\ p \in ToSet(Ps(i))
    BY PartsSent
  <1>3. \A i \in DOMAIN history : p \in ToSet(Ps(i)) /\ p.type = "tool-result" =>
           history[i].kind = "result" /\ p = R(i)
    BY <1>0, SentElements
  <1>4. \A i \in DOMAIN history : history[i].kind = "result" => R(i) \in ToSet(Ps(i))
    BY <1>0, SentResult
  <1>5. \A i \in DOMAIN history : R(i).type = "tool-result"
    BY DEF ResultC
  <1> HIDE DEF Ps, R
  <1>6. p \in Parts3(api, "tool-result")
           <=> \E i \in DOMAIN history : history[i].kind = "result" /\ p = R(i)
    BY <1>1, <1>2, <1>3, <1>4, <1>5
  <1>7. QED
    BY <1>6 DEF R

\* The name of a tool's answer is that of its call.
LEMMA NamesFollow ==
    ASSUME history \in Seq(Turns)
    PROVE  NamesFound
  <1> SUFFICES ASSUME NEW api \in APIs, NEW p \in Parts3(api, "tool-result")
               PROVE  p.name = IF \E i \in DOMAIN history :
                                     /\ history[i].kind = "answer"
                                     /\ api = "messages" \/ ~history[i].blocks
                                     /\ \E j \in DOMAIN history[i].calls : history[i].calls[j].id = p.id
                               THEN NameOf[p.id]
                               ELSE IF api = "messages" THEN "" ELSE "unknown"
    BY DEF NamesFound
  <1>1. PICK i \in DOMAIN history :
           /\ history[i].kind = "result"
           /\ p = ResultC(history[i].id,
                          Named(history[i].id, CalledIn(api, history), Otherwise(api)),
                          history[i].text, ErrorSent(api, history[i]))
    BY ResultsSent
  <1>2. history[i] \in Turns
    BY LenProperties, ElementOfSeq
  <1>3. history[i].id \in ToolIDs
    BY <1>1, <1>2, TurnFields
  <1>4. p.id = history[i].id /\ p.name = Named(p.id, CalledIn(api, history), Otherwise(api))
    BY <1>1 DEF ResultC
  <1>5. p.id \in CalledIn(api, history) <=>
           \E k \in DOMAIN history :
              /\ history[k].kind = "answer"
              /\ api = "messages" \/ ~history[k].blocks
              /\ \E j \in DOMAIN history[k].calls : history[k].calls[j].id = p.id
    BY <1>3, <1>4 DEF CalledIn
  <1>6. QED
    BY <1>4, <1>5 DEF Named, Otherwise

\* The answers that are marked as failures.
LEMMA MarkedSent ==
    ASSUME history \in Seq(Turns), NEW api \in APIs
    PROVE  Marked(api) = {history[i].id : i \in {k \in DOMAIN history :
                             history[k].kind = "result" /\ ErrorSent(api, history[k])}}
  <1> DEFINE R(i) == ResultC(history[i].id,
                             Named(history[i].id, CalledIn(api, history), Otherwise(api)),
                             history[i].text, ErrorSent(api, history[i]))
  <1>1. \A p : p \in Parts3(api, "tool-result")
                  <=> \E i \in DOMAIN history : history[i].kind = "result" /\ p = R(i)
    BY ResultsSent
  <1>2. \A i \in DOMAIN history : R(i).id = history[i].id /\ R(i).error = ErrorSent(api, history[i])
    BY DEF ResultC
  <1> HIDE DEF R
  <1>3. \A id : id \in Marked(api) <=> \E p \in Parts3(api, "tool-result") : p.error /\ id = p.id
    BY DEF Marked
  <1>4. \A id : id \in Marked(api) <=> \E i \in DOMAIN history :
                   history[i].kind = "result" /\ ErrorSent(api, history[i]) /\ id = history[i].id
    BY <1>1, <1>2, <1>3
  <1>5. QED
    BY <1>4

\* Failures are marked alike.
LEMMA FailuresFollow ==
    ASSUME history \in Seq(Turns)
    PROVE  FailuresAgree
  <1>1. "chat" \in APIs /\ "messages" \in APIs /\ "responses" \in APIs
    BY DEF APIs
  <1>2. Marked("responses") = {}
    <2>1. \A t : ~ErrorSent("responses", t)
      BY DEF ErrorSent
    <2>2. QED
      BY <1>1, <2>1, MarkedSent
  <1>3. ASSUME \A i \in DOMAIN history : history[i].kind = "result" =>
                   (history[i].error <=> Prefixed(history[i]))
        PROVE  Marked("chat") = Marked("messages")
    <2>1. \A i \in DOMAIN history : history[i].kind = "result" =>
             (ErrorSent("chat", history[i]) <=> ErrorSent("messages", history[i]))
      BY <1>3 DEF ErrorSent
    <2>2. {k \in DOMAIN history : history[k].kind = "result" /\ ErrorSent("chat", history[k])}
             = {k \in DOMAIN history : history[k].kind = "result" /\ ErrorSent("messages", history[k])}
      BY <2>1
    <2>3. QED
      BY <1>1, <2>2, MarkedSent
  <1>4. QED
    BY <1>2, <1>3 DEF FailuresAgree

\* A call comes back with its input, but for the three that do not.
LEMMA InputsFollow ==
    ASSUME history \in Seq(Turns)
    PROVE  InputsReturn
  <1> SUFFICES ASSUME NEW api \in APIs, NEW p \in Parts3(api, "tool-call")
               PROVE  \E i \in DOMAIN history :
                         /\ history[i].kind = "answer"
                         /\ \E c \in ToSet(history[i].calls) :
                               /\ c.id = p.id
                               /\ \/ p.input = InputBack(api, history[i], c.input)
                                  \/ c.input = "nil" /\ p.input = "{}"
    BY DEF InputsReturn
  <1>1. p.type = "tool-call" /\ \E q \in ToSet(Flat(Request(api))) : p = q.part
    BY DEF Parts3
  <1>2. PICK i \in DOMAIN history : p \in ToSet(SentParts(api, history[i], CalledIn(api, history)))
    BY <1>1, PartsSent
  <1>3. history[i] \in Turns
    BY LenProperties, ElementOfSeq
  <1>4. /\ history[i].kind = "answer"
        /\ \E c \in ToSet(history[i].calls) :
              c \in Tool /\ p = CallC(c.id, InputSent(api, history[i], c))
    BY <1>1, <1>2, <1>3, SentElements
  <1>5. PICK c \in ToSet(history[i].calls) :
           c \in Tool /\ p = CallC(c.id, InputSent(api, history[i], c))
    BY <1>4
  <1>6. p.id = c.id /\ p.input = InputSent(api, history[i], c)
    BY <1>5 DEF CallC
  <1>7. p.input = InputBack(api, history[i], c.input) \/ (c.input = "nil" /\ p.input = "{}")
    BY <1>3, <1>4, <1>5, <1>6, InputTypes
  <1>8. QED
    BY <1>4, <1>6, <1>7
-----------------------------------------------------------------------------
(* Settings. *)

\* Of every setting the three APIs make the same.
LEMMA SettingsFollow ==
    ASSUME settings \in Settings
    PROVE  SettingsAgree
  <1> DEFINE C == {"nil", "auto", "none", "any", "tool"}
  <1>1. settings.choice \in C /\ settings.max \in Nat
    BY ConversationAssumption
  <1>2. ASSUME NEW c \in C
        PROVE  openAIToolChoiceToCommandCode(ChatChoice(c))
                  = anthropicToolChoiceToCommandCode(MessagesChoice(c))
    <2> USE DEF openAIToolChoiceToCommandCode, Choice, anthropicToolChoiceToCommandCode
    <2>1. CASE c = "nil"
      <3>1. ChatChoice(c) = Choice("nil", "") /\ MessagesChoice(c) = Choice("nil", "")
        BY <2>1 DEF ChatChoice, MessagesChoice
      <3>2. openAIToolChoiceToCommandCode(Choice("nil", "")) = Choice("nil", "")
        OBVIOUS
      <3>3. QED
        BY <3>1, <3>2
    <2>2. CASE c = "any"
      <3>1. ChatChoice(c) = Choice("string", "required") /\ MessagesChoice(c) = Choice("flat", "any")
        BY <2>2 DEF ChatChoice, MessagesChoice
      <3>2. openAIToolChoiceToCommandCode(Choice("string", "required")) = Choice("flat", "any")
        OBVIOUS
      <3>3. QED
        BY <3>1, <3>2
    <2>3. CASE c = "tool"
      <3>1. ChatChoice(c) = Choice("nested", "function") /\ MessagesChoice(c) = Choice("flat", "tool")
        BY <2>3 DEF ChatChoice, MessagesChoice
      <3>2. openAIToolChoiceToCommandCode(Choice("nested", "function")) = Choice("flat", "tool")
        OBVIOUS
      <3>3. QED
        BY <3>1, <3>2
    <2>4. CASE c \in {"auto", "none"}
      <3>1. ChatChoice(c) = Choice("string", c) /\ MessagesChoice(c) = Choice("flat", c)
        BY <2>4 DEF ChatChoice, MessagesChoice
      <3>2. openAIToolChoiceToCommandCode(Choice("string", c)) = Choice("flat", c)
        BY <2>4
      <3>3. QED
        BY <3>1, <3>2
    <2>5. QED
      BY <2>1, <2>2, <2>3, <2>4
  <1>3. ASSUME NEW c \in C, c # "tool"
        PROVE  ResponsesChoice(c) = ChatChoice(c)
    BY <1>3 DEF ResponsesChoice
  <1>4. MostTokens \in Nat /\ UsualTokens \in Nat /\ 1 <= UsualTokens /\ UsualTokens <= MostTokens
    BY DEF MostTokens, UsualTokens
  <1>5. ASSUME NEW n \in Nat
        PROVE  /\ defaultMaxTokens(n) \in 1..MostTokens
               /\ n \in 1..MostTokens => defaultMaxTokens(n) = n
    <2>1. n <= 0 => defaultMaxTokens(n) = UsualTokens
      BY <1>4 DEF defaultMaxTokens
    <2>2. n > MostTokens => defaultMaxTokens(n) = MostTokens
      BY <1>4 DEF defaultMaxTokens
    <2>3. n > 0 /\ n <= MostTokens => defaultMaxTokens(n) = n
      BY <1>4 DEF defaultMaxTokens
    <2>4. QED
      BY <1>4, <2>1, <2>2, <2>3
  <1>6. QED
    BY <1>1, <1>2, <1>3, <1>5 DEF SettingsAgree
-----------------------------------------------------------------------------
(* Nothing is lost. *)

\* What is heard of a part with a role.
HeardSet == {HeardPart(q) : q \in TaggedPart}
HeardFun == [q \in TaggedPart |-> HeardPart(q)]
HeardFrom(role) == [p \in OutPart |-> HeardPart([role |-> role, part |-> p])]

\* It is heard of the parts of a turn one by one.
LEMMA HeardTagged ==
    ASSUME NEW role \in Roles, NEW ps \in Seq(OutPart)
    PROVE  Mapped(HeardFun, Tagged(role, ps)) = Mapped(HeardFrom(role), ps)
  <1> DEFINE g == [p \in OutPart |-> [role |-> role, part |-> p]]
  <1>1. Tagged(role, ps) = Mapped(g, ps) /\ IsFun(g, OutPart, TaggedPart)
    BY TaggedProperties
  <1>2. \A p \in OutPart : HeardFrom(role)[p] = HeardFun[g[p]]
    <2>1. \A p \in OutPart : g[p] \in TaggedPart /\ g[p] = [role |-> role, part |-> p]
      BY <1>1 DEF IsFun
    <2> HIDE DEF g
    <2>2. QED
      BY <2>1 DEF HeardFrom, HeardFun
  <1> HIDE DEF g
  <1>3. Mapped(HeardFun, Mapped(g, ps)) = Mapped(HeardFrom(role), ps)
    BY <1>2, MappedMapped
  <1>4. QED
    BY <1>1, <1>3

\* What is heard of each kind of part.
LEMMA PartsHeard ==
    ASSUME NEW role \in Roles
    PROVE  /\ IsFun(HeardFrom(role), OutPart, HeardSet)
           /\ \A x \in Text : HeardFrom(role)[TextC(x)] = Heard(role, "text", "", x)
           /\ HeardFrom(role)[ImageC] = Heard(role, "image", "", <<>>)
           /\ \A id \in ToolIDs, in \in Sendable :
                 HeardFrom(role)[CallC(id, in)] = Heard(role, "tool-call", id, <<>>)
           /\ \A id \in ToolIDs, name \in Names, x \in Text, error \in BOOLEAN :
                 HeardFrom(role)[ResultC(id, name, x, error)] = Heard(role, "tool-result", id, x)
  <1>1. IsFun(HeardFrom(role), OutPart, HeardSet)
    BY DEF IsFun, HeardFrom, HeardSet, TaggedPart
  <1>2. \A p \in OutPart : HeardFrom(role)[p] = Heard(role, p.type,
                      IF p.type \in {"tool-call", "tool-result"} THEN p.id ELSE "",
                      IF p.type \in {"text", "tool-result"} THEN p.text ELSE <<>>)
    BY DEF HeardFrom, HeardPart
  <1>3. \A x \in Text : HeardFrom(role)[TextC(x)] = Heard(role, "text", "", x)
    <2>1. \A x : TextC(x).type = "text" /\ TextC(x).text = x
      BY DEF TextC
    <2>2. QED
      BY <1>2, <2>1, OutParts
  <1>4. HeardFrom(role)[ImageC] = Heard(role, "image", "", <<>>)
    <2>1. ImageC.type = "image"
      BY DEF ImageC
    <2>2. QED
      BY <1>2, <2>1, OutParts
  <1>5. \A id \in ToolIDs, in \in Sendable :
           HeardFrom(role)[CallC(id, in)] = Heard(role, "tool-call", id, <<>>)
    <2> SUFFICES ASSUME NEW id \in ToolIDs, NEW in \in Sendable
                 PROVE  HeardFrom(role)[CallC(id, in)] = Heard(role, "tool-call", id, <<>>)
      OBVIOUS
    <2> DEFINE p == CallC(id, in)
    <2>1. p.type = "tool-call" /\ p.id = id
      BY DEF CallC
    <2>2. p \in OutPart
      BY OutParts
    <2> HIDE DEF p
    <2>3. HeardFrom(role)[p] = Heard(role, "tool-call", id, <<>>)
      BY <1>2, <2>1, <2>2
    <2>4. QED
      BY <2>3 DEF p
  <1>6. \A id \in ToolIDs, name \in Names, x \in Text, error \in BOOLEAN :
           HeardFrom(role)[ResultC(id, name, x, error)] = Heard(role, "tool-result", id, x)
    <2> SUFFICES ASSUME NEW id \in ToolIDs, NEW name \in Names, NEW x \in Text, NEW error \in BOOLEAN
                 PROVE  HeardFrom(role)[ResultC(id, name, x, error)] = Heard(role, "tool-result", id, x)
      OBVIOUS
    <2> DEFINE p == ResultC(id, name, x, error)
    <2>1. p.type = "tool-result" /\ p.id = id /\ p.text = x
      BY DEF ResultC
    <2>2. p \in OutPart
      BY OutParts
    <2> HIDE DEF p
    <2>3. HeardFrom(role)[p] = Heard(role, "tool-result", id, x)
      BY <1>2, <2>1, <2>2
    <2>4. QED
      BY <2>3 DEF p
  <1>7. QED
    BY <1>1, <1>3, <1>4, <1>5, <1>6

\* What is heard of a text.
LEMMA TextHeard ==
    ASSUME NEW role \in Roles, NEW x \in Text
    PROVE  Mapped(HeardFrom(role), TextsC(x)) = HeardText(role, x)
  <1>1. CASE x = <<>>
    <2>1. TextsC(x) = <<>> /\ HeardText(role, x) = <<>>
      BY <1>1 DEF TextsC, HeardText
    <2>2. QED
      BY <2>1, MappedFew
  <1>2. CASE x # <<>>
    <2>1. TextsC(x) = <<TextC(x)>> /\ HeardText(role, x) = <<Heard(role, "text", "", x)>>
      BY <1>2 DEF TextsC, HeardText
    <2>2. HeardFrom(role)[TextC(x)] = Heard(role, "text", "", x)
      BY PartsHeard
    <2>3. QED
      BY <2>1, <2>2, MappedFew
  <1>3. QED
    BY <1>1, <1>2

\* What is heard of an answer's calls.
LEMMA CallsHeard ==
    ASSUME NEW api \in APIs, NEW t \in Turns, t.kind = "answer"
    PROVE  Mapped(HeardFrom("assistant"), Mapped(CallFun(api, t), t.calls))
              = [k \in DOMAIN t.calls |-> Heard("assistant", "tool-call", t.calls[k].id, <<>>)]
  <1> DEFINE g == [c \in Tool |-> Heard("assistant", "tool-call", c.id, <<>>)]
             s == t.calls
  <1>1. s \in Seq(Tool)
    BY TurnFields
  <1>2. \A c \in Tool : g[c] = HeardFrom("assistant")[CallFun(api, t)[c]]
    <2> SUFFICES ASSUME NEW c \in Tool PROVE g[c] = HeardFrom("assistant")[CallFun(api, t)[c]]
      OBVIOUS
    <2>1. CallFun(api, t)[c] = CallC(c.id, InputSent(api, t, c))
      BY DEF CallFun
    <2>2. c.id \in ToolIDs /\ InputSent(api, t, c) \in Sendable
      BY InputTypes DEF Tool
    <2>3. "assistant" \in Roles
      BY DEF Roles
    <2>4. HeardFrom("assistant")[CallC(c.id, InputSent(api, t, c))]
             = Heard("assistant", "tool-call", c.id, <<>>)
      BY <2>2, <2>3, PartsHeard
    <2>5. QED
      BY <2>1, <2>4
  <1>3. Mapped(g, s) = [k \in DOMAIN s |-> Heard("assistant", "tool-call", s[k].id, <<>>)]
    <2>1. \A k \in DOMAIN s : s[k] \in Tool
      BY <1>1, LenProperties, ElementOfSeq
    <2> HIDE DEF s
    <2>2. QED
      BY <2>1 DEF Mapped
  <1> HIDE DEF g, s
  <1>4. Mapped(HeardFrom("assistant"), Mapped(CallFun(api, t), s)) = Mapped(g, s)
    BY <1>1, <1>2, MappedMapped
  <1>5. QED
    BY <1>3, <1>4 DEF s

\* What there is to be heard of a turn, where the user has the given role.
HeardOf(api, t, user) ==
    CASE t.kind = "system" -> IF api = "responses" THEN HeardText("system", t.text) ELSE <<>>
      [] t.kind = "user" -> HeardText(user, t.text)
                            \o (IF t.image THEN <<Heard(user, "image", "", <<>>)>> ELSE <<>>)
      [] t.kind = "answer" ->
            (IF api = "messages" THEN HeardText("assistant", t.thinking) ELSE <<>>)
            \o HeardText("assistant", t.text)
            \o [k \in DOMAIN t.calls |-> Heard("assistant", "tool-call", t.calls[k].id, <<>>)]
      [] t.kind = "result" -> <<Heard("tool", "tool-result", t.id, t.text)>>

\* It is heard of what is sent of the turn.
LEMMA TurnHeard ==
    ASSUME NEW api \in APIs, NEW t \in Turns, NEW names, NEW user \in {"user", "tool"}
    PROVE  Mapped(HeardFun, SentBy(api, t, names, user)) = HeardOf(api, t, user)
  <1> DEFINE ps == SentParts(api, t, names)
             role == SentRole(t, user)
  <1>1. role \in Roles /\ ps \in Seq(OutPart)
    BY SentByTypes, SentTypes
  <1>2. Mapped(HeardFun, SentBy(api, t, names, user)) = Mapped(HeardFrom(role), ps)
    BY <1>1, HeardTagged DEF SentBy
  <1>3. t.kind \in {"system", "user", "answer", "result"} /\ t.text \in Text
    BY TurnFields
  <1>4. IsFun(HeardFrom(role), OutPart, HeardSet)
    BY <1>1, PartsHeard
  <1>5. \A x \in Text : Mapped(HeardFrom(role), TextsC(x)) = HeardText(role, x) /\ TextsC(x) \in Seq(OutPart)
    BY <1>1, TextHeard, OutParts
  <1>6. Mapped(HeardFrom(role), <<>>) = <<>> /\ <<>> \in Seq(OutPart)
    BY MappedFew, EmptySeq
  <1>7. \A a, b \in Seq(OutPart) : /\ a \o b \in Seq(OutPart)
                                   /\ Mapped(HeardFrom(role), a \o b)
                                         = Mapped(HeardFrom(role), a) \o Mapped(HeardFrom(role), b)
    BY <1>4, MappedConcat, ConcatProperties
  <1>8. CASE t.kind = "system"
    <2>1. role = "system" /\ ps = IF api = "responses" THEN TextsC(t.text) ELSE <<>>
      BY <1>8 DEF SentRole, SentParts
    <2>2. HeardOf(api, t, user) = IF api = "responses" THEN HeardText("system", t.text) ELSE <<>>
      BY <1>8 DEF HeardOf
    <2> HIDE DEF ps, role
    <2>3. QED
      BY <1>2, <1>3, <1>5, <1>6, <2>1, <2>2
  <1>9. CASE t.kind = "user"
    <2> DEFINE w == IF t.image THEN <<ImageC>> ELSE <<>>
               x == IF t.image THEN <<Heard(user, "image", "", <<>>)>> ELSE <<>>
    <2>1. role = user /\ ps = TextsC(t.text) \o w
      BY <1>9 DEF SentRole, SentParts
    <2>2. HeardOf(api, t, user) = HeardText(user, t.text) \o x
      BY <1>9 DEF HeardOf
    <2> HIDE DEF ps, role
    <2>3. w \in Seq(OutPart) /\ Mapped(HeardFrom(role), w) = x
      <3>1. <<ImageC>> \in Seq(OutPart)
        BY OutParts
      <3>2. Mapped(HeardFrom(role), <<ImageC>>) = <<Heard(user, "image", "", <<>>)>>
        <4>1. HeardFrom(role)[ImageC] = Heard(role, "image", "", <<>>)
          BY <1>1, PartsHeard
        <4>2. Mapped(HeardFrom(role), <<ImageC>>) = <<HeardFrom(role)[ImageC]>>
          BY MappedFew
        <4>3. QED
          BY ONLY <2>1, <4>1, <4>2
      <3>3. QED
        BY <1>6, <3>1, <3>2
    <2> HIDE DEF w, x
    <2>4. QED
      BY <1>2, <1>3, <1>5, <1>7, <2>1, <2>2, <2>3
  <1>10. CASE t.kind = "answer"
    <2> DEFINE u == IF api = "messages" THEN TextsC(t.thinking) ELSE <<>>
               v == IF api = "messages" THEN HeardText("assistant", t.thinking) ELSE <<>>
               w == Mapped(CallFun(api, t), t.calls)
               x == [k \in DOMAIN t.calls |-> Heard("assistant", "tool-call", t.calls[k].id, <<>>)]
    <2>1. role = "assistant"
      BY <1>10 DEF SentRole
    <2>2. ps = (u \o TextsC(t.text)) \o w
      <3>1. ps = (u \o TextsC(t.text))
                 \o [i \in DOMAIN t.calls |-> CallC(t.calls[i].id, InputSent(api, t, t.calls[i]))]
        BY <1>10 DEF SentParts
      <3>2. [i \in DOMAIN t.calls |-> CallC(t.calls[i].id, InputSent(api, t, t.calls[i]))] = w
        BY <1>10, CallsMapped
      <3>3. QED
        BY <3>1, <3>2
    <2>3. HeardOf(api, t, user) = (v \o HeardText("assistant", t.text)) \o x
      BY <1>10 DEF HeardOf
    <2>4. w \in Seq(OutPart) /\ Mapped(HeardFrom("assistant"), w) = x
      BY <1>10, CallsMapped, CallsHeard
    <2> HIDE DEF ps, role, w, x
    <2>5. u \in Seq(OutPart) /\ Mapped(HeardFrom(role), u) = v
      <3>1. t.thinking \in Text
        BY <1>10, TurnFields
      <3>2. QED
        BY <1>5, <1>6, <2>1, <3>1
    <2> HIDE DEF u, v
    <2>6. /\ u \o TextsC(t.text) \in Seq(OutPart)
          /\ Mapped(HeardFrom(role), u \o TextsC(t.text)) = v \o HeardText(role, t.text)
      BY <1>3, <1>5, <1>7, <2>5
    <2>7. Mapped(HeardFrom(role), (u \o TextsC(t.text)) \o w) = (v \o HeardText(role, t.text)) \o x
      BY <1>7, <2>1, <2>4, <2>6
    <2>8. QED
      BY <1>2, <2>1, <2>2, <2>3, <2>7
  <1>11. CASE t.kind = "result"
    <2> DEFINE name == Named(t.id, names, Otherwise(api))
               error == ErrorSent(api, t)
    <2>1. role = "tool" /\ ps = <<ResultC(t.id, name, t.text, error)>>
      BY <1>11 DEF SentRole, SentParts
    <2>2. HeardOf(api, t, user) = <<Heard("tool", "tool-result", t.id, t.text)>>
      BY <1>11 DEF HeardOf
    <2>3. t.id \in ToolIDs /\ name \in Names /\ error \in BOOLEAN
      <3>1. t.id \in ToolIDs /\ t.error \in BOOLEAN
        BY <1>11, TurnFields
      <3>2. Otherwise(api) \in {"unknown", ""}
        BY DEF Otherwise
      <3>3. error \in BOOLEAN
        BY <3>1 DEF ErrorSent, Prefixed, APIs
      <3>4. QED
        BY <3>1, <3>2, <3>3, NamedType
    <2> HIDE DEF name, error, ps, role
    <2>4. HeardFrom("tool")[ResultC(t.id, name, t.text, error)] = Heard("tool", "tool-result", t.id, t.text)
      BY <1>1, <1>3, <2>1, <2>3, PartsHeard
    <2>5. QED
      BY <1>2, <2>1, <2>2, <2>4, MappedFew
  <1>12. QED
    BY <1>3, <1>8, <1>9, <1>10, <1>11

\* It is what the property says there is to be heard.
LEMMA ToHearIs ==
    ASSUME history \in Seq(Turns), NEW api \in APIs, NEW i \in DOMAIN history
    PROVE  Mapped(HeardFun, SentIn(api, history)[i]) = ToHear(api, i)
  <1> DEFINE t == history[i]
             user == UserIn(api, history, i)
  <1>1. /\ t \in Turns /\ user \in {"user", "tool"} /\ i \in Nat /\ i >= 1
        /\ SentIn(api, history)[i] = SentOf(api, history, i, user)
    <2>1. DOMAIN history = 1..Len(history)
      BY LenProperties
    <2>2. QED
      BY <2>1, SentInTypes
  <1>2. user = IF api = "messages" /\ WithResult(i) THEN "tool" ELSE "user"
    BY DEF UserIn, UserOf, ResultNear, WithResult
  <1>3. CASE t.kind = "system"
    <2>1. ToHear(api, i) = IF api = "responses" /\ i > 1 THEN HeardText("system", t.text) ELSE <<>>
      BY <1>3 DEF ToHear
    <2>2. CASE i = 1
      <3>1. SentIn(api, history)[i] = <<>>
        BY <1>1, <1>3, <2>2 DEF SentOf
      <3>2. QED
        BY <2>1, <2>2, <3>1, MappedFew
    <2>3. CASE i # 1
      <3>1. SentIn(api, history)[i] = SentBy(api, t, CalledIn(api, history), user)
        BY <1>1, <2>3 DEF SentOf
      <3>2. Mapped(HeardFun, SentIn(api, history)[i]) = HeardOf(api, t, user)
        BY <1>1, <3>1, TurnHeard
      <3>3. HeardOf(api, t, user) = IF api = "responses" THEN HeardText("system", t.text) ELSE <<>>
        BY <1>3 DEF HeardOf
      <3>4. i > 1
        BY <1>1, <2>3
      <3>5. QED
        BY <2>1, <3>2, <3>3, <3>4
    <2>4. QED
      BY <2>2, <2>3
  <1>4. CASE t.kind # "system"
    <2>1. SentIn(api, history)[i] = SentBy(api, t, CalledIn(api, history), user)
      BY <1>1, <1>4 DEF SentOf
    <2>2. Mapped(HeardFun, SentIn(api, history)[i]) = HeardOf(api, t, user)
      BY <1>1, <2>1, TurnHeard
    <2>3. t.kind \in {"user", "answer", "result"}
      BY <1>1, <1>4, TurnFields
    <2>4. CASE t.kind = "user"
      BY <1>2, <2>2, <2>4, Zenon DEF HeardOf, ToHear
    <2>5. CASE t.kind = "answer"
      BY <1>2, <2>2, <2>5, Zenon DEF HeardOf, ToHear
    <2>6. CASE t.kind = "result"
      BY <1>2, <2>2, <2>6, Zenon DEF HeardOf, ToHear
    <2>7. QED
      BY <2>3, <2>4, <2>5, <2>6
  <1>5. QED
    BY <1>3, <1>4

\* Nothing is lost of a history.
LEMMA AllHeard ==
    ASSUME history \in Seq(Turns)
    PROVE  NothingLost
  <1> SUFFICES ASSUME NEW api \in APIs
               PROVE  [i \in DOMAIN Flat(Request(api)) |-> HeardPart(Flat(Request(api))[i])]
                         = FlattenSeq([i \in DOMAIN history |-> ToHear(api, i)])
    BY RequestSent DEF NothingLost
  <1> DEFINE flat == Flat(Request(api))
             ss == SentIn(api, history)
  <1>1. flat = FlattenSeq(ss)
    BY RequestSent
  <1>2. ss \in Seq(Seq(TaggedPart)) /\ DOMAIN ss = DOMAIN history
    BY SentInTypes
  <1>3. \A i \in DOMAIN history : Mapped(HeardFun, ss[i]) = ToHear(api, i)
    BY ToHearIs
  <1> HIDE DEF flat, ss
  <1>4. flat \in Seq(TaggedPart)
    BY <1>1, <1>2, EmptySeq, FlattenProperties
  <1>5. [i \in DOMAIN flat |-> HeardPart(flat[i])] = Mapped(HeardFun, flat)
    <2>1. \A i \in DOMAIN flat : flat[i] \in TaggedPart
      BY <1>4, LenProperties, ElementOfSeq
    <2>2. QED
      BY <2>1 DEF Mapped, HeardFun
  <1>6. IsFun(HeardFun, TaggedPart, HeardSet)
    BY DEF IsFun, HeardFun, HeardSet
  <1>7. Mapped(HeardFun, FlattenSeq(ss)) = FlattenSeq([i \in DOMAIN ss |-> Mapped(HeardFun, ss[i])])
    BY <1>2, <1>6, MappedFlatten
  <1>8. [i \in DOMAIN ss |-> Mapped(HeardFun, ss[i])] = [i \in DOMAIN history |-> ToHear(api, i)]
    BY <1>2, <1>3
  <1>9. QED
    BY <1>1, <1>5, <1>7, <1>8 DEF flat
-----------------------------------------------------------------------------
(* The theorems. *)

\* In every behaviour the messages the upstream gets have content and a role it
\* knows, which is the tool's for an answer of a tool.
THEOREM Typing == Spec => []TypeOK
  <1>1. QED
    BY HistoriesInvariant, HistoriesSuffice, PTL

\* In every behaviour each API passes all of the history on.
THEOREM Losslessness == Spec => []NothingLost
  <1>1. Histories => NothingLost
    BY AllHeard DEF Histories
  <1>2. QED
    BY <1>1, HistoriesInvariant, PTL

\* In every behaviour a tool's answer has the name of the tool whose call it answers.
THEOREM Naming == Spec => []NamesFound
  <1>1. Histories => NamesFound
    BY NamesFollow DEF Histories
  <1>2. QED
    BY <1>1, HistoriesInvariant, PTL

\* In every behaviour Chat Completions and Messages mark the same failures.
THEOREM Failures == Spec => []FailuresAgree
  <1>1. Histories => FailuresAgree
    BY FailuresFollow DEF Histories
  <1>2. QED
    BY <1>1, HistoriesInvariant, PTL

\* In every behaviour a call comes back with the input it had, a string or a list
\* included, but for the three that InputBack names.
THEOREM Inputs == Spec => []InputsReturn
  <1>1. Histories => InputsReturn
    BY InputsFollow DEF Histories
  <1>2. QED
    BY <1>1, HistoriesInvariant, PTL

\* In every behaviour the APIs agree on the settings.
THEOREM Agreement == Spec => []SettingsAgree
  <1>1. Histories => SettingsAgree
    BY SettingsFollow DEF Histories
  <1>2. QED
    BY <1>1, HistoriesInvariant, PTL
=============================================================================
