---------------------------- MODULE Conversation ----------------------------
(***************************************************************************)
(* A conversation as it travels through the proxy.  The client keeps the   *)
(* history and sends all of it with every request; the proxy converts the  *)
(* request of whichever API into one CommandCode request.  A state is a    *)
(* history, with the settings of the request; the three conversions are    *)
(* operators on it:                                                        *)
(*                                                                         *)
(*   ChatRequest       OpenAIToCommandCode                                 *)
(*   MessagesRequest   AnthropicMessagesToCommandCode                      *)
(*   ResponsesRequest  OpenAIResponsesToCommandCode                        *)
(*                                                                         *)
(* A tool call in the history is one the proxy has answered before: its    *)
(* input is the one the client was given (ToolInputs).  Images in tool     *)
(* results and the fields handed through unchanged are left out.           *)
(***************************************************************************)
EXTENDS ToolInputs, SequencesExt

CONSTANTS NameOf,       \* the tool each tool call ID stands for
          ErrorPrefix,  \* the fragment "Error:"
          SystemTurns, UserTurns, AnswerTurns, ResultTurns,
          Settings,     \* tool choices and values of max_tokens, 0 for none
          MaxTurns      \* bound on the history

Text == Seq(Fragments)

\* `blocks': the content is an array of parts, not a string.
Turn == [kind : {"system"}, text : Text, blocks : BOOLEAN]
        \cup [kind : {"user"}, text : Text, image : BOOLEAN, blocks : BOOLEAN]
        \cup [kind : {"answer"}, thinking : Text, text : Text, calls : Seq(Tool),
              stream : BOOLEAN, blocks : BOOLEAN]
        \cup [kind : {"result"}, id : ToolIDs, text : Text, error : BOOLEAN,
              blocks : BOOLEAN]

ASSUME ConversationAssumption ==
    /\ DOMAIN NameOf = ToolIDs
    /\ \A t \in SystemTurns : t \in Turn /\ t.kind = "system"
    /\ \A t \in UserTurns : t \in Turn /\ t.kind = "user"
    /\ \A t \in AnswerTurns : t \in Turn /\ t.kind = "answer"
    /\ \A t \in ResultTurns : t \in Turn /\ t.kind = "result"
    /\ \A t \in AnswerTurns : t.text = <<>> => t.calls # <<>>
    /\ Settings \subseteq [choice : {"nil", "auto", "none", "any", "tool"}, max : Nat]
    /\ MaxTurns \in Nat \ {0}

VARIABLES history,    \* turns
          used,       \* IDs of the tool calls there have been
          waiting,    \* those whose results are still to come
          settings    \* tool choice and max_tokens of the requests

vars == <<history, used, waiting, settings>>
-----------------------------------------------------------------------------
(* The client. *)

Init == /\ history = <<>>
        /\ used = {}
        /\ waiting = {}
        /\ settings \in Settings

Say(t) == /\ Len(history) < MaxTurns
          /\ history' = Append(history, t)
          /\ UNCHANGED settings

SystemSays(t) == Say(t) /\ UNCHANGED <<used, waiting>>

\* The user may speak before a tool has answered.
UserSays(t) == Say(t) /\ UNCHANGED <<used, waiting>>

\* The upstream's answer: IDs of tool calls are not repeated.
Answers(t) == LET ids == {t.calls[i].id : i \in DOMAIN t.calls}
              IN  /\ history # <<>> /\ waiting = {}
                  /\ Last(history).kind \in {"user", "result"}
                  /\ Say(t)
                  /\ ids \cap used = {}
                  /\ used' = used \cup ids
                  /\ waiting' = ids

ToolAnswers(t) == /\ t.id \in waiting
                  /\ Say(t)
                  /\ waiting' = waiting \ {t.id}
                  /\ UNCHANGED used

\* The client drops the oldest turn to save context, whatever follows it.
Forget == /\ Len(history) = MaxTurns
          /\ history' = Tail(history)
          /\ UNCHANGED <<used, waiting, settings>>

Next == \/ \E t \in SystemTurns : SystemSays(t)
        \/ \E t \in UserTurns : UserSays(t)
        \/ \E t \in AnswerTurns : Answers(t)
        \/ \E t \in ResultTurns : ToolAnswers(t)
        \/ Forget

Spec == Init /\ [][Next]_vars
-----------------------------------------------------------------------------
(* What clients send: contents, parts and messages of the three APIs. *)

String(t)   == [blocks |-> FALSE, parts |-> <<[type |-> "text", text |-> t]>>]
Parts(ps)   == [blocks |-> TRUE, parts |-> ps]
NoContent   == [blocks |-> FALSE, parts |-> <<>>]
TextPart(t)  == [type |-> "text", text |-> t]
ImagePart    == [type |-> "image"]
UsePart(id, in)  == [type |-> "tool_use", id |-> id, input |-> in]
ResultPart(t)    == [type |-> "tool_result", id |-> t.id, text |-> t.text, error |-> t.error]

UserParts(t) == <<TextPart(t.text)>> \o (IF t.image THEN <<ImagePart>> ELSE <<>>)

Content(t) == IF t.blocks THEN Parts(<<TextPart(t.text)>>) ELSE String(t.text)

Message(role, content) == [role |-> role, content |-> content, calls |-> <<>>, id |-> ""]

\* The value of a text that is JSON; the text itself if it is not.
Parsed(s) == CASE s = "null"         -> "nil"
               [] s = "literal"      -> "string"
               [] s = "json-literal" -> "json"
               [] s = "json"         -> "held"    \* the object the string holds
               [] OTHER              -> s

\* The input of a call, as the client of each API has it from the answer.
ChatInput(t, c)     == IF t.stream THEN ChatArguments(c) ELSE Arguments(c)
MessagesInput(t, c) == IF t.stream THEN Parsed(ToolContent(c)[3]) ELSE InputMap(c)[3]

\* Chat Completions.  With `blocks' calls and results are parts of the content.
ChatMessage(t) ==
    CASE t.kind = "system" -> Message("system", Content(t))
      [] t.kind = "user" -> Message("user", IF t.blocks \/ t.image THEN Parts(UserParts(t))
                                            ELSE String(t.text))
      [] t.kind = "answer" /\ ~t.blocks ->
            [Message("assistant", IF t.text = <<>> THEN NoContent ELSE String(t.text))
                EXCEPT !.calls = [i \in DOMAIN t.calls |->
                          [id |-> t.calls[i].id, arguments |-> ChatInput(t, t.calls[i])]]]
      [] t.kind = "answer" /\ t.blocks ->
            Message("assistant",
                    Parts(<<TextPart(t.text)>> \o
                          [i \in DOMAIN t.calls |->
                              UsePart(t.calls[i].id, Parsed(ChatInput(t, t.calls[i])))]))
      [] t.kind = "result" /\ ~t.blocks ->
            [Message("tool", String(t.text)) EXCEPT !.id = t.id]
      [] t.kind = "result" /\ t.blocks -> Message("user", Parts(<<ResultPart(t)>>))

\* Messages.  What the user and the tools say in a row is one message.
Spoken(t) == t.kind \in {"user", "result"}

MessagesMessage(t) ==
    CASE t.kind = "system" -> Message("system", Content(t))
      [] t.kind = "user" -> Message("user", Parts(UserParts(t)))
      [] t.kind = "result" -> Message("user", Parts(<<ResultPart(t)>>))
      [] t.kind = "answer" ->
            Message("assistant",
                    Parts((IF t.thinking = <<>> THEN <<>>
                           ELSE <<[type |-> "thinking", text |-> t.thinking]>>)
                          \o (IF t.text = <<>> THEN <<>> ELSE <<TextPart(t.text)>>)
                          \o [i \in DOMAIN t.calls |->
                                 UsePart(t.calls[i].id, MessagesInput(t, t.calls[i]))]))

\* The last message, with what is said next.
Joined(m, t) == Message(m.role, Parts(m.content.parts \o MessagesMessage(t).content.parts))

AddTurn(messages, t) ==
    IF Spoken(t) /\ messages # <<>> /\ Last(messages).role = "user"
    THEN Append(Front(messages), Joined(Last(messages), t))
    ELSE Append(messages, MessagesMessage(t))

MessagesMessages(h) == FoldLeft(AddTurn, <<>>, h)

\* Responses: a call and a result are items of their own.
Item(type, role, content, id, arguments) ==
    [type |-> type, role |-> role, content |-> content, id |-> id, arguments |-> arguments]

ResponsesItems(t) ==
    IF t.kind = "answer" /\ ~t.blocks
    THEN (IF t.text = <<>> THEN <<>>
          ELSE <<Item("message", "assistant", Parts(<<TextPart(t.text)>>), "", "")>>)
         \o [i \in DOMAIN t.calls |-> Item("function_call", "", NoContent, t.calls[i].id,
                                           Arguments(t.calls[i]))]
    ELSE IF t.kind = "result"
    THEN <<Item("function_call_output", "", String(t.text), t.id, "")>>
    ELSE <<Item("message", ChatMessage(t).role, ChatMessage(t).content, "", "")>>

\* A system turn at the start is the request's own field (system, instructions).
Opening(h)  == IF h # <<>> /\ Head(h).kind = "system" THEN <<Head(h)>> ELSE <<>>
Rest(h)     == SubSeq(h, Len(Opening(h)) + 1, Len(h))
-----------------------------------------------------------------------------
(* The conversions: parts. *)

\* The value of a JSON text; an empty object if it is none.
TryParseJSON(s) == IF s = "string" THEN "{}" ELSE Parsed(s)

TextC(t)   == [type |-> "text", text |-> t]
ImageC     == [type |-> "image"]
CallC(id, in) == [type |-> "tool-call", id |-> id, name |-> NameOf[id], input |-> in]
ResultC(id, name, text, error) ==
    [type |-> "tool-result", id |-> id, name |-> name, text |-> text, error |-> error]

\* An empty text makes no part.
TextsC(t) == IF t = <<>> THEN <<>> ELSE <<TextC(t)>>

\* The name of a tool, when its call has one in the map.
Named(id, names, otherwise) == IF id \in names THEN NameOf[id] ELSE otherwise

openAIContentPartToCommandCode(p, names) ==
    CASE p.type = "text"     -> TextsC(p.text)
      [] p.type = "image"    -> <<ImageC>>
      [] p.type = "tool_use" -> <<CallC(p.id, p.input)>>
      [] p.type = "tool_result" ->
            <<ResultC(p.id, Named(p.id, names, "unknown"), p.text, p.error)>>

anthropicContentPartToCommandCode(p, names) ==
    CASE p.type \in {"text", "thinking"} -> TextsC(p.text)
      [] p.type = "image"    -> <<ImageC>>
      [] p.type = "tool_use" -> <<CallC(p.id, p.input)>>
      [] p.type = "tool_result" -> <<ResultC(p.id, Named(p.id, names, ""), p.text, p.error)>>

\* Mutant: only the first part counts.
MutOpenAIContent(content, names) ==
    IF content.parts = <<>> THEN <<>>
    ELSE openAIContentPartToCommandCode(Head(content.parts), names)

\* A string is converted as its one part is.
openAIContentToCommandCode(content, names) ==
    FlattenSeq([i \in DOMAIN content.parts |->
                   openAIContentPartToCommandCode(content.parts[i], names)])

\* The text of a tool's answer.
contentToString(content) == FlattenSeq([i \in DOMAIN content.parts |-> content.parts[i].text])

commandCodeContentHasType(content, type) == \E i \in DOMAIN content : content[i].type = type

RoleOf(role, content) ==
    IF commandCodeContentHasType(content, "tool-result") THEN "tool" ELSE role

CommandCodeMessage(role, content) == [role |-> role, content |-> content]
-----------------------------------------------------------------------------
(* The conversions: requests. *)

\* Mutant: every message is sent.
MutNonEmpty(m) == <<m>>

\* A message without content is not sent.
NonEmpty(m) == IF m.content = <<>> THEN <<>> ELSE <<m>>

\* Nor does an empty text become part of the system text.
SystemPart(text) == IF text = <<>> THEN <<>> ELSE <<text>>

\* Mutant: the last call is not looked at.
MutBuildOpenAIToolNameMap(messages) ==
    UNION {{messages[i].calls[j].id : j \in 1..(Len(messages[i].calls) - 1)} :
           i \in DOMAIN messages}

\* The IDs of the calls in tool_calls; those in the content are not looked for.
buildOpenAIToolNameMap(messages) ==
    UNION {{messages[i].calls[j].id : j \in DOMAIN messages[i].calls} : i \in DOMAIN messages}

\* Mutant: the prefix is not looked at.
MutOpenaiToolMessage(m, names) ==
    CommandCodeMessage("tool", <<ResultC(m.id, Named(m.id, names, "unknown"),
                                         contentToString(m.content), FALSE)>>)

openaiToolMessageToCommandCode(m, names) ==
    LET output == contentToString(m.content)
    IN  CommandCodeMessage("tool",
            <<ResultC(m.id, Named(m.id, names, "unknown"), output,
                      output # <<>> /\ Head(output) = ErrorPrefix)>>)

openaiMessageToCommandCode(m, names) ==
    IF m.role = "tool" THEN openaiToolMessageToCommandCode(m, names)
    ELSE LET content == openAIContentToCommandCode(m.content, names)
         IN  CommandCodeMessage(RoleOf(m.role, content),
                 content \o [i \in DOMAIN m.calls |->
                                 CallC(m.calls[i].id, TryParseJSON(m.calls[i].arguments))])

\* Only a system message whose content is a string is heard.
OpenAIToCommandCode(messages) ==
    LET names      == buildOpenAIToolNameMap(messages)
        Systems(m) == IF m.role = "system" /\ ~m.content.blocks
                      THEN SystemPart(contentToString(m.content)) ELSE <<>>
        Said(m)    == IF m.role = "system" THEN <<>>
                      ELSE NonEmpty(openaiMessageToCommandCode(m, names))
    IN  [system   |-> FlattenSeq([i \in DOMAIN messages |-> Systems(messages[i])]),
         messages |-> FlattenSeq([i \in DOMAIN messages |-> Said(messages[i])])]

buildAnthropicToolNameMap(messages) ==
    UNION {{messages[i].content.parts[j].id :
               j \in {j \in DOMAIN messages[i].content.parts :
                          messages[i].content.parts[j].type = "tool_use"}} :
           i \in {i \in DOMAIN messages : messages[i].role = "assistant"}}

anthropicMessageToCommandCode(m, names) ==
    LET content == FlattenSeq([i \in DOMAIN m.content.parts |->
                       anthropicContentPartToCommandCode(m.content.parts[i], names)])
    IN  CommandCodeMessage(RoleOf(m.role, content), content)

\* The system field and every system message are heard.
AnthropicMessagesToCommandCode(system, messages) ==
    LET names      == buildAnthropicToolNameMap(messages)
        Systems(m) == IF m.role = "system" THEN SystemPart(contentToString(m.content)) ELSE <<>>
        Said(m)    == IF m.role = "system" THEN <<>>
                      ELSE NonEmpty(anthropicMessageToCommandCode(m, names))
    IN  [system   |-> FlattenSeq([i \in DOMAIN system |-> SystemPart(system[i].text)])
                      \o FlattenSeq([i \in DOMAIN messages |-> Systems(messages[i])]),
         messages |-> FlattenSeq([i \in DOMAIN messages |-> Said(messages[i])])]

responsesToolNameMap(items) ==
    {items[i].id : i \in {i \in DOMAIN items : items[i].type = "function_call"}}

responseInputItemToCommandCode(item, names) ==
    CASE item.type = "function_call_output" ->
            CommandCodeMessage("tool", <<ResultC(item.id, Named(item.id, names, "unknown"),
                                                 contentToString(item.content), FALSE)>>)
      [] item.type = "function_call" ->
            CommandCodeMessage("assistant", <<CallC(item.id, TryParseJSON(item.arguments))>>)
      [] item.type = "message" ->
            LET content == openAIContentToCommandCode(item.content, names)
            IN  CommandCodeMessage(RoleOf(item.role, content), content)

\* The instructions are the system text; other system messages keep their place.
OpenAIResponsesToCommandCode(instructions, items) ==
    LET names == responsesToolNameMap(items)
    IN  [system   |-> FlattenSeq([i \in DOMAIN instructions |-> SystemPart(instructions[i].text)]),
         messages |-> FlattenSeq([i \in DOMAIN items |->
                          NonEmpty(responseInputItemToCommandCode(items[i], names))])]

\* The request of each API for the present history.
ChatRequest == OpenAIToCommandCode([i \in DOMAIN history |-> ChatMessage(history[i])])

MessagesRequest ==
    AnthropicMessagesToCommandCode(Opening(history), MessagesMessages(Rest(history)))

ResponsesRequest ==
    LET rest == Rest(history)
    IN  OpenAIResponsesToCommandCode(Opening(history),
            FlattenSeq([i \in DOMAIN rest |-> ResponsesItems(rest[i])]))

-----------------------------------------------------------------------------
(* The settings. *)

Choice(form, type) == [form |-> form, type |-> type]

\* How clients of the three APIs put a choice.  That of one tool is an object:
\* Chat Completions nests the name in a "function", Responses does not.
ChatChoice(c) == CASE c = "nil"  -> Choice("nil", "")
                   [] c = "any"  -> Choice("string", "required")
                   [] c = "tool" -> Choice("nested", "function")
                   [] OTHER      -> Choice("string", c)
ResponsesChoice(c) == IF c = "tool" THEN Choice("flat", "function") ELSE ChatChoice(c)
MessagesChoice(c)  == IF c = "nil" THEN Choice("nil", "") ELSE Choice("flat", c)

\* Mutant: "required" is not known.
MutOpenAIToolChoice(c) ==
    CASE c.form = "string" -> Choice("flat", IF c.type = "none" THEN c.type ELSE "auto")
      [] c = Choice("nested", "function") -> Choice("flat", "tool")
      [] OTHER -> c

openAIToolChoiceToCommandCode(c) ==
    CASE c.form = "string" -> Choice("flat", CASE c.type \in {"auto", "none"} -> c.type
                                               [] c.type = "required" -> "any"
                                               [] OTHER -> "auto")
      [] c = Choice("nested", "function") -> Choice("flat", "tool")
      [] OTHER -> c

\* Every known choice is already what the upstream takes.
anthropicToolChoiceToCommandCode(c) == c

\* The most the upstream takes, and what it is asked for without a max_tokens.
MostTokens  == 200000
UsualTokens == 64000

defaultMaxTokens(n) == CASE n <= 0 -> UsualTokens [] n > MostTokens -> MostTokens [] OTHER -> n
-----------------------------------------------------------------------------
(* Properties. *)

APIs == {"chat", "messages", "responses"}
Request(api) == CASE api = "chat"      -> ChatRequest
                  [] api = "messages"  -> MessagesRequest
                  [] api = "responses" -> ResponsesRequest

\* All parts of a request, each with the role of its message.
Flat(request) ==
    FlattenSeq([i \in DOMAIN request.messages |->
        [j \in DOMAIN request.messages[i].content |->
            [role |-> request.messages[i].role, part |-> request.messages[i].content[j]]]])
Parts3(api, type) == {p.part : p \in {p \in ToSet(Flat(Request(api))) : p.part.type = type}}

\* The histories are those of the turns there are, and what the upstream gets
\* are messages with content in the roles it knows.
TypeOK == /\ history \in Seq(SystemTurns \cup UserTurns \cup AnswerTurns \cup ResultTurns)
          /\ waiting \subseteq used /\ used \subseteq ToolIDs
          /\ settings \in Settings
          /\ \A api \in APIs : \A m \in ToSet(Request(api).messages) :
                /\ m.role \in {"system", "user", "assistant", "tool"}
                /\ m.content # <<>>
                /\ commandCodeContentHasType(m.content, "tool-result") => m.role = "tool"

\* What there is to be heard of a turn.
Heard(role, type, id, text) == [role |-> role, type |-> type, id |-> id, text |-> text]
HeardText(role, text) == IF text = <<>> THEN <<>> ELSE <<Heard(role, "text", "", text)>>

\* Messages puts what the user says in a row with a tool's answer in one message.
WithResult(i) == \E j \in DOMAIN history :
    /\ history[j].kind = "result"
    /\ \A k \in DOMAIN history : (i <= k /\ k <= j) \/ (j <= k /\ k <= i) => Spoken(history[k])

ToHear(api, i) ==
    LET t == history[i]
        user == IF api = "messages" /\ WithResult(i) THEN "tool" ELSE "user"
    IN  CASE t.kind = "system" ->
                IF api = "responses" /\ i > 1 THEN HeardText("system", t.text) ELSE <<>>
          [] t.kind = "user" ->
                HeardText(user, t.text)
                \o IF t.image THEN <<Heard(user, "image", "", <<>>)>> ELSE <<>>
          [] t.kind = "answer" ->
                (IF api = "messages" THEN HeardText("assistant", t.thinking) ELSE <<>>)
                \o HeardText("assistant", t.text)
                \o [k \in DOMAIN t.calls |-> Heard("assistant", "tool-call", t.calls[k].id, <<>>)]
          [] t.kind = "result" -> <<Heard("tool", "tool-result", t.id, t.text)>>

HeardPart(p) == Heard(p.role, p.part.type,
                      IF p.part.type \in {"tool-call", "tool-result"} THEN p.part.id ELSE "",
                      IF p.part.type \in {"text", "tool-result"} THEN p.part.text ELSE <<>>)

\* The system turns an API passes on as such: Chat Completions those that are
\* strings, Responses the one at the start, Messages all.
HeardAsSystem(api, i) ==
    /\ history[i].kind = "system"
    /\ CASE api = "chat"      -> ~history[i].blocks
         [] api = "responses" -> i = 1
         [] api = "messages"  -> TRUE

\* Every text, image, call and result of the history reaches the upstream once
\* and in its place, whatever the API, how contents are put and where the
\* history was cut.  Two exceptions: a user's text next to a tool's answer in
\* Messages has the role of the tool, and a system text that Chat Completions
\* has as an array is lost.
NothingLost == \A api \in APIs :
    LET flat == Flat(Request(api))
    IN  /\ [i \in DOMAIN flat |-> HeardPart(flat[i])]
              = FlattenSeq([i \in DOMAIN history |-> ToHear(api, i)])
        /\ Request(api).system = FlattenSeq([i \in DOMAIN history |->
              IF HeardAsSystem(api, i) /\ history[i].text # <<>> THEN <<history[i].text>> ELSE <<>>])

\* A tool's answer carries the tool's name as long as its call is in the history,
\* although call and answer are turns apart; but not when the call was a part of
\* a content, outside of Messages.
NamesFound == \A api \in APIs : \A p \in Parts3(api, "tool-result") :
    p.name = IF \E i \in DOMAIN history :
                    /\ history[i].kind = "answer"
                    /\ api = "messages" \/ ~history[i].blocks
                    /\ \E j \in DOMAIN history[i].calls : history[i].calls[j].id = p.id
             THEN NameOf[p.id]
             ELSE IF api = "messages" THEN "" ELSE "unknown"

\* A client whose failed tools say so gets them marked the same by Chat
\* Completions and Messages; Responses marks none.
Prefixed(t) == t.text # <<>> /\ Head(t.text) = ErrorPrefix
Marked(api) == {p.id : p \in {p \in Parts3(api, "tool-result") : p.error}}
FailuresAgree ==
    /\ (\A i \in DOMAIN history : history[i].kind = "result" =>
            (history[i].error <=> Prefixed(history[i])))
       => Marked("chat") = Marked("messages")
    /\ Marked("responses") = {}

\* What an input comes back as, where it is not what it was.
InputBack(api, t, in) ==
    CASE api = "messages" /\ ~t.stream /\ in # "object" -> "{}"
      [] api # "messages" /\ in = "json"                -> "held"
      [] api # "messages" /\ in = "string" /\ ~t.blocks -> "{}"
      [] OTHER                                          -> in

\* A call comes back to the upstream with the input it had, through the answer to
\* the client and the client's next request, and an absent input as absent or as
\* an empty object.  Three inputs do not: from a Messages response that is not
\* streamed, whatever is no object comes back as {}; in the other APIs a string
\* that holds an object comes back as that object, and one that is no JSON, from
\* tool_calls or a function_call, as {}.
InputsReturn == \A api \in APIs : \A p \in Parts3(api, "tool-call") :
    \E i \in DOMAIN history :
        /\ history[i].kind = "answer"
        /\ \E c \in ToSet(history[i].calls) :
              /\ c.id = p.id
              /\ \/ p.input = InputBack(api, history[i], c.input)
                 \/ c.input = "nil" /\ p.input = "{}"

\* The upstream is given the same tool choice and a legal max_tokens by every
\* API, but for the choice of one tool in Responses, which is not translated.
SettingsAgree ==
    LET c == settings.choice
        n == defaultMaxTokens(settings.max)
    IN  /\ openAIToolChoiceToCommandCode(ChatChoice(c))
              = anthropicToolChoiceToCommandCode(MessagesChoice(c))
        /\ c # "tool" => openAIToolChoiceToCommandCode(ResponsesChoice(c))
                             = openAIToolChoiceToCommandCode(ChatChoice(c))
        /\ n \in 1..MostTokens
        /\ settings.max \in 1..MostTokens => n = settings.max
=============================================================================
