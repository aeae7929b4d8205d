# A TLA+ model of CommandCode Bridge

CommandCode Bridge is a Go reverse proxy. Clients speak the OpenAI Chat
Completions API, the OpenAI Responses API or the Anthropic Messages API to it;
it forwards their requests to one upstream, CommandCode, whose answer is always
a stream of NDJSON events, and translates the events back: into server-sent
events for a client that streams, into one JSON object for one that does not.

This directory models the proxy: the parts in which several things happen at
once or in an order nobody fixed, the conversions of requests and responses,
and the life of the process around them. TLC checks the models on small
instances; TLAPS proves every safety property the passing runs check, for every
value of the constants. `PROJECT.json` maps every definition to the lines it models and lists
the runs, the mutants that show that each property can fail, the findings, the
hazards and the theorems.

## The system

| Part | State it keeps | Operations | Talks to |
| --- | --- | --- | --- |
| HTTP handlers (`internal/http/handlers.go`) | per request: the upstream response, `delayedSSEWriter.started`, output tokens; for the process: `consecutiveTimeouts` | HandleChatCompletions, HandleResponses(Compact), HandleMessages, HandleMessagesCountTokens, HandleModels, the collectors | all other parts |
| Line pump (`streaming/translator.go`) | a channel, `done`, the scanner goroutine, the idle timer | ScanLines, NextLine, three translation loops, two collecting loops | the upstream body, the client |
| Anthropic translator (`streaming/anthropic.go`) | StreamContext: the open block, block numbers, `finished` | ParseLine with one handler per event type | the line pump |
| Chat and Responses translation (`streaming/translator.go`, `handlers.go`, `protocol/`) | text, reasoning, tool calls and usage collected so far | ParseLine, collectCommandCodeAnthropicContent, commandCodeStreamToOpenAI, commandCodeStreamToOpenAIResponsesSSE | the line pump |
| Request conversion (`protocol/converter.go`, `helpers.go`, `responses.go`) | none; the history is the client's | OpenAIToCommandCode, AnthropicMessagesToCommandCode, OpenAIResponsesToCommandCode | the handlers |
| Session store (`internal/session`) | a sync.Map from API key to session | Resolve, Get, Create, Cleanup, StartCleanup, Stop | the handlers, the clock |
| Initialisation manager (`internal/client/init.go`) | `nextInitAt` under a mutex | EnsureInitialized and its two requests | the handlers, the upstream, the clock |
| Upstream client (`internal/client/client.go`) | none of its own; reads the CLI version | Forward, ForwardAnthropicCountTokens | the upstream |
| Model list (`internal/models`) | cached models, last fetch, a refresh goroutine | GetModels, fetchFromProvider, StartRefresh | the Provider API |
| CLI version (`pkg/version`) | the version, a refresh goroutine | GetCommandCodeVersion, RefreshCommandCodeVersion, StartAutoRefresh | the npm registry |
| Configuration (`internal/config`, `cmd/proxy/main.go`) | config.json on disk | Load, Save, environment overrides, Validate | the file system, the user |
| Process (`cmd/proxy/main.go`, `internal/http/server.go`) | main, the server and refresh goroutines, `s.server` | Start, Shutdown, the signal | all other parts |
| Deadlines (`server.go`, `middleware.go`, `handlers.go`) | a read and a write deadline of the connection, a context with a 90 s deadline, idle timers of 30 s and 90 s | RequestTimeout, the limits of each wait | the handlers |
| Other middleware (`middleware.go`) | none | CORS, size limit, logging, authentication | the handlers |

A request runs in a goroutine of its own. It calls EnsureInitialized, then the
session store, converts its body, calls Forward, looks at the upstream status
and reads the body through the line pump, which adds one goroutine. Requests
meet in five places: the session store, `nextInitAt`, `consecutiveTimeouts`, the
model cache and the CLI version. A client that leaves, and the 90 s deadline,
cancel the request context, which breaks the read of the upstream body.

### What is hard

* **Hand-over between goroutines.** The scanner and the loop share an unbuffered
  channel, and either may stop first: at the end of the body, on a read error,
  on an idle timeout, on a line that does not parse, on a failed write.
* **Failure after the beginning.** A stream can fail after its `200` has been
  sent. Six branches of the handlers deal with upstream errors, each in its own
  code.
* **Check, then act.** The session store, EnsureInitialized and GetModels look
  at shared state, let go of it, and act on what they saw.
* **Shared counters.** `consecutiveTimeouts` is changed by all requests, and not
  by all branches in the same way.
* **Event order.** Text, reasoning, tool calls and finishes come in any order;
  the Messages stream has to open, number and close content blocks for them.
* **Several translations of the same thing**, four of the events and three of
  the history, that have to agree, and to fit together: what the client was
  answered is in its next request.
* **Time.** The clock moves between any two steps; lifetimes have a jitter; the
  limits of one request race each other.
* **Crashes and edits.** The process can die between truncating and writing its
  configuration, and a user edits the file meanwhile. A signal may come before
  the server exists.

### What makes each part correct

* Line pump: lines in order and complete, backpressure, success only of a
  complete body, both goroutines end.
* Handlers: one status line and first, `200` only when the upstream said so,
  `[DONE]` only after a complete stream, a verdict for the client, every request
  answered and its upstream response released, advice that is justified.
* Session store: a key's own, live session; expired sessions go; live ones stay,
  except for races that are named.
* Initialisation manager: not repeated too early, however many handlers pass the test.
* Anthropic translator: wherever the stream is cut, what the client has received
  starts once, has well-formed blocks with numbers that go on, and ends once.
* Translations: streaming and non-streaming clients get the same content, but for
  differences that are named.
* Conversions: the upstream gets the whole history in order, with the calls and
  the names of their tools, whichever API it comes by, and the inputs of the calls
  but for some that are no objects.
* Model list: answers are no older than an interval and a fetch; a list is
  replaced only when due or by an overlap; a fallback is not for ever.
* Process: what the user wrote and the fingerprint survive; a signal stops it,
  requests that are not too long are not cut off; it comes to serve again.
* Deadlines: a request is handled in time; a client misses an answer, or is
  refused, only for reasons that are named.

## Modules

```
LineStream  <--implements--  StreamPump     <-- StreamPump_proofs
                                 .
                                 . (RequestHandler sees what LineStream promises)
                             RequestHandler <-- MCRequestHandler, RequestHandler_proofs
                                 .
                                 . (which idle timers can fire, and who hears of it)
                             Deadlines      <-- Lifetimes_proofs
                             ProxyProcess   <-- Lifetimes_proofs
                             SessionStore   <-- SessionStore_proofs
                             InitManager    <-- MCInitManager, Managers_proofs
                             ModelManager   <-- Managers_proofs

StreamEvents <-- ToolInputs <-- AnthropicStream --implements--> AnthropicWire
                     |               |
                     |               v
                     |          ResponseModes <-- MCResponseModes, ResponseModes_proofs
                     v
                 Conversation <-- MCConversation, Conversation_proofs

SequenceLemmas  <-- ResponseModes_proofs, Conversation_proofs
```

An arrow points to a module that EXTENDS the other; a dotted line is a
composition through an assumption that the other module justifies. Managers_proofs
and Lifetimes_proofs extend two modules each, so one of the two has its
specification, its tuple of variables and its step counter under names of its own (`IMSpec` and
`stage` in InitManager, `DLSpec` and `stage` in Deadlines).

In every module an operator `Mut...` that stands before a definition is a
plausible bug in that definition. It is used by no specification; putting it in
the definition's place must break the property `PROJECT.json` names with it.

### LineStream, StreamPump

`StreamPump` has one process counter for each of the two goroutines (`spc` for
ScanLines, `cpc` for the loop and its handler), what the upstream has sent
(`sent`, `body`), what was taken and written (`delivered`, `written`), `done`, the client
and the request context. Every select is a choice between actions: the scanner
offers a line and it is taken (`TakeLine`) or `done` is closed (`Abandon`); the
loop takes a line, an error (`TakeError`), the closed channel (`TakeClosed`) or
its timer (`IdleTimeout`), which may win whenever it runs. The three outcomes of
a line are `HandleBlank`, `HandleBad` and `WriteEvents`/`WriteFails`. `HandlerReturns`
is the deferred Close and cancel. The module is written after
TranslateStreamWithIdleTimeout; the loops of the Anthropic and Responses streams
and of the collectors have the same shape. A line that says `[DONE]` is no case of its
own: the loops of the collectors (handlers.go:937 and 1027) and of the Responses
stream skip it, like other lines without output; in the Chat and Messages streams it
does not parse, and `HandleBad` is what happens.

`LineStream` is what the callers rely on: lines are delivered in order, then the
loop ends once, and `ok` is claimed only of a body read to its end or to a blank
line. `StreamPump` implements it.

### RequestHandler

One process per request with a pc that follows the handler: `decode` (body and
everything before the upstream is called), `forward`, `status`, `read`, `end`
(the loop has returned) and `returned`. `wire` is what is put on the
ResponseWriter, in order: a status line (the implicit `200` of the first write
included), data, error events, `[DONE]`. `SSE` is delayedSSEWriter. The events of
the body are of three kinds: with content, finish, and the rest; `Writes` and
`TracksUsage` say what each endpoint and mode makes of them. The actions after `end` are the ways
out: `StreamDone`, `StreamZero`, `StreamFails`, `StreamIdle`, `CollectDone`,
`CollectZero`, `CollectFails`, `CollectIdle`, `CopyDone`. A client that leaves is not a step: it shows in `LoopEnds` as a read that breaks or a
write that fails, at any time. `ended` and `advised`
are history variables for the counter. The responses `500` for a body that cannot be
marshalled are left out: a body that was decoded can be encoded again.

The line pump is used by its abstract specification: lines, then one result.
`IdleIn` holds the modes in which the idle timer may fire at all; both are
allowed. `Deadlines` shows what becomes of a timeout in each mode.

### Deadlines

The clocks of one request, from the moment its header has been read: the
server's read and write deadline, the context's deadline, the limits of the two
initialisation requests and the idle timer. `stage` is what the handler waits for,
`Limit` how long at most; time passes (`DLTick`) up to that limit and no further,
so a deadline that nobody watches would show as a clock that runs on. `written` and `received` tell
what the handler has written from what has left the connection's buffer:
responseWriter of LoggingMiddleware embeds http.ResponseWriter and is no
http.Flusher, so events wait until the buffer is full or the handler returns.

### SessionStore

`Resolve` is `UseHeader`, or `Begin` and then `Load`, `ReturnLoaded` or `Generate`
and `Store`: every sync.Map operation is a step of its own, and the clock may
move between two of them. Cleanup takes its time once (`CleanupStart`), looks at
the keys in any order (`Keep`, `Judge`) and deletes by key (`Delete`), which is a
step after the judgement. The jitter is `n % max` and can be negative: randInt64
negates a negative number, and the least int64 stays what it is.

### InitManager

EnsureInitialized is `NotDue`, or `Due`, the two requests and `UpdateNext`. The
mutex covers the test and the update only. The result of the requests is
logged and otherwise ignored, so it is not part of the state: `nextInitAt` is set
whatever becomes of them.

### ModelManager

`Check` is GetModels up to the end of the read lock: answer from the cache or
begin a fetch. The provider reads its list at one time (`ProviderReads`) and the
answer arrives at another (`FetchSucceeds`), so a list may be old when it is
stored. `FetchFails` is every other outcome, a client that has left included, and
stores the hardcoded list just the same. The ticker's channel holds one tick
(`due`). All times are ages, relative to now, which keeps the state finite
without a bound on the clock. `oldest` is a history variable. `main` starts the background
goroutine with an empty API key: a provider that wants one refuses it (`keyed`).

### ProxyProcess

`main` step by step, with the file on disk (`disk`), what the user last made of
it (`user`), the configuration in memory (`cfg`), the goroutines of StartRefresh
and of Start, the signal and one request in flight. `Save` is two steps:
os.WriteFile truncates (`SaveOpens`) and then writes (`SaveWrites`) or writes a part (`SaveShort`);
`Crash` may come in between. `Start` is the container's restart policy. The panics of NewTicker (`TickerPanics`)
and of Shutdown on a server that is not there yet (`ShutdownPanics`) end the
process like a crash. One setting stands for all that the environment can
override, since Load treats them alike. The environment of a process leaves it alone,
or sets it to a value that Validate accepts or to one that it refuses (`Environments`,
`Override`), and may be another at the next start: an invalid value
keeps the proxy down whatever the file says, a valid one makes up for an invalid setting in the file. `calm` marks the point from which on
nothing more goes wrong from outside; `Recovers` speaks of what comes after it.

### StreamEvents, ToolInputs, AnthropicStream, AnthropicWire

A text is a sequence of fragments, a tool call an ID with an input that is
absent, an object, a string (which may itself hold the JSON of an object) or some other value, such as a
list; `ToolInputs` has the four forms in which the code
passes an input on. `AnthropicStream` has the fields of StreamContext
under their names, one action per handler of ParseLine, and `Write`, so that
the stream can be cut between any two events. Nothing is assumed of the order of the
upstream's events. `AnthropicWire` is the protocol of
the Messages API: message_start, blocks numbered from 0 that open, have deltas
and close, one at a time, and once message_delta with message_stop. In one thing it
gives way to the code: after message_stop blocks may follow, with the numbers going on, as
they do when a finish-step is not the last event. Only handleFinish looks at
`finished`, so the blocks of the later steps of a response of several
steps reach the client after the end of the message.

### ResponseModes

The other translations as functions of the events so far, folded over the same
`fed` that AnthropicStream has translated, and the clients that put a stream back
together (`AssembleBlocks`, `AssembleChat`, `StreamedText` and `StreamedCalls`).
The comparison is made for every sequence of events. Where the two
branches of Messages read one differently, `MessagesModesAgree` says what becomes of it:
`Heard` gives the collector the reasoning that is in `delta` only, `AsObjects` takes inputs
that are no objects for `{}`, as the collector does; the stop reason and the tokens of
message_delta, which are those of the first finish, are compared if all finishes agree
(`FinishesAgree`, `UsagesAgree`), the stop reason up to reasons the code does not know
(`KnownReasons`); and the verdict on an empty response if usage outside of finish
events is followed by a finish's (`LastUsageInFinish`). Input tokens and
cached tokens are left out.

### Conversation

A state is a history: what the system, the user, the proxy and the tools have
said, as the client keeps it. The client sends all of it with every request, may
drop its oldest turn, and puts a turn as a string or as parts. The three
conversions are operators on the history, named as in the code. A conversion goes
over its messages or items in a loop, in which `NonEmpty` skips a message without
content and `SystemPart` an empty system text; the loop is a flattened sequence
with none or one element for each. `AddTurn` is how a client of Messages builds its
list: what is said in a row becomes one message. A tool call in
the history carries the input that the proxy gave the client (`ToolInputs`), so
the round trip through a streamed or a collected answer is part of the model. `Parsed` is
the client that parses what it was sent, TryParseJSON the proxy that parses what
comes back; `InputBack` says which inputs change on the way.
Tool choice and max_tokens are converted beside it.

### Differences the properties allow for

Some differences between the branches were met for which the properties make an
exception by name, because nothing that the repository says is contradicted,
its documentation speaks of something else, or a finding reports them (the second one):

* `consecutiveTimeouts` is reset by complete streams only; a non-streaming answer
  leaves it (`Resets`).
* A Responses stream without output tokens ends without a verdict for the client
  once response.created is out. `SilentOnlyWhenCut` excepts exactly this case, and
  RequestHandlerZero reports it: README.md:404 says otherwise.
* Two overlapping first requests of one key get two session IDs
  (`DroppedOnlyByRace`); README.md:388 calls session IDs stable.
* The answer to a non-streaming idle timeout is written when the write deadline
  has passed, so no client reads it (`LateIdleUnheard`).
* A tool call without input has the arguments `null` in a Chat stream, `{}` elsewhere.
* A tool input that is a string or a list is passed on as it is in the Messages stream
  and replaced by `{}` in the Messages object (handlers.go:963), from which it comes
  back as `{}`. In the other APIs a string that holds an object comes back as that object,
  and one that is no JSON, in tool_calls or a function_call, as `{}`
  (`AsObjects`, `InputBack`).
* `delta` of a reasoning-delta event is read by the Messages stream only (`Heard`).
* Usage in events other than finish counts in Chat and Messages streams only
  (`LastUsageInFinish`).
* Of several finishes the Messages stream reports the first, the object the last
  reason and usage there are (`FinishesAgree`, `UsagesAgree`).
* An unknown finish reason is passed on in a Messages stream and is `end_turn` in the object
  (`KnownReasons`).
* Blocks that follow the first finish are sent after message_stop (`AnthropicWire`); the
  comparison is for a client that reads on.
* Every reasoning delta of a Messages stream is a thinking block of its own,
  as closeTextBlock has always closed the last one; the object has one block.
  The comparison joins adjacent blocks.
* response.completed of a Responses stream carries no function calls; a
  Responses object with calls and no text has the text `<nil>`.
* A Chat system message whose content is an array is not heard (converter.go:51).
* A call that is part of a content, outside of Messages, is not in the map of
  names, and its result is named `unknown`.
* A tool's failure is marked by a prefix in Chat, by a flag in Messages and not
  at all in Responses.
* The choice of one tool in Responses, which does not nest the name, is passed
  on untranslated (converter.go:128).

## Runs

| Run | Instance | Shows |
| --- | --- | --- |
| StreamPump | bodies of up to 3 lines, 2 kinds of parseable line | success only of complete bodies, both goroutines end, and the pump implements LineStream |
| RequestHandler | 1 request, every endpoint and mode, upstream statuses 200, 402, 500, 503, up to 3 events; or 3 requests, Chat and Responses, streaming or not, 1 event each; threshold 2 | the answer a client gets, and that there is one; advice is given exactly after that many timeouts since the last complete stream |
| RequestHandlerZero | 1 request, every endpoint and mode, 1 event | *violation*: a Responses stream without output tokens ends in silence, although README.md:404 says that zero output tokens return a retryable 429 |
| SessionStore | 2 requests, 2 keys, lifetime 1, time up to 2, 2 IDs | ownership, liveness of answers, what cleanup may drop, that expired sessions go |
| InitManager | 3 handlers, interval 2, jitter 2, time up to 9 | initialisation is not repeated within the interval, however the handlers overlap |
| ModelManager | 2 handlers and the refresh goroutine, interval 2, fetches of up to 2 | age of answers and cache, what replaces a list, the way back from the fallback |
| ProxyProcess | 2 fingerprints, 1 setting and an invalid one, the environment's setting absent, valid or invalid, requests of up to 3, shutdown waits 2 | file, fingerprint, requests in flight, end by a signal, recovery |
| Deadlines | one request, units of 15 s: 2, 6, 6, 2, 2, 6; buffer of 2 writes, 5 lines | handled in time; refusals, unheard answers and lost events explained |
| DeadlinesFlush | as Deadlines | *violation*: a stream waits for its next line with events still in the buffer, although CHANGELOG.md:6 names a streaming flusher |
| ResponseModes | all sequences of up to 4 of 16 events, in any order | the modes agree but for the differences named; the Messages stream has well-formed blocks and one end wherever it is cut |
| ResponseModesToolCalls | up to 3 events | *violation*: all tool calls of a Chat stream have index 0, although README.md:285 promises tool calling in streams |
| Conversation | histories of up to 4 turns, empty system texts and inputs of every kind among them, and what is left of them | the three conversions lose, repeat and reorder nothing; names, failures, inputs and settings |

What the proofs establish and no run would add to (the type invariants of the
modules with proofs, `Backpressure`, `InOrder` and `WrittenInStep` of StreamPump,
`UpstreamReleased` of RequestHandler) is not repeated by a run.

### Bounds

* `MaxLines = 3`: one line is held by the scanner, one is being handled and one
  is still in the body, so every overlap of the two goroutines occurs.
* `MaxEvents` in RequestHandler: 3 events are one that starts the stream, one
  that reports tokens and one that takes the report back.
* `Threshold = 2` with 3 requests: two timeouts and an answer in every order.
  The code's threshold is only compared with, and the theorem has it arbitrary.
  `MCSteps` of MCRequestHandler puts both questions to one run. Either request 1 comes
  alone (`OneByOne`; the other two are refused before it begins), or three overlap
  (`Overlapping`), with one event and one status other than 200 for each response. Of the
  three the last may be a Responses request, and requests are ordered by endpoint and mode,
  since none is singled out by its number. A handler is never held up by these bounds, as its
  loop may end at any time. The proofs have none of them.
* SessionStore: a session is created, expires, is judged and is replaced; the
  clock stops at `MaxTime` and the goroutines go on. The run may therefore stop.
  Its jitter is 0; the proofs have every jitter up to the lifetime.
* InitManager: 9 units of time are four intervals of 2.
* ModelManager: no bound on time, since times are kept as ages and these have a
  bound of their own (`AgeBound`); a fetch may take a whole interval, so a tick
  can be lost.
* ProxyProcess: no bound on starts, crashes or edits. Two fingerprints are
  an old and a new one. A request may outlast Shutdown by one unit.
* Deadlines: 15 s divides every limit of the code (30 s, 90 s, 90 s, 30 s, 30 s,
  90 s), so two limits meet exactly when they do in the code. 5 lines overflow
  the buffer twice; what the proofs say has no such bound.
* `MaxEvents = 4` in ResponseModes: content, other content, the first again and a
  finish, two finishes after two blocks, or a finish, content and another finish.
* `MaxTurns = 4` in Conversation: a question, an answer with two calls and both
  results; and, the oldest turns dropped, results without their call.
* The finite sets of statuses cover a mapped status whose code changes (402), one
  that stays (503) and one that falls to the default (500).

`CHECK_DEADLOCK FALSE` stands in the runs in which the system really may stop: when
all handlers have returned, or the clock and the IDs are used up. InitManager,
ModelManager, ProxyProcess and Conversation are checked for deadlock. Symmetry is
used for the handlers of InitManager, which has no liveness property and singles none
of them out.

### Fairness

* StreamPump: weak fairness of each goroutine, which the Go scheduler gives, and
  of `CancelContext`: the deadline of RequestTimeout expires. The idle timer is
  a part of the loop. Nothing is assumed of the upstream, which may be silent for
  ever, nor of the client.
* RequestHandler: weak fairness of each handler. None of its steps waits for
  ever: Forward has the deadline, the read loop is StreamPump's, whose
  `HandlerEnds` says that it returns.
* SessionStore: weak fairness of cleanup, whose ticker fires, and of each Get.
  Requests need not come, and Stop need not be called.
* ModelManager: time passes, the goroutine takes its ticks, a fetch ends (its
  HTTP client has a timeout). No handler need ask.
* ProxyProcess: main and the goroutines run, time passes, requests end, and the
  container is started again (`restart: unless-stopped`). Signals, crashes,
  failures and edits are not fair, and `Recovers` speaks of the case that they
  end.
* InitManager, AnthropicStream, Deadlines, Conversation: no fairness, no
  liveness property.

## Proofs

The theorems hold for every number of requests, keys, handlers, callers and lines, every
lifetime, interval, jitter, deadline and threshold. They rest on the named assumptions
of the modules, which say little more than the types of the constants (in
Deadlines also which limits the code makes no longer than which), and
on the library's theorems about sequences and finite sets. Each proof has the same shape: an
inductive invariant, that it holds initially, that every action keeps it,
and that it implies the property. Type correctness is the theorem `Typing` of each
module (`IMTyping` of InitManager, `DLTyping` of Deadlines).

* **StreamPump_proofs**: `OrderedHandover`, `OneAhead`, `StepwiseWriting`,
  `CompleteWhenOk`, `Refinement`. The properties are not inductive: that the next
  line taken is the right one needs to know what the scanner holds. `Handover` says so for
  each of its points (nothing between Scan and offer, the line after the last
  one delivered while it offers, the whole body once it has left while the loop
  runs), `ReturnedOnce` that `done` and the result are set together.
* **RequestHandler_proofs**: `StatusFirst`, `NoFalseSuccess`, `DoneIsFinal`,
  `Released`, `SilenceExplained`, `AdviceExact`. The
  invariant `Phases` says for each request what may be on the wire before, during
  and after the reading: nothing and not started; the beginning of a `200`
  response, which is not empty exactly when the writer has started; a response.
  That `started` mirrors `wire` is what keeps handleStreamingError from a second
  status line. `Released` has an invariant of its own: nothing is open before the
  upstream is called, which is why the early return of a refused body may skip the
  release. `SilenceExplained` goes through the ways out one by one (`Told`). For
  `AdviceExact` the counter is shown to be the number of timeouts since the
  last complete stream (`Counts`): requests that have ended change no more
  (`EndedReturned`), so one more end adds one timeout, none, or empties the set
  (`OneMoreEnded`, `Effects`).
* **SessionStore_proofs**: `Ownership`, `LiveAnswers`, `OnlyRacesDrop`. `Numbered` (the sessions in use anywhere have different IDs, all
  given out already), `Owned` (stored and held under the key they were made for)
  and `Judgements` (what was found expired stays so) are preserved together.
* **Managers_proofs**, InitManager: `RefreshInterval`, from the fact that
  nextInitAt lies a whole interval after the last update.
* **Managers_proofs**, ModelManager: `Freshness`, `AgeBound`, `OnlyOverlapReplaces`. The
  content is at most a fetch older than its storing (`ContentClock`), a reply no
  older than its fetch (`FetchClocks`), and `Watched` ties the age of the cache to
  the time until the next tick, to a tick that waits and to a fetch that serves one.
* **Lifetimes_proofs**, ProxyProcess: `UserSettingsKept`, `SameFingerprint`, `GracefulEnd`,
  `FileKept`. `File` and `Fingerprinted` relate, at each step of main, the
  configuration in memory to the file and to what the user wrote: they differ only
  by the environment's setting and the new fingerprint of a first run, or by an
  edit. `Clocks`: a request that Shutdown waits for is at least as old as the wait.
* **Lifetimes_proofs**, Deadlines: `InTime`, `UnheardIdle`, `RefusalExplained`,
  `LossBounded`. `Clock` says that the present wait began in the past and that none
  outlasts the deadline of the request, `Sent` that at most a buffer of what was
  written has not left, `BodyAtOnce` that no time passes over a body that is there.
* **SequenceLemmas**: the collectors, the clients and the conversions are folds and
  flattened sequences, and FoldLeft and FlattenSeq are defined by a CHOOSE of a
  function. `FoldIsRun`, `RunAppend` and `EachProperties` give them as steps: what is
  folded over one more element is one more step, and what comes of one more element
  is added at the end. They rest on `SetInduction`, which says of a *set* of numbers
  what the induction theorems of the library say of a formula, and `SeqInduction`,
  which says it of a set of sequences. `EachFlatten`, `EachEach` and `EachMapped` are
  the laws by which one loop after another is one loop.
* **ResponseModes_proofs**, in order:
  * *The stream of AnthropicTranslator*: `Refinement`: in whatever order content and
    finishes come, what the client has received is what `AnthropicWire` allows: blocks
    that are well formed, with numbers that go on, and one message_start, message_delta
    and message_stop, after which blocks may still come. The invariant says
    that the output is a chain of events each of which may follow the one before
    (`Valid`), and that StreamContext describes its last event (`Position`): an open block is
    the one of the last delta, and if none is open the last event is the end of
    block `nextBlockIndex - 1`, or message_start. `Opening` is the lemma about what
    closeTextBlock and withMessageStart put before the events of a handler.
  * *Responses and Chat Completions*: `ResponsesModes`, `ChatModes`, of every
    sequence of events. That a stream with two tool calls is still put together to
    the same text needs the parts of one call to be the only ones of the message
    when there is one (`Assembled`).
  * *Messages*: `MessagesAgree`. Stream and collector cut text into blocks at
    different events, and the collector holds text back, so the two are compared
    after every event by what the client would see if the collector flushed now
    (`Seen`). `SameContent` says that this is what the client sees of the stream;
    it needs that text and reasoning are not both held back (`OneOf`), and that the
    client's last block is the one StreamContext has open, with text in it
    (`BlocksSent`). `SameStop` says that exactly one message_delta was sent, with the stop reason
    and the tokens of the first finish (`First`), which `EndOf` shows to be the
    collector's if the later finishes have no others (`Agreeing`, `SameUsage`), and
    `SameTokens` that both count the same if the last usage is a finish's.
* **Conversation_proofs**: `Losslessness`, `Naming`, `Failures`, `Inputs`, `Agreement`,
  for histories of every length. What can happen to a history is simple, so the
  inductive invariant says little (`Histories`: the history consists of turns there
  are, and calls that wait for an answer have been made); the work is in what the
  three conversions make of *any* such history.
  * *What is sent of a turn.* `SentParts` says for each API which parts become of a
    turn, and `SentRole` in which role. `RequestSent` is the central lemma: the
    messages of a request, taken apart into parts with their roles, are what is
    sent of each turn, one turn after the other. The properties follow from it and from what is
    sent of one turn (`NamesFollow`, `FailuresFollow`, `InputsFollow`, `AllHeard`).
  * *Chat Completions and Responses*: the loop over messages or items does with
    each turn what it does with that turn alone (`ChatSent`, `ResponsesSent`), for
    every map of names. Which names the map has is a lemma of its own (`ChatNames`,
    `ResponsesNames`, `MessagesNames`). The opening of a history is not among the items, and
    `RestFlattened` says what is left.
  * *Messages*: the client joins turns, so there is no message for each turn, and
    the role of a joint message depends on turns that are yet to come. The history
    is therefore taken as what is finished and the last group of spoken turns
    (`Group`). The next turn extends the group (`GroupGrows`) or is somebody else's and
    ends it (`GroupEnds`); in either case what is sent of the messages is what is
    sent of the turns (`MessagesTagged`), where a turn has the role of the tool if a tool
    has answered in the same group (`ResultNear`, which the groups before and after
    leave alone: `NearParts`).
  * *Settings*: by cases of the choice; the limit of max_tokens for every number
    a client may send.

Only model-checked:

* liveness (`HandlerEnds`, `NoGoroutineLeak`, `EveryRequestEnds`,
  `ExpiredReclaimed`, `SignalStops`, the two `Recovers`), which needs fairness and
  ENABLED, beyond the prover.

Every safety property of a passing run, the action properties and the two
refinements included, is proved.

## Not modelled

* The CLI version: one string under a lock. Forward reads it twice and may see
  two values; nothing in the repository relates the two headers.
* HandleHealth, which reads and changes nothing; the wording of errors and logs.
* `tool-result` events of the upstream: nothing in the repository says when they come.
* Input tokens, cached tokens and what else an answer says of usage than output tokens.
* The unit of `modelRefreshIntervalMs`: config.go:23 reads the number as
  nanoseconds, README.md:133 calls it milliseconds. The models have every positive interval.
* Clients that send the name of a tool with its result.
* How much of an event has been sent when its write fails.
* Of the conversions: tool definitions, the assembly of image URLs, thinking and
  effort fields, the compact request, the project description in CommandCodeConfig;
  `output_index` of Responses events, IDs, names and timestamps.
* That initialisation requests fail: `nextInitAt` is set all the same
  (init.go:83), and nothing in the repository says otherwise.
* A user who writes the configuration during Save's own write. The contexts of the
  background goroutines, which are cancelled only when the process ends anyway.
* CORS, size limit and authentication: one decision each, without state. Of the
  size limit the handlers' answers are in the model: a count_tokens body that
  is too large is answered 400 where the other endpoints answer 413.
* Fingerprint collection, trace and thread identifiers, logging: input and output only.
* `internal/types`, `error.NormalizeUsage`, and FetchModels, SendFingerprint and
  SendLifecycleEvent of the client: no code uses them.

## Plan

Done, in this order: line pump, handlers, session store, initialisation
manager, Anthropic translator, comparison of the modes, and their proofs; model
list, process and configuration, deadlines, request conversion, the proofs of the
first three of these, the handlers' remaining safety properties, and the agreement of
the modes of all three APIs, and the properties of request conversion.

What would come next:

1. A composition of the handlers with the concrete line pump instead of its
   abstract specification, for one streaming request.
2. The refinement of a one-step store by SessionStore for a single request per key.
3. Tool definitions and the compact request in Conversation.
4. `tool-result` events, once it is known when the upstream sends them.
