--------------------------- MODULE RequestHandler ---------------------------
(***************************************************************************)
(* The HTTP handlers, one process per request, sharing the process-wide    *)
(* counter consecutiveTimeouts:                                            *)
(*                                                                         *)
(*   chat       HandleChatCompletions                                      *)
(*   responses  HandleResponses and HandleResponsesCompact                 *)
(*   messages   HandleMessages                                             *)
(*   count      HandleMessagesCountTokens                                  *)
(*                                                                         *)
(* The body of the upstream response is read by the goroutines of          *)
(* StreamPump; what this module sees of them is what LineStream promises:  *)
(* lines one after the other, then one result.  `wire' is what the handler *)
(* puts on the ResponseWriter, in order.                                   *)
(***************************************************************************)
EXTENDS Integers, Sequences, FiniteSets

CONSTANTS Requests,       \* the requests in flight
          Calls,          \* the endpoints and modes they may use
          UpstreamCodes,  \* statuses other than 200 the upstream may answer
          IdleIn,         \* the stream modes in which the idle timer can fire
                          \* before the request's deadline
          Threshold,      \* timeoutReduceContextThreshold
          MaxEvents       \* bound on the events of one upstream response

Endpoints == {"chat", "responses", "messages", "count"}
Call == [endpoint : Endpoints, stream : BOOLEAN]

ASSUME HandlerAssumption ==
    /\ IsFiniteSet(Requests)
    /\ Calls \subseteq {c \in Call : c.endpoint = "count" => ~c.stream}
    /\ UpstreamCodes \subseteq Nat \ {200}
    /\ IdleIn \subseteq BOOLEAN
    /\ Threshold \in Nat \ {0}
    /\ MaxEvents \in Nat

emptyResponseRetryAfterSeconds == 10
timeoutRetryAfterSeconds == 5

VARIABLES
    call,      \* the endpoint and mode of each request
    pc,        \* "decode", "forward", "status", "read", "end" or "returned"
    upstream,  \* upstream response: "none", "open" or "released"
    code,      \* its status, 0 before it has answered
    seen,      \* events read from it
    tokens,    \* output tokens tracked so far
    outcome,   \* how the read loop ended, "none" before that
    started,   \* delayedSSEWriter.started
    wire,      \* what was put on the ResponseWriter
    advised,   \* the client was told to reduce its context
    consecutiveTimeouts,
    ended      \* the requests whose loop ended, in the order of their effect
               \* on consecutiveTimeouts

vars == <<call, pc, upstream, code, seen, tokens, outcome, started, wire,
          advised, consecutiveTimeouts, ended>>

\* What a handler puts on the wire.
StatusLine(c, retry) == [kind |-> "status", code |-> c, retry |-> retry]
Part(k)        == [kind |-> k, code |-> 0, retry |-> 0]
ErrorEvent(n)  == [kind |-> "error", code |-> 0, retry |-> n]
Items == [kind : {"status", "data", "error", "done"}, code : Nat, retry : Nat]

\* sendErrorResponse: the status, Retry-After if there is one, and a body.
ErrorResponse(c, retry) == <<StatusLine(c, retry), Part("data")>>

\* delayedSSEWriter.Write: the status and headers go out with the first write.
SSE(r, k) == IF started[r] THEN <<Part(k)>> ELSE <<StatusLine(200, 0), Part(k)>>

\* StatusCodeMap and the default of MapStatus.
MapStatus(status) ==
    CASE status \in {400, 422} -> 400
      [] status \in {401, 403} -> 401
      [] status \in {402, 429} -> 429
      [] status = 404          -> 404
      [] status = 503          -> 503
      [] OTHER                 -> 502

Init == /\ call \in [Requests -> Calls]
        /\ pc = [r \in Requests |-> "decode"]
        /\ upstream = [r \in Requests |-> "none"]
        /\ code = [r \in Requests |-> 0]
        /\ seen = [r \in Requests |-> 0]
        /\ tokens = [r \in Requests |-> 0]
        /\ outcome = [r \in Requests |-> "none"]
        /\ started = [r \in Requests |-> FALSE]
        /\ wire = [r \in Requests |-> <<>>]
        /\ advised = [r \in Requests |-> FALSE]
        /\ consecutiveTimeouts = 0
        /\ ended = <<>>

Streams(r) == call[r].stream

Goto(r, from, to) == pc[r] = from /\ pc' = [pc EXCEPT ![r] = to]

Put(r, items) == wire' = [wire EXCEPT ![r] = @ \o items]

\* The handler returns: its deferred resp.Body.Close() and cancel() run.
Release(r) == upstream' = [upstream EXCEPT ![r] = "released"]
-----------------------------------------------------------------------------
(* Before the upstream is called. *)

\* decodeRequestBody, and in count_tokens the io.ReadAll before it, which
\* answers 400 to an oversized body.
RefuseBody(r) == /\ Goto(r, "decode", "returned")
                 /\ \E c \in {400, 413} :
                       /\ c = 413 => call[r].endpoint # "count"
                       /\ Put(r, ErrorResponse(c, 0))
                 /\ UNCHANGED <<call, upstream, code, seen, tokens, outcome, started,
                                advised, consecutiveTimeouts, ended>>

\* EnsureInitialized, Resolve, conversion and json.Marshal.
Prepare(r) == /\ Goto(r, "decode", "forward")
              /\ UNCHANGED <<call, upstream, code, seen, tokens, outcome, started,
                             wire, advised, consecutiveTimeouts, ended>>

ForwardFails(r) == /\ Goto(r, "forward", "returned")
                   /\ Put(r, ErrorResponse(502, 0))
                   /\ Release(r)
                   /\ UNCHANGED <<call, code, seen, tokens, outcome, started,
                                  advised, consecutiveTimeouts, ended>>

Forward(r) == /\ Goto(r, "forward", "status")
              /\ upstream' = [upstream EXCEPT ![r] = "open"]
              /\ \E c \in UpstreamCodes \cup {200} : code' = [code EXCEPT ![r] = c]
              /\ UNCHANGED <<call, seen, tokens, outcome, started, wire, advised,
                             consecutiveTimeouts, ended>>
-----------------------------------------------------------------------------
(* The upstream status. *)

\* Mutant: any other status is retried, without a limit.
MutRetryForever(r) == /\ code[r] # 200
                      /\ Goto(r, "status", "forward")
                      /\ Release(r)
                      /\ UNCHANGED <<call, code, seen, tokens, outcome, started,
                                     wire, advised, consecutiveTimeouts, ended>>

\* handleUpstreamStatus and its copies in the non-streaming branches; 502 also
\* when io.ReadAll of the error body fails.
RelayStatus(r) == /\ code[r] # 200
                  /\ Goto(r, "status", "returned")
                  /\ \E c \in {MapStatus(code[r]), 502} : Put(r, ErrorResponse(c, 0))
                  /\ Release(r)
                  /\ UNCHANGED <<call, code, seen, tokens, outcome, started, advised,
                                 consecutiveTimeouts, ended>>

\* Mutant: a streaming handler that does not look at the upstream status.
MutStartAnyStatus(r) == /\ code[r] = 200 \/ Streams(r)
                        /\ Goto(r, "status", "read")
                        /\ IF Streams(r) /\ call[r].endpoint = "responses"
                           THEN /\ Put(r, SSE(r, "data"))
                                /\ started' = [started EXCEPT ![r] = TRUE]
                           ELSE UNCHANGED <<wire, started>>
                        /\ UNCHANGED <<call, upstream, code, seen, tokens, outcome,
                                       advised, consecutiveTimeouts, ended>>

\* The Responses stream opens with response.created, before any line is read;
\* io.Copy in count_tokens makes the status implicit.
StartReading(r) == /\ code[r] = 200
                   /\ Goto(r, "status", "read")
                   /\ IF Streams(r) /\ call[r].endpoint = "responses"
                      THEN /\ Put(r, SSE(r, "data"))
                           /\ started' = [started EXCEPT ![r] = TRUE]
                      ELSE UNCHANGED <<wire, started>>
                   /\ UNCHANGED <<call, upstream, code, seen, tokens, outcome,
                                  advised, consecutiveTimeouts, ended>>
-----------------------------------------------------------------------------
(* Reading the upstream response. *)

\* Whether an event of a kind is written out: "text" stands for every event
\* with content, "finish" for finish and finish-step, "other" for the rest.
Writes(r, kind) ==
    IF ~Streams(r) THEN {FALSE}
    ELSE CASE kind = "text"  -> {TRUE}
           [] kind = "other" -> {FALSE}
           [] kind = "finish" /\ call[r].endpoint = "chat" -> {TRUE}
           [] kind = "finish" /\ call[r].endpoint = "messages" -> BOOLEAN
           [] OTHER -> {FALSE}

\* ParseLine of the two translators looks for usage in every event, the other
\* loops in finish events only.
TracksUsage(r, kind) == \/ kind = "finish"
                        \/ Streams(r) /\ call[r].endpoint \in {"chat", "messages"}

NoUsage == -1

\* One line of the body; usage is the number of output tokens it reports.
Event(r, kind, usage) ==
    /\ pc[r] = "read"
    /\ call[r].endpoint # "count"
    /\ seen[r] < MaxEvents
    /\ seen' = [seen EXCEPT ![r] = @ + 1]
    /\ tokens' = [tokens EXCEPT ![r] =
                     IF usage # NoUsage /\ TracksUsage(r, kind)
                     THEN usage ELSE @]
    /\ \E w \in Writes(r, kind) :
          IF w THEN /\ Put(r, SSE(r, "data"))
                    /\ started' = [started EXCEPT ![r] = TRUE]
               ELSE UNCHANGED <<wire, started>>
    /\ UNCHANGED <<call, pc, upstream, code, outcome, advised,
                   consecutiveTimeouts, ended>>

\* io.Copy in count_tokens.
CopyBody(r) == /\ pc[r] = "read"
               /\ call[r].endpoint = "count"
               /\ seen[r] < MaxEvents
               /\ seen' = [seen EXCEPT ![r] = @ + 1]
               /\ Put(r, IF wire[r] = <<>> THEN <<StatusLine(200, 0), Part("data")>>
                                           ELSE <<Part("data")>>)
               /\ UNCHANGED <<call, pc, upstream, code, tokens, outcome, started,
                              advised, consecutiveTimeouts, ended>>

\* The loop returns.  "broken" is a read error (a cut connection, a request
\* context cancelled because the client left or at its deadline, an overlong
\* line) or a line that does not parse, "writeErr" a write that fails because
\* the client has left or the server's WriteTimeout is over: delayedSSEWriter
\* has started by then.  Both may come at any time.
LoopEnds(r, how) ==
    /\ Goto(r, "read", "end")
    /\ how = "writeErr" => Streams(r) /\ started[r]
    /\ how = "idle" => Streams(r) \in IdleIn /\ call[r].endpoint # "count"
    /\ outcome' = [outcome EXCEPT ![r] = how]
    /\ UNCHANGED <<call, upstream, code, seen, tokens, started, wire, advised,
                   consecutiveTimeouts, ended>>
-----------------------------------------------------------------------------
(* After the loop, one action per way out of the handler. *)

Leave(r) == /\ Goto(r, "end", "returned")
            /\ Release(r)
            /\ ended' = Append(ended, r)
            /\ UNCHANGED <<call, code, seen, tokens, outcome>>

Failed(r) == outcome[r] \in {"broken", "writeErr"}

\* timeoutMessage
Advice(count) == count >= Threshold

\* sendStreamZeroOutput, sendStreamRetryableError: a status while none was
\* sent, an event in the stream after that.
Retryable(r, retry) == IF started[r] THEN <<ErrorEvent(retry)>>
                                     ELSE ErrorResponse(429, retry)

\* Mutant: [DONE] whatever the token count.
MutDoneAnyway(r) ==
    /\ Streams(r) /\ outcome[r] = "ok"
    /\ consecutiveTimeouts' = 0
    /\ Put(r, SSE(r, "done"))
    /\ started' = [started EXCEPT ![r] = TRUE]
    /\ UNCHANGED advised
    /\ Leave(r)

\* Mutant: the counter is not reset.
MutDoneNoReset(r) ==
    /\ Streams(r) /\ outcome[r] = "ok" /\ tokens[r] > 0
    /\ Put(r, SSE(r, "done"))
    /\ started' = [started EXCEPT ![r] = TRUE]
    /\ UNCHANGED <<advised, consecutiveTimeouts>>
    /\ Leave(r)

\* The stream is complete: the counter is reset and [DONE] written.
StreamDone(r) ==
    /\ Streams(r) /\ outcome[r] = "ok" /\ tokens[r] > 0
    /\ consecutiveTimeouts' = 0
    /\ Put(r, IF call[r].endpoint = "responses"
              THEN SSE(r, "data") \o <<Part("data"), Part("done")>>
              ELSE SSE(r, "done"))
    /\ started' = [started EXCEPT ![r] = TRUE]
    /\ UNCHANGED advised
    /\ Leave(r)

\* Mutant: the error is sent only while a status can still be sent.
MutZeroSilent(r) ==
    /\ Streams(r) /\ outcome[r] = "ok" /\ tokens[r] = 0
    /\ call[r].endpoint # "responses"
    /\ consecutiveTimeouts' = 0
    /\ IF started[r] THEN UNCHANGED wire
                     ELSE Put(r, ErrorResponse(429, emptyResponseRetryAfterSeconds))
    /\ UNCHANGED <<started, advised>>
    /\ Leave(r)

\* The stream is complete but had no output tokens: chat and messages reset
\* the counter and answer a retryable error.
StreamZero(r) ==
    /\ Streams(r) /\ outcome[r] = "ok" /\ tokens[r] = 0
    /\ call[r].endpoint # "responses"
    /\ consecutiveTimeouts' = 0
    /\ Put(r, Retryable(r, emptyResponseRetryAfterSeconds))
    /\ UNCHANGED <<started, advised>>
    /\ Leave(r)

\* Mutant: handleStreamingError without the test of Started().
MutStreamFails(r) ==
    /\ Streams(r)
    /\ \/ Failed(r)
       \/ outcome[r] = "ok" /\ tokens[r] = 0 /\ call[r].endpoint = "responses"
    /\ Put(r, ErrorResponse(502, emptyResponseRetryAfterSeconds))
    /\ UNCHANGED <<started, advised, consecutiveTimeouts>>
    /\ Leave(r)

\* handleStreamingError with any other error, which is also how the Responses
\* stream reports zero output tokens: nothing is written once it has started.
StreamFails(r) ==
    /\ Streams(r)
    /\ \/ Failed(r)
       \/ outcome[r] = "ok" /\ tokens[r] = 0 /\ call[r].endpoint = "responses"
    /\ IF started[r]
       THEN UNCHANGED wire
       ELSE Put(r, ErrorResponse(502, emptyResponseRetryAfterSeconds))
    /\ UNCHANGED <<started, advised, consecutiveTimeouts>>
    /\ Leave(r)

\* handleStreamingError with ErrStreamIdleTimeout.
StreamIdle(r) ==
    /\ Streams(r) /\ outcome[r] = "idle"
    /\ consecutiveTimeouts' = consecutiveTimeouts + 1
    /\ advised' = [advised EXCEPT ![r] = Advice(consecutiveTimeouts + 1)]
    /\ Put(r, Retryable(r, timeoutRetryAfterSeconds))
    /\ UNCHANGED started
    /\ Leave(r)

\* The collectors of the non-streaming branches.
CollectDone(r) ==
    /\ ~Streams(r) /\ outcome[r] = "ok" /\ tokens[r] > 0
    /\ call[r].endpoint # "count"
    /\ Put(r, <<StatusLine(200, 0), Part("data")>>)
    /\ UNCHANGED <<started, advised, consecutiveTimeouts>>
    /\ Leave(r)

CollectZero(r) ==
    /\ ~Streams(r) /\ outcome[r] = "ok" /\ tokens[r] = 0
    /\ call[r].endpoint # "count"
    /\ Put(r, ErrorResponse(429, 0))
    /\ UNCHANGED <<started, advised, consecutiveTimeouts>>
    /\ Leave(r)

CollectFails(r) ==
    /\ ~Streams(r) /\ Failed(r)
    /\ call[r].endpoint # "count"
    /\ Put(r, ErrorResponse(502, 0))
    /\ UNCHANGED <<started, advised, consecutiveTimeouts>>
    /\ Leave(r)

CollectIdle(r) ==
    /\ ~Streams(r) /\ outcome[r] = "idle"
    /\ call[r].endpoint # "count"
    /\ consecutiveTimeouts' = consecutiveTimeouts + 1
    /\ advised' = [advised EXCEPT ![r] = Advice(consecutiveTimeouts + 1)]
    /\ Put(r, ErrorResponse(429, 0))
    /\ UNCHANGED started
    /\ Leave(r)

\* io.Copy returned, with or without an error: there is nothing left to say,
\* and the 200 is implicit if nothing was copied.
CopyDone(r) ==
    /\ call[r].endpoint = "count"
    /\ IF wire[r] = <<>> THEN Put(r, <<StatusLine(200, 0)>>) ELSE UNCHANGED wire
    /\ UNCHANGED <<started, advised, consecutiveTimeouts>>
    /\ Leave(r)
-----------------------------------------------------------------------------
Handle(r) ==
    \/ RefuseBody(r) \/ Prepare(r) \/ ForwardFails(r) \/ Forward(r)
    \/ RelayStatus(r) \/ StartReading(r)
    \/ \E kind \in {"text", "finish", "other"}, usage \in {NoUsage, 0, 1} :
          Event(r, kind, usage)
    \/ CopyBody(r)
    \/ \E how \in {"ok", "idle", "broken", "writeErr"} : LoopEnds(r, how)
    \/ StreamDone(r) \/ StreamZero(r) \/ StreamFails(r) \/ StreamIdle(r)
    \/ CollectDone(r) \/ CollectZero(r) \/ CollectFails(r) \/ CollectIdle(r)
    \/ CopyDone(r)

Next == \E r \in Requests : Handle(r)

\* Each handler runs in a goroutine of its own and none of its steps waits for
\* ever: Forward has the deadline of the request and the read loop its idle
\* timeout (StreamPump's HandlerEnds).
Fairness == \A r \in Requests : WF_vars(Handle(r))

Spec == Init /\ [][Next]_vars /\ Fairness
-----------------------------------------------------------------------------
(* Properties. *)

TypeOK ==
    /\ call \in [Requests -> Calls]
    /\ pc \in [Requests -> {"decode", "forward", "status", "read", "end", "returned"}]
    /\ upstream \in [Requests -> {"none", "open", "released"}]
    /\ code \in [Requests -> UpstreamCodes \cup {0, 200}]
    /\ seen \in [Requests -> 0..MaxEvents]
    /\ tokens \in [Requests -> Nat]
    /\ outcome \in [Requests -> {"none", "ok", "idle", "broken", "writeErr"}]
    /\ started \in [Requests -> BOOLEAN]
    /\ wire \in [Requests -> Seq(Items)]
    /\ advised \in [Requests -> BOOLEAN]
    /\ consecutiveTimeouts \in Nat
    /\ ended \in Seq(Requests)

Has(r, kind) == \E i \in 1..Len(wire[r]) : wire[r][i].kind = kind

\* A response has one status line and it comes first, although a stream can
\* fail before or after delayedSSEWriter has sent its 200.
OneStatus == \A r \in Requests : \A i \in 1..Len(wire[r]) :
                wire[r][i].kind = "status" <=> i = 1

\* A client is shown a 200 only when the upstream answered 200: whatever the
\* endpoint and mode, an upstream failure keeps a failure status.
SuccessIsUpstreams == \A r \in Requests :
    wire[r] # <<>> /\ wire[r][1].code = 200 => code[r] = 200

\* [DONE] closes a stream that was read to its end and produced tokens; it is
\* the last thing written and no error event precedes it.
DoneMeansComplete == \A r \in Requests : \A i \in 1..Len(wire[r]) :
    wire[r][i].kind = "done" =>
        /\ outcome[r] = "ok"
        /\ tokens[r] > 0
        /\ i = Len(wire[r])
        /\ ~Has(r, "error")

\* The client can tell how the response ended: a failure status, a complete
\* JSON body, [DONE] or an error event.
Verdict(r) == \/ wire[r][1].code # 200
              \/ Has(r, "done")
              \/ Has(r, "error")
              \/ ~Streams(r) /\ call[r].endpoint # "count"

\* A response that was read to its end and reported no output tokens.
Empty(r) == outcome[r] = "ok" /\ tokens[r] = 0 /\ call[r].endpoint # "count"

\* A handler leaves a client without a verdict only when a stream that had begun
\* was cut, when it copied a token count, or when a Responses stream was empty,
\* against what ZeroTokensRetryable says.
SilentOnlyWhenCut == \A r \in Requests :
    pc[r] = "returned" =>
        /\ wire[r] # <<>>
        /\ \/ Verdict(r)
           \/ Failed(r) /\ started[r]
           \/ Empty(r) /\ Streams(r) /\ call[r].endpoint = "responses"
           \/ call[r].endpoint = "count"

\* README: "Zero output tokens return a retryable `429` response": the client is
\* told by the status or, in a stream that has begun, by an error event.
ZeroTokensRetryable == \A r \in Requests :
    pc[r] = "returned" /\ Empty(r) => wire[r][1].code = 429 \/ Has(r, "error")

\* The answers that reset the counter: those of streams that were read to their
\* end.  A non-streaming answer does not.
Resets(r) == Streams(r) /\ outcome[r] = "ok"
             /\ (tokens[r] > 0 \/ call[r].endpoint # "responses")

\* The timeouts since the last of those, when the n-th loop had ended.
TimeoutsSinceReset(n) ==
    {i \in 1..n : /\ outcome[ended[i]] = "idle"
                  /\ \A j \in i..n : ~Resets(ended[j])}

\* A client is told to reduce its context exactly when Threshold timeouts of any
\* mode have come since the last complete stream, over all requests and however
\* their ends interleave (timeoutMessage, consecutiveTimeouts).
AdviceJustified == \A n \in 1..Len(ended) :
    outcome[ended[n]] = "idle" =>
        (advised[ended[n]] <=> Cardinality(TimeoutsSinceReset(n)) >= Threshold)

\* No handler returns with its upstream response open, whichever way out it
\* takes (the deferred Body.Close and cancel, which release the connection).
UpstreamReleased == \A r \in Requests : pc[r] = "returned" => upstream[r] # "open"

\* Every request is answered.
EveryRequestEnds == \A r \in Requests : <>(pc[r] = "returned")
=============================================================================
