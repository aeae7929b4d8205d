------------------------------ MODULE Deadlines ------------------------------
(***************************************************************************)
(* The clocks of one request.  net/http sets a deadline for the reading of *)
(* the request and one for the writing of the response when it has read    *)
(* the header; the middleware gives the request a context with a deadline; *)
(* the handler waits for the initialisation, for the body, for the         *)
(* upstream's answer and for each of its lines, each with a limit of its   *)
(* own.  What the handler writes is held back in a buffer of the           *)
(* connection until that is full or the handler returns.                   *)
(***************************************************************************)
EXTENDS Integers

CONSTANTS ReadTimeout, WriteTimeout,   \* of the http.Server
          RequestDeadline,             \* of RequestTimeout's context
          InitTimeout,                 \* of each request of the initialisation
          StreamIdle, NonStreamIdle,   \* the idle timeouts
          Buffer,                      \* writes the connection's buffer holds
          MaxLines                     \* bound on the upstream's lines

ASSUME DeadlineAssumption ==
    /\ ReadTimeout \in Nat /\ WriteTimeout \in Nat /\ RequestDeadline \in Nat
    /\ InitTimeout \in Nat /\ StreamIdle \in Nat /\ NonStreamIdle \in Nat
    /\ Buffer \in Nat /\ MaxLines \in Nat
    /\ ReadTimeout <= RequestDeadline
    /\ WriteTimeout <= RequestDeadline
    /\ WriteTimeout <= NonStreamIdle

VARIABLES
    streaming,  \* the request's mode
    body,       \* "buffered": read along with the header; "sent": all of it is
                \* in the socket; "slow": the client takes its time
    now,        \* time since the header was read
    stage,      \* "fingerprint", "lifecycle", "body", "forward", "read", "returned"
    since,      \* when the present wait began
    lines,      \* lines read from the upstream
    written,    \* what the handler has written: one for each Write
    received,   \* what of it has been sent to the client
    answer      \* how it ended: "none", "refused", "failed", "idle", "complete"

dlVars == <<streaming, body, now, stage, since, lines, written, received, answer>>

\* The initialisation is due or not (InitManager).
DLInit == /\ streaming \in BOOLEAN
          /\ body \in {"buffered", "sent", "slow"}
          /\ now = 0
          /\ stage \in {"fingerprint", "body"}
          /\ since = 0
          /\ lines = 0
          /\ written = 0
          /\ received = 0
          /\ answer = "none"

Idle == IF streaming THEN StreamIdle ELSE NonStreamIdle

Earlier(a, b) == IF a < b THEN a ELSE b

\* Mutant: the wait for a line does not end with the context.
MutLimit ==
    CASE stage \in {"fingerprint", "lifecycle"} ->
                Earlier(since + InitTimeout, RequestDeadline)
      [] stage = "body" -> IF body = "slow" THEN ReadTimeout ELSE 0
      [] stage = "forward" -> RequestDeadline
      [] stage = "read" -> since + Idle
      [] stage = "returned" -> 0

\* The time at which the present wait ends at the latest.  Nothing but the read
\* deadline ends the wait for a body; the other waits end with the context.
Limit ==
    CASE stage \in {"fingerprint", "lifecycle"} ->
                Earlier(since + InitTimeout, RequestDeadline)
      [] stage = "body" -> IF body = "slow" THEN ReadTimeout ELSE 0
      [] stage = "forward" -> RequestDeadline
      [] stage = "read" -> Earlier(since + Idle, RequestDeadline)
      [] stage = "returned" -> 0

DLTick == /\ now < Limit
          /\ now' = now + 1
          /\ UNCHANGED <<streaming, body, stage, since, lines, written, received, answer>>

Proceed(from, to) == /\ stage = from
                     /\ stage' = to
                     /\ since' = now
                     /\ UNCHANGED <<streaming, body, now, lines, written, received, answer>>
-----------------------------------------------------------------------------
(* EnsureInitialized and the body. *)

\* Each request of the initialisation ends with an answer, a failure, its own
\* timeout or the context's: the handler goes on.
sendFingerprintRecord == Proceed("fingerprint", "lifecycle")
sendLifecycleEvent    == Proceed("lifecycle", "body")

\* A read after the read deadline fails although the bytes may have arrived.
decodeRequestBody == /\ body = "buffered" \/ now < ReadTimeout
                     /\ Proceed("body", "forward")
-----------------------------------------------------------------------------
(* Writes. *)

\* Mutant: what is still in the buffer is not sent.
MutReply(result, n) == /\ stage' = "returned"
                       /\ answer' = result
                       /\ written' = written + n
                       /\ UNCHANGED <<streaming, body, now, since, lines, received>>

\* The handler writes the rest of its answer and returns: net/http sends what is
\* in the buffer, unless the write deadline has passed.
Reply(result, n) == /\ stage' = "returned"
                    /\ answer' = result
                    /\ written' = written + n
                    /\ received' = IF now < WriteTimeout THEN written + n ELSE received
                    /\ UNCHANGED <<streaming, body, now, since, lines>>

\* Mutant: the buffer is sent only at the end.
MutWrite == /\ written' = written + 1
            /\ UNCHANGED received

\* One Write of delayedSSEWriter.  Its writer is LoggingMiddleware's
\* responseWriter, which is no http.Flusher: the event stays in the buffer, until
\* that overflows.
Write == /\ written' = written + 1
         /\ IF written' - received <= Buffer
            THEN UNCHANGED received
            ELSE \E r \in (received + 1)..written' :
                    written' - r <= Buffer /\ received' = r

\* Mutant: the read deadline refuses a body that was read along with the header.
MutBodyRefused == /\ stage = "body"
                  /\ now >= ReadTimeout
                  /\ Reply("refused", 1)

BodyRefused == /\ stage = "body"
               /\ body # "buffered"
               /\ now >= ReadTimeout
               /\ Reply("refused", 1)
-----------------------------------------------------------------------------
(* Forward and the response. *)

ForwardAnswers == /\ now < RequestDeadline
                  /\ Proceed("forward", "read")

ForwardFails == stage = "forward" /\ Reply("failed", 1)

\* A line has come: the idle timer starts again, a stream writes its event.
ReadLine == /\ stage = "read"
            /\ now < RequestDeadline
            /\ lines < MaxLines
            /\ lines' = lines + 1
            /\ since' = now
            /\ IF streaming THEN Write ELSE UNCHANGED <<written, received>>
            /\ UNCHANGED <<streaming, body, now, stage, answer>>

\* The body ends: [DONE] or the JSON object.
Complete == /\ stage = "read"
            /\ now < RequestDeadline
            /\ Reply("complete", 1)

\* Mutant: the idle timer is that of streams in both modes.
MutIdleTimeout == /\ stage = "read"
                  /\ now >= since + StreamIdle
                  /\ Reply("idle", 1)

IdleTimeout == /\ stage = "read"
               /\ now >= since + Idle
               /\ Reply("idle", 1)

\* The upstream breaks off, or the context ends: a stream that has begun is
\* not told (handleStreamingError).
ReadBreaks == /\ stage = "read"
              /\ Reply("failed", IF streaming /\ written > 0 THEN 0 ELSE 1)

Handle == \/ sendFingerprintRecord \/ sendLifecycleEvent
          \/ decodeRequestBody \/ BodyRefused
          \/ ForwardAnswers \/ ForwardFails
          \/ ReadLine \/ Complete \/ IdleTimeout \/ ReadBreaks

DLNext == DLTick \/ Handle

DLSpec == DLInit /\ [][DLNext]_dlVars
-----------------------------------------------------------------------------
(* Properties. *)

DLTypeOK == /\ streaming \in BOOLEAN
            /\ body \in {"buffered", "sent", "slow"}
            /\ now \in Nat
            /\ stage \in {"fingerprint", "lifecycle", "body", "forward", "read", "returned"}
            /\ since \in Nat
            /\ lines \in 0..MaxLines
            /\ written \in Nat
            /\ received \in Nat
            /\ answer \in {"none", "refused", "failed", "idle", "complete"}

\* The handler has returned when the deadline of the request has passed,
\* whatever it waited for: the initialisation, the client or the upstream.
HandledInTime == now <= RequestDeadline

\* README: "Non-streaming idle timeout is 90 seconds."  Its answer, a 429 with
\* advice, never reaches the client: the write deadline has passed by then.
LateIdleUnheard == answer = "idle" /\ ~streaming => received = 0

\* A body that the client has sent at once is refused as invalid only because
\* the initialisation, which comes first, has outlasted the read deadline.
RefusedAfterSlowInit == answer = "refused" =>
    body = "slow" \/ (body = "sent" /\ since >= ReadTimeout)

\* What is written reaches the client, at the latest when the handler returns;
\* only at the write deadline up to a buffer full of events is lost, together
\* with the answer.
LostOnlyAtDeadline ==
    /\ stage # "returned" => written - received <= Buffer
    /\ stage = "returned" /\ received < written =>
            now >= WriteTimeout /\ written - received <= Buffer + 1

\* CHANGELOG: "Add streaming flusher": while a stream waits for the next line,
\* the client has all events of the lines before.
EventsFlushed == stage = "read" => received = written
=============================================================================
