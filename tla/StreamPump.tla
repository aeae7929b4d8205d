----------------------------- MODULE StreamPump -----------------------------
(***************************************************************************)
(* The two goroutines that carry one upstream response:                    *)
(*                                                                         *)
(*   the scanner   ScanLines, which reads the body and offers each line on *)
(*                 an unbuffered channel unless `done' is closed;          *)
(*   the loop      TranslateStreamWithIdleTimeout (the Anthropic and       *)
(*                 Responses loops have the same shape), which takes lines *)
(*                 with NextLine, parses each one and writes its events.   *)
(*                                                                         *)
(* Around them: the upstream that sends, ends or breaks the body, the      *)
(* client that may leave, and the request context that is cancelled then   *)
(* or when the request's deadline expires.                                 *)
(***************************************************************************)
EXTENDS Naturals, Sequences

CONSTANTS Events,    \* lines that parse
          Blank,     \* the empty line
          Bad,       \* a line that does not parse, or the tail of a cut body
          MaxLines,  \* bound on the lines of one body
          IdleOn     \* idleTimeout > 0, as both callers in production have it

ASSUME PumpAssumption ==
    /\ Blank \notin Events
    /\ Bad \notin Events
    /\ Blank # Bad
    /\ MaxLines \in Nat
    /\ IdleOn \in BOOLEAN

Line    == Events \cup {Blank, Bad}
Results == {"none", "ok", "idle", "readErr", "parseErr", "writeErr"}

VARIABLES
    sent,        \* lines of the body, as the upstream has sent them
    body,        \* "open", "eof" or "broken"
    scanned,     \* how many of them the scanner has tokenised
    spc,         \* scanner: "scan", "offer", "offerErr" or "exited"
    item,        \* the line the scanner holds
    done,        \* the loop's `done' channel is closed
    cpc,         \* handler: "next", "handle", "returned" or "exited"
    delivered,   \* lines taken from the channel
    written,     \* lines whose events the client was sent
    result,      \* what the loop returned
    clientGone,  \* the client has closed its connection
    ctxDone,     \* the request context is cancelled
    closed       \* resp.Body.Close and cancel() have run

pumpVars == <<sent, body, scanned, spc, item, done, cpc, delivered, written,
              result, clientGone, ctxDone, closed>>
upstreamVars == <<sent, body>>
scannerVars  == <<scanned, spc, item>>
loopVars     == <<done, cpc, delivered, written, result, closed>>
clientVars   == <<clientGone, ctxDone>>

LastIs(s, l) == s # <<>> /\ s[Len(s)] = l

Init == /\ sent = <<>>
        /\ body = "open"
        /\ scanned = 0
        /\ spc = "scan"
        /\ item = Blank
        /\ done = FALSE
        /\ cpc = "next"
        /\ delivered = <<>>
        /\ written = <<>>
        /\ result = "none"
        /\ clientGone = FALSE
        /\ ctxDone = FALSE
        /\ closed = FALSE
-----------------------------------------------------------------------------
(* The upstream and the client. *)

SendLine(l) == /\ body = "open"
               /\ ~closed
               /\ Len(sent) < MaxLines
               /\ sent' = Append(sent, l)
               /\ UNCHANGED <<body, scannerVars, loopVars, clientVars>>

EndBody(how) == /\ body = "open"
                /\ ~closed
                /\ body' = how
                /\ UNCHANGED <<sent, scannerVars, loopVars, clientVars>>

ClientLeaves == /\ ~clientGone
                /\ cpc # "exited"
                /\ clientGone' = TRUE
                /\ UNCHANGED <<upstreamVars, scannerVars, loopVars, ctxDone>>

\* net/http cancels the request context when it notices that the client left,
\* and RequestTimeout when the request is 90 s old.
CancelContext == /\ ~ctxDone
                 /\ cpc # "exited"
                 /\ ctxDone' = TRUE
                 /\ UNCHANGED <<upstreamVars, scannerVars, loopVars, clientGone>>
-----------------------------------------------------------------------------
(* The scanner goroutine: ScanLines. *)

ReadFails == ctxDone \/ closed \/ (body = "broken" /\ scanned = Len(sent))

\* scanner.Scan() is true: the next line of the body.
ScanLine == /\ spc = "scan"
            /\ scanned < Len(sent)
            /\ scanned' = scanned + 1
            /\ item' = sent[scanned + 1]
            /\ spc' = "offer"
            /\ UNCHANGED <<upstreamVars, loopVars, clientVars>>

\* scanner.Scan() is false at the end of the body: close(lines).
ScanEOF == /\ spc = "scan"
           /\ body = "eof"
           /\ scanned = Len(sent)
           /\ spc' = "exited"
           /\ UNCHANGED <<upstreamVars, scanned, item, loopVars, clientVars>>

\* Mutant: scanner.Err() is never looked at.
MutErrorIsEOF == /\ spc = "scan"
                 /\ ReadFails
                 /\ spc' = "exited"
                 /\ UNCHANGED <<upstreamVars, scanned, item, loopVars, clientVars>>

\* scanner.Scan() is false and scanner.Err() is not nil.
ScanError == /\ spc = "scan"
             /\ ReadFails
             /\ spc' = "offerErr"
             /\ UNCHANGED <<upstreamVars, scanned, item, loopVars, clientVars>>

\* Mutant: the terminal error is sent without a select on `done'.
MutErrNotAbandoned == /\ spc = "offer"
                      /\ done
                      /\ spc' = "exited"
                      /\ UNCHANGED <<upstreamVars, scanned, item, loopVars,
                                     clientVars>>

\* case <-done: in both selects.
Abandon == /\ spc \in {"offer", "offerErr"}
           /\ done
           /\ spc' = "exited"
           /\ UNCHANGED <<upstreamVars, scanned, item, loopVars, clientVars>>

Scanner == ScanLine \/ ScanEOF \/ ScanError \/ Abandon
-----------------------------------------------------------------------------
(* The loop.  Return is a return from it, with the deferred close(done). *)

Return(r) == /\ result' = r
             /\ cpc' = "returned"
             /\ done' = TRUE

\* The rendezvous on the channel: NextLine returns a line.
TakeLine == /\ cpc = "next"
            /\ spc = "offer"
            /\ spc' = "scan"
            /\ delivered' = Append(delivered, item)
            /\ cpc' = "handle"
            /\ UNCHANGED <<upstreamVars, scanned, item, done, written, result,
                           closed, clientVars>>

\* The rendezvous on the terminal error; the scanner then closes the channel.
TakeError == /\ cpc = "next"
             /\ spc = "offerErr"
             /\ spc' = "exited"
             /\ Return("readErr")
             /\ UNCHANGED <<upstreamVars, scanned, item, delivered, written,
                            closed, clientVars>>

\* The channel is closed and empty: NextLine returns "".
TakeClosed == /\ cpc = "next"
              /\ spc = "exited"
              /\ Return("ok")
              /\ UNCHANGED <<upstreamVars, scannerVars, delivered, written,
                             closed, clientVars>>

\* Mutant: NextLine returns "", nil when its timer fires.
MutIdleIsEnd == /\ cpc = "next"
                /\ IdleOn
                /\ Return("ok")
                /\ UNCHANGED <<upstreamVars, scannerVars, delivered, written,
                               closed, clientVars>>

\* The idle timer wins the select, even against a line about to be offered.
IdleTimeout == /\ cpc = "next"
               /\ IdleOn
               /\ Return("idle")
               /\ UNCHANGED <<upstreamVars, scannerVars, delivered, written,
                              closed, clientVars>>

HandleBlank == /\ cpc = "handle"
               /\ LastIs(delivered, Blank)
               /\ Return("ok")
               /\ UNCHANGED <<upstreamVars, scannerVars, delivered, written,
                              closed, clientVars>>

\* Mutant: a line that does not parse is parsed again.
MutRetryBad == /\ cpc = "handle"
               /\ LastIs(delivered, Bad)
               /\ UNCHANGED pumpVars

HandleBad == /\ cpc = "handle"
             /\ LastIs(delivered, Bad)
             /\ Return("parseErr")
             /\ UNCHANGED <<upstreamVars, scannerVars, delivered, written,
                            closed, clientVars>>

WriteEvents == /\ cpc = "handle"
               /\ delivered[Len(delivered)] \in Events
               /\ written' = Append(written, delivered[Len(delivered)])
               /\ cpc' = "next"
               /\ UNCHANGED <<upstreamVars, scannerVars, done, delivered, result,
                              closed, clientVars>>

\* writeSSEEvent fails once the client is gone or the write deadline is past.
WriteFails == /\ cpc = "handle"
              /\ delivered[Len(delivered)] \in Events
              /\ clientGone \/ ctxDone
              /\ Return("writeErr")
              /\ UNCHANGED <<upstreamVars, scannerVars, delivered, written,
                             closed, clientVars>>

\* The handler returns: resp.Body.Close() and cancel() run.
HandlerReturns == /\ cpc = "returned"
                  /\ cpc' = "exited"
                  /\ closed' = TRUE
                  /\ UNCHANGED <<upstreamVars, scannerVars, done, delivered,
                                 written, result, clientVars>>

Loop == \/ TakeLine \/ TakeError \/ TakeClosed \/ IdleTimeout
        \/ HandleBlank \/ HandleBad \/ WriteEvents \/ WriteFails
        \/ HandlerReturns
-----------------------------------------------------------------------------
Next == \/ \E l \in Line : SendLine(l)
        \/ \E how \in {"eof", "broken"} : EndBody(how)
        \/ ClientLeaves
        \/ CancelContext
        \/ Scanner
        \/ Loop

\* The Go scheduler runs both goroutines; the idle timer and the request
\* deadline expire.  Nothing is assumed of the upstream or of the client.
Fairness == /\ WF_pumpVars(Scanner)
            /\ WF_pumpVars(Loop)
            /\ WF_pumpVars(CancelContext)

Spec == Init /\ [][Next]_pumpVars /\ Fairness
-----------------------------------------------------------------------------
(* Properties. *)

TypeOK == /\ sent \in Seq(Line)
          /\ body \in {"open", "eof", "broken"}
          /\ scanned \in Nat
          /\ spc \in {"scan", "offer", "offerErr", "exited"}
          /\ item \in Line
          /\ done \in BOOLEAN
          /\ cpc \in {"next", "handle", "returned", "exited"}
          /\ delivered \in Seq(Line)
          /\ written \in Seq(Events)
          /\ result \in Results
          /\ clientGone \in BOOLEAN
          /\ ctxDone \in BOOLEAN
          /\ closed \in BOOLEAN

\* The scanner is never more than one line ahead of the loop: the channel is
\* unbuffered, so a slow client holds the upstream back (ScanLines).
Backpressure == /\ Len(delivered) <= scanned
                /\ scanned <= Len(delivered) + 1

\* Lines reach the loop in the order sent, none skipped or repeated, whatever
\* the two goroutines do between a Scan and its hand-over (ScanLines, NextLine).
InOrder == /\ Len(delivered) <= Len(sent)
           /\ \A i \in 1..Len(delivered) : delivered[i] = sent[i]

\* A loop that reports success has read the whole body, or the blank line it
\* takes for the end: a cut connection, a cancelled context or a timeout is
\* never reported as a complete response (ScanLines' scanner.Err branch).
OkMeansComplete == result = "ok" => \/ LastIs(delivered, Blank)
                                    \/ body = "eof" /\ delivered = sent

\* The events of every line taken are written before the next line is taken;
\* only the last one may be left unwritten.
WrittenInStep ==
    /\ Len(written) <= Len(delivered)
    /\ Len(delivered) <= Len(written) + 1
    /\ \A i \in 1..Len(written) : written[i] = delivered[i]
    /\ cpc = "next" => written = delivered

\* Both goroutines end, whatever the upstream and the client do: the handler
\* returns and ScanLines does not stay blocked on its channel or on the body.
HandlerEnds == <>(cpc = "exited")
NoGoroutineLeak == <>[](spc = "exited")

\* The pair of goroutines implements the stream of lines: scanning, the channel
\* and the timer are hidden, a line counts as delivered when the loop has taken it.
Abstract == INSTANCE LineStream
                WITH sent <- sent, body <- body, delivered <- delivered, result <- result
RefinesLineStream == Abstract!LSSpec
=============================================================================
