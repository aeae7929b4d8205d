-------------------------- MODULE StreamPump_proofs --------------------------
(***************************************************************************)
(* Proofs about StreamPump, for every set of lines and every bound.        *)
(***************************************************************************)
EXTENDS StreamPump, TLAPS

\* The loop has not returned yet.
Running == cpc \in {"next", "handle"}

\* What the scanner holds, at each of its points.
Handover ==
    /\ scanned <= Len(sent)
    /\ spc \in {"scan", "offerErr"} => scanned = Len(delivered)
    /\ spc = "offer" => scanned = Len(delivered) + 1 /\ item = sent[scanned]
    /\ spc = "exited" /\ Running =>
           body = "eof" /\ scanned = Len(sent) /\ scanned = Len(delivered)

\* `done' and the result are set together, and only by a return.
ReturnedOnce == /\ Running <=> result = "none"
                /\ Running <=> ~done

\* Written is one line behind exactly while a line is being handled.
Handling == cpc = "handle" => Len(delivered) = Len(written) + 1

\* The inductive invariant.
IInv == /\ TypeOK
        /\ Backpressure
        /\ Handover
        /\ InOrder
        /\ ReturnedOnce
        /\ Handling
        /\ WrittenInStep
        /\ OkMeansComplete
-----------------------------------------------------------------------------
\* The inductive invariant holds initially and is preserved by every step.
LEMMA Invariance == Spec => []IInv
  <1>1. Init => IInv
    <2> SUFFICES ASSUME Init PROVE IInv
      OBVIOUS
    <2> USE DEF Init
    <2>1. TypeOK
      <3>1. sent \in Seq(Line) /\ delivered \in Seq(Line) /\ written \in Seq(Events)
        OBVIOUS
      <3>2. item \in Line /\ scanned \in Nat /\ result \in Results
        BY DEF Line, Results
      <3>3. QED
        BY <3>1, <3>2 DEF TypeOK
    <2>2. Backpressure /\ InOrder /\ WrittenInStep
      BY DEF Backpressure, InOrder, WrittenInStep
    <2>3. Handover /\ ReturnedOnce /\ Handling
      BY DEF Handover, ReturnedOnce, Handling, Running
    <2>4. OkMeansComplete
      BY DEF OkMeansComplete
    <2>5. QED
      BY <2>1, <2>2, <2>3, <2>4 DEF IInv
  <1>2. IInv /\ [Next]_pumpVars => IInv'
    <2> SUFFICES ASSUME IInv, [Next]_pumpVars PROVE IInv'
      OBVIOUS
    <2> USE PumpAssumption DEF IInv, TypeOK, Backpressure, Handover, InOrder,
            ReturnedOnce, Handling, WrittenInStep, OkMeansComplete, Running,
            Line, Results, LastIs, upstreamVars, scannerVars, loopVars, clientVars
    <2>1. ASSUME NEW l \in Line, SendLine(l) PROVE IInv'
      BY <2>1 DEF SendLine
    <2>2. ASSUME NEW how \in {"eof", "broken"}, EndBody(how) PROVE IInv'
      BY <2>2 DEF EndBody
    <2>3. ASSUME ClientLeaves PROVE IInv'
      BY <2>3 DEF ClientLeaves
    <2>4. ASSUME CancelContext PROVE IInv'
      BY <2>4 DEF CancelContext
    <2>5. ASSUME ScanLine PROVE IInv'
      BY <2>5 DEF ScanLine
    <2>6. ASSUME ScanEOF PROVE IInv'
      BY <2>6 DEF ScanEOF
    <2>7. ASSUME ScanError PROVE IInv'
      BY <2>7 DEF ScanError, ReadFails
    <2>8. ASSUME Abandon PROVE IInv'
      BY <2>8 DEF Abandon
    <2>9. ASSUME TakeLine PROVE IInv'
      BY <2>9 DEF TakeLine
    <2>10. ASSUME TakeError PROVE IInv'
      BY <2>10 DEF TakeError, Return
    <2>11. ASSUME TakeClosed PROVE IInv'
      BY <2>11 DEF TakeClosed, Return
    <2>12. ASSUME IdleTimeout PROVE IInv'
      BY <2>12 DEF IdleTimeout, Return
    <2>13. ASSUME HandleBlank PROVE IInv'
      BY <2>13 DEF HandleBlank, Return
    <2>14. ASSUME HandleBad PROVE IInv'
      BY <2>14 DEF HandleBad, Return
    <2>15. ASSUME WriteEvents PROVE IInv'
      BY <2>15 DEF WriteEvents
    <2>16. ASSUME WriteFails PROVE IInv'
      BY <2>16 DEF WriteFails, Return
    <2>17. ASSUME HandlerReturns PROVE IInv'
      BY <2>17 DEF HandlerReturns
    <2>18. CASE UNCHANGED pumpVars
      BY <2>18 DEF pumpVars
    <2>19. QED
      BY <2>1, <2>2, <2>3, <2>4, <2>5, <2>6, <2>7, <2>8, <2>9, <2>10, <2>11, <2>12, <2>13, <2>14, <2>15, <2>16, <2>17, <2>18 DEF Next, Scanner, Loop
  <1>3. QED
    BY <1>1, <1>2, PTL DEF Spec

\* Every variable keeps its type.
THEOREM Typing == Spec => []TypeOK
  BY Invariance, PTL DEF IInv

\* The hand-over between ScanLines and NextLine keeps the lines in order.
THEOREM OrderedHandover == Spec => []InOrder
  BY Invariance, PTL DEF IInv

\* The scanner is at most one line ahead of the loop.
THEOREM OneAhead == Spec => []Backpressure
  BY Invariance, PTL DEF IInv

\* The events of a line are written before the next line is taken.
THEOREM StepwiseWriting == Spec => []WrittenInStep
  BY Invariance, PTL DEF IInv

\* A loop that returns without an error has read the body to its end (or to a
\* blank line): no error, cancellation or timeout is reported as success.
THEOREM CompleteWhenOk == Spec => []OkMeansComplete
  BY Invariance, PTL DEF IInv

\* The scanner and the loop implement LineStream.
THEOREM Refinement == Spec => RefinesLineStream
  <1>1. Init => Abstract!LSInit
    BY DEF Init, Abstract!LSInit
  <1>2. IInv /\ [Next]_pumpVars => [Abstract!LSNext]_(Abstract!lsVars)
    <2> SUFFICES ASSUME IInv, [Next]_pumpVars
                 PROVE  [Abstract!LSNext]_(Abstract!lsVars)
      OBVIOUS
    <2> USE DEF Abstract!LSNext, Abstract!lsVars
    <2>1. ASSUME NEW l \in Line, SendLine(l) PROVE Abstract!Grow
      BY <2>1 DEF SendLine, Abstract!Grow, Line, Abstract!Line, loopVars
    <2>2. ASSUME NEW how \in {"eof", "broken"}, EndBody(how) PROVE Abstract!End
      BY <2>2 DEF EndBody, Abstract!End, loopVars
    <2>3. CASE ClientLeaves
      BY <2>3 DEF ClientLeaves, upstreamVars, loopVars
    <2>4. CASE CancelContext
      BY <2>4 DEF CancelContext, upstreamVars, loopVars
    <2>5. CASE Scanner
      BY <2>5 DEF Scanner, ScanLine, ScanEOF, ScanError, Abandon,
                  upstreamVars, loopVars
    <2>6. ASSUME TakeLine PROVE Abstract!Deliver
      BY <2>6 DEF TakeLine, Abstract!Deliver, upstreamVars, IInv, TypeOK,
                  Handover, ReturnedOnce, Running
    <2>7. ASSUME NEW r \in Results \ {"none"}, Return(r), Running,
                 UNCHANGED <<sent, body, delivered>>,
                 r = "ok" => OkMeansComplete',
                 r = "parseErr" => LastIs(delivered, Bad)
          PROVE  Abstract!Finish
      BY <2>7 DEF Return, Abstract!Finish, Results, Abstract!Results, IInv,
                  ReturnedOnce, OkMeansComplete, Abstract!Complete, LastIs,
                  Abstract!LastIs
    <2>8. CASE TakeError
      BY <2>7, <2>8 DEF TakeError, upstreamVars, Results, Running
    <2>9. CASE TakeClosed
      <3>1. OkMeansComplete'
        BY <2>9 DEF TakeClosed, Return, upstreamVars, OkMeansComplete, IInv,
                    Handover, Running, TypeOK, InOrder
      <3>2. QED
        BY <2>7, <2>9, <3>1 DEF TakeClosed, upstreamVars, Results, Running
    <2>10. CASE IdleTimeout
      BY <2>7, <2>10 DEF IdleTimeout, upstreamVars, Results, Running
    <2>11. CASE HandleBlank
      <3>1. OkMeansComplete'
        BY <2>11 DEF HandleBlank, OkMeansComplete, LastIs
      <3>2. QED
        BY <2>7, <2>11, <3>1 DEF HandleBlank, upstreamVars, Results, Running
    <2>12. CASE HandleBad
      BY <2>7, <2>12 DEF HandleBad, upstreamVars, Results, Running
    <2>13. CASE WriteEvents
      BY <2>13 DEF WriteEvents, upstreamVars
    <2>14. CASE WriteFails
      BY <2>7, <2>14 DEF WriteFails, upstreamVars, Results, Running
    <2>15. CASE HandlerReturns
      BY <2>15 DEF HandlerReturns, upstreamVars
    <2>16. CASE UNCHANGED pumpVars
      BY <2>16 DEF pumpVars
    <2>17. QED
      BY <2>1, <2>2, <2>3, <2>4, <2>5, <2>6, <2>8, <2>9, <2>10, <2>11, <2>12,
         <2>13, <2>14, <2>15, <2>16 DEF Next, Loop
  <1>3. QED
    BY <1>1, <1>2, Invariance, PTL DEF Spec, RefinesLineStream, Abstract!LSSpec
=============================================================================
