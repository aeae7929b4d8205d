------------------------ MODULE RequestHandler_proofs ------------------------
(***************************************************************************)
(* Proofs about RequestHandler, for every number of requests, every length *)
(* of the upstream responses and every threshold.                          *)
(***************************************************************************)
EXTENDS RequestHandler, SequenceTheorems, FiniteSetTheorems, TLAPS

\* What a sequence of items must be to be a response.
Headed(w) == \A i \in 1..Len(w) : w[i].kind = "status" <=> i = 1

\* The beginning of a response of status 200: no verdict has been given yet.
Begun(w) == \A i \in 1..Len(w) : IF i = 1 THEN w[i] = StatusLine(200, 0)
                                         ELSE w[i].kind = "data"

\* Nothing comes after a done item, and no error comes before it.
HasDone(w) == \E i \in 1..Len(w) : w[i].kind = "done"
Closed(w) == \A i \in 1..Len(w) :
                w[i].kind = "done" =>
                    /\ i = Len(w)
                    /\ \A j \in 1..Len(w) : w[j].kind # "error"

\* What a handler has put on the wire at each point.
Before(r) == pc[r] \in {"decode", "forward", "status"} => wire[r] = <<>> /\ ~started[r]

During(r) == pc[r] \in {"read", "end"} =>
                /\ code[r] = 200
                /\ Begun(wire[r])
                /\ Streams(r) => (started[r] <=> wire[r] # <<>>)
                /\ ~Streams(r) => ~started[r]
                /\ ~Streams(r) /\ call[r].endpoint # "count" => wire[r] = <<>>

After(r) == pc[r] = "returned" =>
                /\ Headed(wire[r])
                /\ wire[r] # <<>> /\ wire[r][1].code = 200 => code[r] = 200
                /\ Closed(wire[r])
                /\ HasDone(wire[r]) => outcome[r] = "ok" /\ tokens[r] > 0

\* The inductive invariant.
Phases(r) == Before(r) /\ During(r) /\ After(r)
IInv == TypeOK /\ \A r \in Requests : Phases(r)
-----------------------------------------------------------------------------
\* The parts of a response are items.
LEMMA ItemTypes ==
    /\ \A c, n \in Nat : StatusLine(c, n) \in Items
    /\ \A k \in {"data", "done"} : Part(k) \in Items
    /\ \A n \in Nat : ErrorEvent(n) \in Items
  BY DEF StatusLine, Part, ErrorEvent, Items

\* An error response is a response, and not a success.
LEMMA ErrorIsResponse ==
    ASSUME NEW c \in Nat, c # 200, NEW n \in Nat
    PROVE  /\ ErrorResponse(c, n) \in Seq(Items)
           /\ Headed(ErrorResponse(c, n))
           /\ ErrorResponse(c, n)[1].code # 200
           /\ Closed(ErrorResponse(c, n)) /\ ~HasDone(ErrorResponse(c, n))
           /\ <<>> \o ErrorResponse(c, n) = ErrorResponse(c, n)
  <1> DEFINE w == ErrorResponse(c, n)
  <1>1. w = <<StatusLine(c, n), Part("data")>>
    BY DEF ErrorResponse
  <1>2. StatusLine(c, n) \in Items /\ Part("data") \in Items
    BY ItemTypes
  <1>3. w \in Seq(Items)
    BY <1>1, <1>2
  <1>4. Headed(w) /\ w[1].code # 200 /\ Closed(w) /\ ~HasDone(w)
    BY <1>1 DEF Headed, Closed, HasDone, StatusLine, Part
  <1>5. <<>> \o w = w
    BY <1>3, ConcatEmptySeq
  <1>6. QED
    BY <1>3, <1>4, <1>5

\* The statuses an upstream failure is mapped to.
LEMMA MapStatusFails == \A s \in Nat : MapStatus(s) \in Nat /\ MapStatus(s) # 200
  BY DEF MapStatus

\* A response that has begun goes on, or is closed, with one more item.
LEMMA OneMore ==
    ASSUME NEW w \in Seq(Items), Begun(w), w # <<>>,
           NEW e \in Items, e.kind # "status"
    PROVE  /\ w \o <<e>> \in Seq(Items)
           /\ w \o <<e>> # <<>>
           /\ Headed(w \o <<e>>)
           /\ Closed(w \o <<e>>)
           /\ HasDone(w \o <<e>>) => e.kind = "done"
           /\ e.kind = "data" => Begun(w \o <<e>>)
  <1> DEFINE v == w \o <<e>>
  <1>1. /\ v \in Seq(Items)
        /\ Len(v) = Len(w) + 1
        /\ \A i \in 1..Len(w) : v[i] = w[i]
        /\ v[Len(w) + 1] = e
    OBVIOUS
  <1>2. Len(w) \in Nat \ {0}
    OBVIOUS
  <1>3. \A i \in 1..Len(v) : i = Len(v) \/ i \in 1..Len(w)
    BY <1>1, <1>2
  <1>4. \A i \in 1..Len(w) : w[i].kind = IF i = 1 THEN "status" ELSE "data"
    BY DEF Begun, StatusLine
  <1> HIDE DEF v
  <1>5. Headed(v)
    BY <1>1, <1>2, <1>3, <1>4 DEF Headed
  <1>6. Closed(v) /\ (HasDone(v) => e.kind = "done")
    BY <1>1, <1>2, <1>3, <1>4 DEF Closed, HasDone
  <1>7. e.kind = "data" => Begun(v)
    BY <1>1, <1>2, <1>3 DEF Begun
  <1>8. QED
    BY <1>1, <1>2, <1>5, <1>6, <1>7 DEF v

\* A response begins with its status and one item.
LEMMA FirstItems ==
    ASSUME NEW e \in Items, e.kind # "status"
    PROVE  LET w == <<StatusLine(200, 0), e>>
           IN  /\ w \in Seq(Items)
               /\ w # <<>>
               /\ Headed(w)
               /\ Closed(w)
               /\ HasDone(w) => e.kind = "done"
               /\ e.kind = "data" => Begun(w)
  BY ItemTypes DEF Headed, Closed, HasDone, Begun, StatusLine

\* What delayedSSEWriter makes of one more part.
LEMMA SSEStep ==
    ASSUME NEW r \in Requests, wire[r] \in Seq(Items), Begun(wire[r]),
           started[r] <=> wire[r] # <<>>,
           NEW k \in {"data", "done"}
    PROVE  LET v == wire[r] \o SSE(r, k)
           IN  /\ v \in Seq(Items)
               /\ v # <<>>
               /\ Headed(v)
               /\ Closed(v)
               /\ HasDone(v) => k = "done"
               /\ k = "data" => Begun(v)
  <1>1. Part(k) \in Items /\ Part(k).kind = k
    BY ItemTypes DEF Part
  <1>2. CASE started[r]
    BY <1>1, <1>2, OneMore DEF SSE
  <1>3. CASE ~started[r]
    <2>1. wire[r] \o SSE(r, k) = <<StatusLine(200, 0), Part(k)>>
      <3>1. SSE(r, k) = <<StatusLine(200, 0), Part(k)>> /\ wire[r] = <<>>
        BY <1>3 DEF SSE
      <3>2. <<StatusLine(200, 0), Part(k)>> \in Seq(Items)
        BY ItemTypes
      <3>3. QED
        BY <3>1, <3>2, ConcatEmptySeq
    <2>2. QED
      BY <1>1, <2>1, FirstItems
  <1>4. QED
    BY <1>2, <1>3

\* A step of one request leaves the others where they are.
SameAt(q) == /\ call'[q] = call[q] /\ pc'[q] = pc[q] /\ code'[q] = code[q]
             /\ tokens'[q] = tokens[q] /\ outcome'[q] = outcome[q]
             /\ started'[q] = started[q] /\ wire'[q] = wire[q]

\* A request that does not move stays in its phase.
LEMMA Frame == ASSUME NEW q \in Requests, Phases(q), SameAt(q) PROVE Phases(q)'
  BY DEF Phases, Before, During, After, SameAt, Streams

\* A step of one request concerns only the phase of that one.
LEMMA OnlyOne ==
    ASSUME TypeOK, NEW r \in Requests, Handle(r),
           NEW q \in Requests, q # r
    PROVE  SameAt(q)
  BY DEF TypeOK, SameAt, Handle, RefuseBody, Prepare, ForwardFails,
         Forward, RelayStatus, StartReading, Event, CopyBody, LoopEnds, StreamDone,
         StreamZero, StreamFails, StreamIdle, CollectDone, CollectZero,
         CollectFails, CollectIdle, CopyDone, Leave, Goto, Put, Release

\* A handler that has written nothing returns with an error response.
LEMMA Refusal ==
    ASSUME TypeOK, NEW r \in Requests, wire[r] = <<>>,
           NEW c \in Nat, c # 200, NEW n \in Nat, Put(r, ErrorResponse(c, n)),
           pc' = [pc EXCEPT ![r] = "returned"]
    PROVE  wire' \in [Requests -> Seq(Items)] /\ Phases(r)'
  <1> DEFINE w == ErrorResponse(c, n)
  <1>1. /\ w \in Seq(Items) /\ <<>> \o w = w
        /\ Headed(w) /\ w[1].code # 200 /\ Closed(w) /\ ~HasDone(w)
    BY ONLY ErrorIsResponse, c \in Nat, c # 200, n \in Nat
  <1>2. Put(r, w)
    OBVIOUS
  <1> HIDE DEF w
  <1>3. wire' \in [Requests -> Seq(Items)] /\ wire'[r] = w
    BY <1>1, <1>2 DEF TypeOK, Put
  <1>4. pc'[r] = "returned"
    BY DEF TypeOK
  <1>5. After(r)'
    BY <1>1, <1>3 DEF After
  <1>6. QED
    BY <1>3, <1>4, <1>5 DEF Phases, Before, During

\* The steps before the upstream response is read.
LEMMA EarlySteps ==
    ASSUME TypeOK, NEW r \in Requests, Phases(r),
           \/ RefuseBody(r) \/ Prepare(r) \/ ForwardFails(r) \/ Forward(r)
           \/ RelayStatus(r) \/ StartReading(r)
    PROVE  TypeOK' /\ Phases(r)'
  <1> DEFINE Returns == /\ wire[r] = <<>>
                        /\ pc' = [pc EXCEPT ![r] = "returned"]
                        /\ \E c \in Nat : c # 200 /\ Put(r, ErrorResponse(c, 0))
  <1>1. ASSUME Returns
        PROVE  wire' \in [Requests -> Seq(Items)] /\ Phases(r)'
    BY <1>1, Refusal
  <1>2. CASE RefuseBody(r)
    <2>1. Returns
      <3>1. \A c \in {400, 413} : c \in Nat /\ c # 200
        OBVIOUS
      <3>2. QED
        BY <1>2, <3>1 DEF RefuseBody, Phases, Before, Goto
    <2>2. wire' \in [Requests -> Seq(Items)] /\ Phases(r)'
      BY <1>1, <2>1
    <2>3. QED
      BY <1>2, <2>2 DEF RefuseBody, TypeOK, Goto
  <1>3. CASE Prepare(r)
    <2>1. TypeOK'
      BY <1>3 DEF Prepare, TypeOK, Goto
    <2>2. QED
      BY <1>3, <2>1 DEF Prepare, TypeOK, Goto, Phases, Before, During, After
  <1>4. CASE ForwardFails(r)
    <2>1. Returns
      BY <1>4 DEF ForwardFails, Phases, Before, Goto
    <2>2. wire' \in [Requests -> Seq(Items)] /\ Phases(r)'
      BY <1>1, <2>1
    <2>3. QED
      BY <1>4, <2>2 DEF ForwardFails, TypeOK, Goto, Release
  <1>5. CASE Forward(r)
    <2>1. TypeOK'
      BY <1>5 DEF Forward, TypeOK, Goto
    <2>2. QED
      BY <1>5, <2>1 DEF Forward, TypeOK, Goto, Phases, Before, During, After
  <1>6. CASE RelayStatus(r)
    <2>1. MapStatus(code[r]) \in Nat /\ MapStatus(code[r]) # 200
      <3>1. UpstreamCodes \subseteq Nat
        BY HandlerAssumption
      <3>2. code[r] \in UpstreamCodes \cup {0, 200}
        BY DEF TypeOK
      <3>3. code[r] \in Nat
        <4>1. CASE code[r] \in UpstreamCodes
          BY <3>1, <4>1
        <4>2. CASE code[r] \in {0, 200}
          BY <4>2
        <4>3. QED
          BY <3>2, <4>1, <4>2
      <3>4. QED
        BY <3>3, MapStatusFails
    <2>2. Returns
      BY <1>6, <2>1 DEF RelayStatus, Phases, Before, Goto
    <2>3. wire' \in [Requests -> Seq(Items)] /\ Phases(r)'
      BY <1>1, <2>2
    <2>4. QED
      BY <1>6, <2>3 DEF RelayStatus, TypeOK, Goto, Release
  <1>7. CASE StartReading(r)
    <2>1. /\ wire[r] = <<>> /\ started[r] = FALSE /\ code[r] = 200
          /\ pc' = [pc EXCEPT ![r] = "read"]
      BY <1>7 DEF StartReading, Phases, Before, Goto, TypeOK
    <2>2. Begun(wire[r]) /\ wire[r] \in Seq(Items)
      BY <2>1 DEF Begun, TypeOK
    <2>3. CASE Streams(r) /\ call[r].endpoint = "responses"
      <3> DEFINE v == wire[r] \o SSE(r, "data")
      <3>1. /\ wire' = [wire EXCEPT ![r] = v]
            /\ started' = [started EXCEPT ![r] = TRUE]
        BY <1>7, <2>3 DEF StartReading, Put
      <3>2. v \in Seq(Items) /\ v # <<>> /\ Begun(v)
        BY <2>1, <2>2, SSEStep
      <3> HIDE DEF v
      <3>3. /\ wire' \in [Requests -> Seq(Items)]
            /\ Begun(wire'[r]) /\ wire'[r] # <<>>
        BY <3>1, <3>2 DEF TypeOK
      <3>4. TypeOK'
        BY <1>7, <3>1, <3>3 DEF StartReading, TypeOK, Goto
      <3>5. QED
        BY <1>7, <2>1, <2>3, <3>1, <3>3, <3>4
           DEF StartReading, Phases, Before, During, After, Streams, TypeOK
    <2>4. CASE ~(Streams(r) /\ call[r].endpoint = "responses")
      <3>1. TypeOK'
        BY <1>7, <2>4 DEF StartReading, TypeOK, Goto
      <3>2. QED
        BY <1>7, <2>1, <2>2, <2>4, <3>1
           DEF StartReading, Phases, Before, During, After, Streams, TypeOK
    <2>5. QED
      BY <2>3, <2>4
  <1>8. QED
    BY <1>2, <1>3, <1>4, <1>5, <1>6, <1>7

\* One more part written by a handler that reads.
LEMMA Written ==
    ASSUME TypeOK, NEW r \in Requests, Phases(r), pc[r] \in {"read", "end"},
           Streams(r), NEW k \in {"data", "done"}, Put(r, SSE(r, k))
    PROVE  /\ wire' \in [Requests -> Seq(Items)]
           /\ wire'[r] # <<>>
           /\ Headed(wire'[r]) /\ Closed(wire'[r])
           /\ HasDone(wire'[r]) => k = "done"
           /\ k = "data" => Begun(wire'[r])
  <1> DEFINE v == wire[r] \o SSE(r, k)
  <1>1. wire[r] \in Seq(Items) /\ started[r] \in BOOLEAN
    BY DEF TypeOK
  <1>2. Begun(wire[r]) /\ (started[r] <=> wire[r] # <<>>)
    BY DEF Phases, During
  <1>3. /\ v \in Seq(Items)
        /\ v # <<>>
        /\ Headed(v) /\ Closed(v)
        /\ HasDone(v) => k = "done"
        /\ k = "data" => Begun(v)
    BY <1>1, <1>2, SSEStep
  <1>4. wire' = [wire EXCEPT ![r] = v]
    BY DEF Put
  <1> HIDE DEF v
  <1>5. QED
    BY <1>3, <1>4 DEF TypeOK

\* The steps of reading the upstream response.
LEMMA ReadSteps ==
    ASSUME TypeOK, NEW r \in Requests, Phases(r),
           \/ \E kind \in {"text", "finish", "other"}, usage \in {NoUsage, 0, 1} :
                 Event(r, kind, usage)
           \/ CopyBody(r)
           \/ \E how \in {"ok", "idle", "broken", "writeErr"} : LoopEnds(r, how)
    PROVE  TypeOK' /\ Phases(r)'
  <1>1. ASSUME NEW kind \in {"text", "finish", "other"},
               NEW usage \in {NoUsage, 0, 1}, Event(r, kind, usage)
        PROVE  TypeOK' /\ Phases(r)'
    <2>1. PICK w \in Writes(r, kind) :
             IF w THEN Put(r, SSE(r, "data")) /\ started' = [started EXCEPT ![r] = TRUE]
                  ELSE UNCHANGED <<wire, started>>
      BY <1>1 DEF Event
    <2>2. w => Streams(r)
      <3>1. ~Streams(r) => Writes(r, kind) = {FALSE}
        BY DEF Writes
      <3>2. QED
        BY <3>1
    <2>3. tokens' \in [Requests -> Nat] /\ seen' \in [Requests -> 0..MaxEvents]
      BY <1>1, HandlerAssumption DEF Event, TypeOK, NoUsage
    <2>4. pc[r] = "read" /\ UNCHANGED <<call, pc, code, outcome>>
      BY <1>1 DEF Event
    <2>5. CASE w
      <3>1. Streams(r)
        BY <2>2, <2>5
      <3>2. Put(r, SSE(r, "data")) /\ started' = [started EXCEPT ![r] = TRUE]
        BY <2>1, <2>5
      <3>3. /\ wire' \in [Requests -> Seq(Items)]
            /\ wire'[r] # <<>> /\ Begun(wire'[r])
        BY <2>4, <3>1, <3>2, Written
      <3>4. TypeOK'
        BY <1>1, <2>3, <3>2, <3>3 DEF Event, TypeOK
      <3>5. started'[r] = TRUE
        BY <3>2 DEF TypeOK
      <3>6. QED
        BY <2>4, <3>1, <3>3, <3>4, <3>5 DEF Phases, Before, During, After, Streams
    <2>6. CASE ~w
      <3>1. wire' = wire /\ started' = started
        BY <2>1, <2>6
      <3>2. TypeOK'
        BY <1>1, <2>3, <3>1 DEF Event, TypeOK
      <3>3. QED
        BY <2>4, <3>1, <3>2 DEF Phases, Before, During, After, Streams
    <2>7. QED
      BY <2>5, <2>6
  <1>2. CASE CopyBody(r)
    <2>1. /\ pc[r] = "read" /\ call[r].endpoint = "count" /\ ~Streams(r)
          /\ ~started[r] /\ code[r] = 200
          /\ Begun(wire[r]) /\ wire[r] \in Seq(Items)
      BY <1>2, HandlerAssumption DEF CopyBody, TypeOK, Streams, Phases, During
    <2> DEFINE v == wire[r] \o (IF wire[r] = <<>> THEN <<StatusLine(200, 0), Part("data")>>
                                                 ELSE <<Part("data")>>)
    <2>2. wire' = [wire EXCEPT ![r] = v]
      BY <1>2 DEF CopyBody, Put
    <2>3. Part("data") \in Items /\ Part("data").kind = "data" /\ StatusLine(200, 0) \in Items
      BY ItemTypes DEF Part
    <2>4. v \in Seq(Items) /\ Begun(v)
      <3>1. CASE wire[r] = <<>>
        <4>1. <<StatusLine(200, 0), Part("data")>> \in Seq(Items)
          BY <2>3
        <4>2. v = <<StatusLine(200, 0), Part("data")>>
          BY <3>1, <4>1, ConcatEmptySeq
        <4>3. QED
          BY <2>3, <4>2, FirstItems
      <3>2. CASE wire[r] # <<>>
        BY <2>1, <2>3, <3>2, OneMore
      <3>3. QED
        BY <3>1, <3>2
    <2> HIDE DEF v
    <2>5. TypeOK'
      BY <1>2, <2>2, <2>4, HandlerAssumption DEF CopyBody, TypeOK
    <2>6. Begun(wire'[r])
      BY <2>2, <2>4 DEF TypeOK
    <2>7. QED
      BY <1>2, <2>1, <2>5, <2>6 DEF CopyBody, Phases, Before, During, After, Streams
  <1>3. ASSUME NEW how \in {"ok", "idle", "broken", "writeErr"}, LoopEnds(r, how)
        PROVE  TypeOK' /\ Phases(r)'
    <2>1. TypeOK'
      BY <1>3 DEF LoopEnds, TypeOK, Goto
    <2>2. pc[r] = "read" /\ pc'[r] = "end"
      BY <1>3 DEF LoopEnds, TypeOK, Goto
    <2>3. QED
      BY <1>3, <2>1, <2>2 DEF LoopEnds, Phases, Before, During, After, Streams
  <1>4. QED
    BY <1>1, <1>2, <1>3

\* What has begun is a response without a verdict.
LEMMA BegunIsResponse ==
    ASSUME NEW w, Begun(w) PROVE Headed(w) /\ Closed(w) /\ ~HasDone(w)
  BY DEF Begun, Headed, Closed, HasDone, StatusLine

\* A handler whose loop has ended returns with such a response.
LEMMA Ending ==
    ASSUME TypeOK, NEW r \in Requests, Phases(r), Leave(r),
           wire' \in [Requests -> Seq(Items)],
           Headed(wire'[r]), Closed(wire'[r]),
           HasDone(wire'[r]) => outcome[r] = "ok" /\ tokens[r] > 0
    PROVE  Phases(r)'
  <1>1. pc[r] = "end" /\ pc'[r] = "returned" /\ UNCHANGED <<code, outcome, tokens>>
    BY DEF Leave, Goto, TypeOK
  <1>2. code[r] = 200
    BY <1>1 DEF Phases, During
  <1>3. QED
    BY <1>1, <1>2 DEF Phases, Before, During, After

\* sendStreamZeroOutput and handleStreamingError with an idle timeout.
LEMMA RetryableEnds ==
    ASSUME TypeOK, NEW r \in Requests, Phases(r), Leave(r), Streams(r),
           NEW n \in Nat, Put(r, Retryable(r, n))
    PROVE  wire' \in [Requests -> Seq(Items)] /\ Phases(r)'
  <1>1. /\ pc[r] = "end"
        /\ pc' = [pc EXCEPT ![r] = "returned"]
    BY DEF Leave, Goto
  <1>2. /\ wire[r] \in Seq(Items)
        /\ Begun(wire[r])
        /\ started[r] <=> wire[r] # <<>>
    BY <1>1 DEF TypeOK, Phases, During
  <1>3. CASE started[r]
    <2> DEFINE v == wire[r] \o <<ErrorEvent(n)>>
    <2>1. wire' = [wire EXCEPT ![r] = v]
      BY <1>3 DEF Put, Retryable
    <2>2. ErrorEvent(n) \in Items /\ ErrorEvent(n).kind = "error"
      BY ItemTypes DEF ErrorEvent
    <2>3. v \in Seq(Items) /\ Headed(v) /\ Closed(v) /\ ~HasDone(v)
      BY <1>2, <1>3, <2>2, OneMore
    <2> HIDE DEF v
    <2>4. /\ wire' \in [Requests -> Seq(Items)]
          /\ Headed(wire'[r]) /\ Closed(wire'[r]) /\ ~HasDone(wire'[r])
      BY <2>1, <2>3 DEF TypeOK
    <2>5. QED
      BY <2>4, Ending
  <1>4. CASE ~started[r]
    <2>1. wire[r] = <<>>
      BY <1>2, <1>4
    <2>2. \E c \in Nat : c # 200 /\ Put(r, ErrorResponse(c, n))
      BY <1>4 DEF Retryable
    <2>3. QED
      BY <1>1, <2>1, <2>2, Refusal
  <1>5. QED
    BY <1>3, <1>4

\* response.completed and [DONE] close a Responses stream.
LEMMA Completion ==
    ASSUME NEW w \in Seq(Items), Begun(w), w # <<>>
    PROVE  LET v == w \o (<<Part("data")>> \o <<Part("data"), Part("done")>>)
           IN  v \in Seq(Items) /\ Headed(v) /\ Closed(v)
  <1> DEFINE d == Part("data")
             e == Part("done")
             v == w \o (<<d>> \o <<d, e>>)
  <1>1. d \in Items /\ e \in Items /\ d.kind = "data" /\ e.kind = "done"
    BY ItemTypes DEF Part
  <1> HIDE DEF d, e
  <1> DEFINE u == <<d>> \o <<d, e>>
  <1>2. u \in Seq(Items) /\ Len(u) = 3 /\ u[1] = d /\ u[2] = d /\ u[3] = e
    BY <1>1
  <1> HIDE DEF u
  <1>3. /\ v \in Seq(Items)
        /\ Len(v) = Len(w) + 3
        /\ \A i \in 1..Len(w) : v[i] = w[i]
        /\ v[Len(w) + 1] = d /\ v[Len(w) + 2] = d /\ v[Len(w) + 3] = e
    BY <1>1, <1>2
  <1>4. Len(w) \in Nat \ {0}
    OBVIOUS
  <1> HIDE DEF v
  <1>5. \A i \in 1..Len(v) : \/ i \in 1..Len(w)
                             \/ i = Len(w) + 1 \/ i = Len(w) + 2 \/ i = Len(v)
    BY <1>3, <1>4
  <1>6. \A i \in 1..Len(w) : w[i].kind = IF i = 1 THEN "status" ELSE "data"
    BY DEF Begun, StatusLine
  <1>7. \A i \in 1..Len(v) : v[i].kind = IF i = 1 THEN "status"
                                        ELSE IF i = Len(v) THEN "done" ELSE "data"
    BY <1>1, <1>3, <1>4, <1>5, <1>6
  <1>8. Headed(v) /\ Closed(v)
    BY <1>7 DEF Headed, Closed
  <1>9. QED
    BY <1>3, <1>8 DEF u, v, d, e

\* The same when nothing had been written.
LEMMA FirstCompletion ==
    LET v == <<>> \o (<<StatusLine(200, 0), Part("data")>>
                         \o <<Part("data"), Part("done")>>)
    IN  v \in Seq(Items) /\ Headed(v) /\ Closed(v)
  <1> DEFINE s == StatusLine(200, 0)
             d == Part("data")
             e == Part("done")
             v == <<>> \o (<<s, d>> \o <<d, e>>)
  <1>1. /\ s \in Items /\ d \in Items /\ e \in Items
        /\ s.kind = "status" /\ d.kind = "data" /\ e.kind = "done"
    BY ItemTypes DEF Part, StatusLine
  <1> HIDE DEF s, d, e
  <1> DEFINE u == <<s, d>> \o <<d, e>>
  <1>2. /\ u \in Seq(Items) /\ Len(u) = 4
        /\ u[1] = s /\ u[2] = d /\ u[3] = d /\ u[4] = e
    BY <1>1
  <1> HIDE DEF u
  <1>3. v = u
    BY <1>2, ConcatEmptySeq DEF u
  <1>4. Headed(u) /\ Closed(u)
    BY <1>1, <1>2 DEF Headed, Closed
  <1>5. QED
    BY <1>2, <1>3, <1>4 DEF s, d, e

\* The other variables a handler changes on its way out.
TypesAt(r) == /\ consecutiveTimeouts' \in Nat
              /\ started' \in [Requests -> BOOLEAN]
              /\ advised' \in [Requests -> BOOLEAN]

\* timeoutMessage gives a Boolean.
LEMMA AdviceType ==
    ASSUME TypeOK, NEW r \in Requests
    PROVE  /\ consecutiveTimeouts + 1 \in Nat
           /\ [advised EXCEPT ![r] = Advice(consecutiveTimeouts + 1)]
                 \in [Requests -> BOOLEAN]
  <1>1. consecutiveTimeouts + 1 \in Nat
    BY DEF TypeOK
  <1>2. Advice(consecutiveTimeouts + 1) \in BOOLEAN
    BY <1>1, HandlerAssumption DEF Advice
  <1> DEFINE b == Advice(consecutiveTimeouts + 1)
  <1> HIDE DEF b
  <1>3. [advised EXCEPT ![r] = b] \in [Requests -> BOOLEAN]
    BY <1>2 DEF TypeOK, b
  <1>4. QED
    BY <1>1, <1>3 DEF b

\* A request that leaves its loop.
LEMMA Leaving ==
    ASSUME TypeOK, NEW r \in Requests, Leave(r), TypesAt(r),
           wire' \in [Requests -> Seq(Items)]
    PROVE  TypeOK'
  <1>1. /\ pc' = [pc EXCEPT ![r] = "returned"]
        /\ upstream' = [upstream EXCEPT ![r] = "released"]
        /\ ended' = Append(ended, r)
        /\ UNCHANGED <<call, code, seen, tokens, outcome>>
    BY DEF Leave, Goto, Release
  <1>2. /\ pc' \in [Requests -> {"decode", "forward", "status", "read", "end", "returned"}]
        /\ upstream' \in [Requests -> {"none", "open", "released"}]
        /\ ended' \in Seq(Requests)
    BY <1>1 DEF TypeOK
  <1>3. QED
    BY <1>1, <1>2 DEF TypeOK, TypesAt

\* The ways out of a streaming handler.
LEMMA StreamEnds ==
    ASSUME TypeOK, NEW r \in Requests, Phases(r),
           StreamDone(r) \/ StreamZero(r) \/ StreamFails(r) \/ StreamIdle(r)
    PROVE  TypeOK' /\ Phases(r)'
  <1>1. Leave(r) /\ Streams(r)
    BY DEF StreamDone, StreamZero, StreamFails, StreamIdle
  <1>2. /\ pc[r] = "end"
        /\ pc' = [pc EXCEPT ![r] = "returned"]
    BY <1>1 DEF Leave, Goto
  <1>3. /\ wire[r] \in Seq(Items)
        /\ Begun(wire[r])
        /\ started[r] <=> wire[r] # <<>>
    BY <1>1, <1>2 DEF TypeOK, Phases, During
  <1>4. TypesAt(r)
    <2>1. CASE StreamDone(r) \/ StreamZero(r) \/ StreamFails(r)
      <3>1. consecutiveTimeouts' \in Nat /\ advised' \in [Requests -> BOOLEAN]
        BY <2>1 DEF StreamDone, StreamZero, StreamFails, TypeOK
      <3>2. started' \in [Requests -> BOOLEAN]
        <4>1. started' = started \/ started' = [started EXCEPT ![r] = TRUE]
          BY <2>1 DEF StreamDone, StreamZero, StreamFails
        <4>2. QED
          BY <4>1 DEF TypeOK
      <3>3. QED
        BY <3>1, <3>2 DEF TypesAt
    <2>2. CASE StreamIdle(r)
      BY <2>2, AdviceType DEF StreamIdle, TypeOK, TypesAt
    <2>3. QED
      BY <2>1, <2>2
  <1>5. ASSUME wire' \in [Requests -> Seq(Items)] PROVE TypeOK'
    BY <1>1, <1>4, <1>5, Leaving
  <1>6. CASE StreamDone(r)
    <2>1. outcome[r] = "ok" /\ tokens[r] > 0
      BY <1>6 DEF StreamDone
    <2>2. CASE call[r].endpoint = "responses"
      <3> DEFINE v == wire[r] \o (SSE(r, "data") \o <<Part("data"), Part("done")>>)
      <3>1. wire' = [wire EXCEPT ![r] = v]
        BY <1>6, <2>2 DEF StreamDone, Put
      <3>2. v \in Seq(Items) /\ Headed(v) /\ Closed(v)
        <4>1. CASE started[r]
          <5>1. SSE(r, "data") = <<Part("data")>>
            BY <4>1 DEF SSE
          <5>2. QED
            BY <1>3, <4>1, <5>1, Completion
        <4>2. CASE ~started[r]
          <5>1. SSE(r, "data") = <<StatusLine(200, 0), Part("data")>>
            BY <4>2 DEF SSE
          <5>2. wire[r] = <<>>
            BY <1>3, <4>2
          <5>3. QED
            BY <5>1, <5>2, FirstCompletion
        <4>3. QED
          BY <4>1, <4>2
      <3> HIDE DEF v
      <3>3. /\ wire' \in [Requests -> Seq(Items)]
            /\ Headed(wire'[r]) /\ Closed(wire'[r])
        BY <3>1, <3>2 DEF TypeOK
      <3>4. QED
        BY <1>1, <1>5, <2>1, <3>3, Ending
    <2>3. CASE call[r].endpoint # "responses"
      <3>1. Put(r, SSE(r, "done"))
        BY <1>6, <2>3 DEF StreamDone
      <3>2. /\ wire' \in [Requests -> Seq(Items)]
            /\ Headed(wire'[r]) /\ Closed(wire'[r])
        BY <1>1, <1>2, <3>1, Written
      <3>3. QED
        BY <1>1, <1>5, <2>1, <3>2, Ending
    <2>4. QED
      BY <2>2, <2>3
  <1>7. CASE StreamZero(r) \/ StreamIdle(r)
    <2>1. \E n \in Nat : Put(r, Retryable(r, n))
      BY <1>7 DEF StreamZero, StreamIdle, emptyResponseRetryAfterSeconds,
                  timeoutRetryAfterSeconds
    <2>2. QED
      BY <1>1, <1>5, <2>1, RetryableEnds
  <1>8. CASE StreamFails(r)
    <2>1. CASE started[r]
      <3>1. wire' = wire
        BY <1>8, <2>1 DEF StreamFails
      <3>2. /\ wire' \in [Requests -> Seq(Items)]
            /\ Headed(wire'[r]) /\ Closed(wire'[r]) /\ ~HasDone(wire'[r])
        BY <1>3, <3>1, BegunIsResponse DEF TypeOK
      <3>3. QED
        BY <1>1, <1>5, <3>2, Ending
    <2>2. CASE ~started[r]
      <3>1. wire[r] = <<>>
        BY <1>3, <2>2
      <3>2. \E c \in Nat, n \in Nat : c # 200 /\ Put(r, ErrorResponse(c, n))
        BY <1>8, <2>2 DEF StreamFails, emptyResponseRetryAfterSeconds
      <3>3. wire' \in [Requests -> Seq(Items)] /\ Phases(r)'
        BY <1>2, <3>1, <3>2, Refusal
      <3>4. QED
        BY <1>5, <3>3
    <2>3. QED
      BY <2>1, <2>2
  <1>9. QED
    BY <1>6, <1>7, <1>8
\* The ways out of a handler that does not stream.
LEMMA CollectEnds ==
    ASSUME TypeOK, NEW r \in Requests, Phases(r),
           \/ CollectDone(r) \/ CollectZero(r) \/ CollectFails(r) \/ CollectIdle(r)
           \/ CopyDone(r)
    PROVE  TypeOK' /\ Phases(r)'
  <1>1. Leave(r)
    BY DEF CollectDone, CollectZero, CollectFails, CollectIdle, CopyDone
  <1>2. /\ pc[r] = "end"
        /\ pc' = [pc EXCEPT ![r] = "returned"]
    BY <1>1 DEF Leave, Goto
  <1>3. ~Streams(r)
    <2>1. call[r].endpoint = "count" => ~Streams(r)
      BY HandlerAssumption DEF TypeOK, Streams
    <2>2. QED
      BY <2>1 DEF CollectDone, CollectZero, CollectFails, CollectIdle, CopyDone
  <1>4. TypesAt(r)
    <2>1. CASE CollectIdle(r)
      BY <2>1, AdviceType DEF CollectIdle, TypeOK, TypesAt
    <2>2. CASE ~CollectIdle(r)
      <3>1. UNCHANGED <<started, advised, consecutiveTimeouts>>
        BY <2>2 DEF CollectDone, CollectZero, CollectFails, CopyDone
      <3>2. QED
        BY <3>1 DEF TypeOK, TypesAt
    <2>3. QED
      BY <2>1, <2>2
  <1>5. ASSUME wire' \in [Requests -> Seq(Items)] PROVE TypeOK'
    BY <1>1, <1>4, <1>5, Leaving
  <1>6. CASE CollectZero(r) \/ CollectFails(r) \/ CollectIdle(r)
    <2>1. wire[r] = <<>>
      BY <1>2, <1>3, <1>6 DEF Phases, During, CollectZero, CollectFails, CollectIdle
    <2>2. \E c \in Nat, n \in Nat : c # 200 /\ Put(r, ErrorResponse(c, n))
      BY <1>6 DEF CollectZero, CollectFails, CollectIdle
    <2>3. wire' \in [Requests -> Seq(Items)] /\ Phases(r)'
      BY <1>2, <2>1, <2>2, Refusal
    <2>4. QED
      BY <1>5, <2>3
  <1>7. CASE CollectDone(r)
    <2> DEFINE w == <<StatusLine(200, 0), Part("data")>>
    <2>1. w \in Seq(Items) /\ Headed(w) /\ Closed(w) /\ ~HasDone(w)
      <3>1. Part("data") \in Items /\ Part("data").kind = "data"
        BY ItemTypes DEF Part
      <3>2. QED
        BY <3>1, FirstItems
    <2>2. wire[r] = <<>> /\ Put(r, w)
      BY <1>2, <1>3, <1>7 DEF Phases, During, CollectDone
    <2>3. wire' = [wire EXCEPT ![r] = w]
      <3> HIDE DEF w
      <3>1. wire' = [wire EXCEPT ![r] = <<>> \o w]
        BY <2>2 DEF Put
      <3>2. QED
        BY <2>1, <3>1, ConcatEmptySeq
    <2> HIDE DEF w
    <2>4. /\ wire' \in [Requests -> Seq(Items)]
          /\ Headed(wire'[r]) /\ Closed(wire'[r]) /\ ~HasDone(wire'[r])
      BY <2>1, <2>3 DEF TypeOK
    <2>5. QED
      BY <1>1, <1>5, <2>4, Ending
  <1>8. CASE CopyDone(r)
    <2>1. wire[r] \in Seq(Items) /\ Begun(wire[r])
      BY <1>2 DEF TypeOK, Phases, During
    <2>2. \E v \in Seq(Items) : Begun(v) /\ wire' = [wire EXCEPT ![r] = v]
      <3>1. CASE wire[r] = <<>>
        <4> DEFINE v == <<StatusLine(200, 0)>>
        <4>1. v \in Seq(Items)
          BY ItemTypes
        <4>2. Begun(v)
          BY DEF Begun
        <4>3. wire' = [wire EXCEPT ![r] = <<>> \o v]
          BY <1>8, <3>1 DEF CopyDone, Put
        <4>4. <<>> \o v = v
          BY <4>1, ConcatEmptySeq
        <4> HIDE DEF v
        <4>5. QED
          BY <4>1, <4>2, <4>3, <4>4
      <3>2. CASE wire[r] # <<>>
        <4>1. wire' = [wire EXCEPT ![r] = wire[r]]
          BY <1>8, <3>2 DEF CopyDone, TypeOK
        <4>2. QED
          BY <2>1, <4>1
      <3>3. QED
        BY <3>1, <3>2
    <2>3. wire' \in [Requests -> Seq(Items)] /\ Begun(wire'[r])
      BY <2>2 DEF TypeOK
    <2>4. Headed(wire'[r]) /\ Closed(wire'[r]) /\ ~HasDone(wire'[r])
      BY <2>3, BegunIsResponse
    <2>5. QED
      BY <1>1, <1>5, <2>3, <2>4, Ending
  <1>9. QED
    BY <1>6, <1>7, <1>8

\* The invariant is inductive.
LEMMA Invariance == Spec => []IInv
  <1>1. Init => IInv
    <2>1. SUFFICES ASSUME Init PROVE IInv
      OBVIOUS
    <2>2. TypeOK
      <3>1. wire \in [Requests -> Seq(Items)] /\ ended \in Seq(Requests)
        BY <2>1 DEF Init
      <3>2. /\ seen \in [Requests -> 0..MaxEvents] /\ tokens \in [Requests -> Nat]
            /\ code \in [Requests -> UpstreamCodes \cup {0, 200}]
            /\ consecutiveTimeouts \in Nat
        BY <2>1, HandlerAssumption DEF Init
      <3>3. /\ started \in [Requests -> BOOLEAN] /\ advised \in [Requests -> BOOLEAN]
        BY <2>1 DEF Init
      <3>4. QED
        BY <2>1, <3>1, <3>2, <3>3 DEF Init, TypeOK
    <2>3. ASSUME NEW r \in Requests PROVE Phases(r)
      <3>1. pc[r] = "decode" /\ wire[r] = <<>> /\ started[r] = FALSE
        BY <2>1 DEF Init
      <3>2. QED
        BY <3>1 DEF Phases, Before, During, After
    <2>4. QED
      BY <2>2, <2>3 DEF IInv
  <1>2. IInv /\ [Next]_vars => IInv'
    <2>1. SUFFICES ASSUME IInv, [Next]_vars PROVE IInv'
      OBVIOUS
    <2>2. TypeOK /\ \A q \in Requests : Phases(q)
      BY <2>1 DEF IInv
    <2>3. ASSUME NEW r \in Requests, Handle(r)
          PROVE  IInv'
      <3>1. TypeOK' /\ Phases(r)'
        <4>1. CASE \/ RefuseBody(r) \/ Prepare(r) \/ ForwardFails(r) \/ Forward(r)
                   \/ RelayStatus(r) \/ StartReading(r)
          BY <2>2, <4>1, EarlySteps
        <4>2. CASE \/ \E kind \in {"text", "finish", "other"}, usage \in {NoUsage, 0, 1} :
                         Event(r, kind, usage)
                   \/ CopyBody(r)
                   \/ \E how \in {"ok", "idle", "broken", "writeErr"} : LoopEnds(r, how)
          BY <2>2, <4>2, ReadSteps
        <4>3. CASE StreamDone(r) \/ StreamZero(r) \/ StreamFails(r) \/ StreamIdle(r)
          BY <2>2, <4>3, StreamEnds
        <4>4. CASE \/ CollectDone(r) \/ CollectZero(r) \/ CollectFails(r)
                   \/ CollectIdle(r) \/ CopyDone(r)
          BY <2>2, <4>4, CollectEnds
        <4>5. QED
          BY <2>3, <4>1, <4>2, <4>3, <4>4 DEF Handle
      <3>2. ASSUME NEW q \in Requests PROVE Phases(q)'
        <4>1. CASE q = r
          BY <3>1, <4>1
        <4>2. CASE q # r
          <5>1. SameAt(q)
            BY <2>2, <2>3, <4>2, OnlyOne
          <5>2. QED
            BY <2>2, <5>1, Frame
        <4>3. QED
          BY <4>1, <4>2
      <3>3. QED
        BY <3>1, <3>2 DEF IInv
    <2>4. CASE UNCHANGED vars
      <3>1. TypeOK'
        BY <2>2, <2>4 DEF TypeOK, vars
      <3>2. ASSUME NEW q \in Requests PROVE Phases(q)'
        BY <2>2, <2>4 DEF Phases, Before, During, After, Streams, vars
      <3>3. QED
        BY <3>1, <3>2 DEF IInv
    <2>5. QED
      BY <2>1, <2>3, <2>4 DEF Next
  <1>3. QED
    BY <1>1, <1>2, PTL DEF Spec

\* At every point of a handler the response is one whose status comes first
\* and alone.
LEMMA AlwaysHeaded ==
    ASSUME IInv, NEW r \in Requests
    PROVE  Headed(wire[r])
  <1>1. pc[r] \in {"decode", "forward", "status", "read", "end", "returned"}
    BY DEF IInv, TypeOK
  <1>2. CASE pc[r] \in {"decode", "forward", "status"}
    BY <1>2 DEF IInv, Phases, Before, Headed
  <1>3. CASE pc[r] \in {"read", "end"}
    BY <1>3, BegunIsResponse DEF IInv, Phases, During
  <1>4. CASE pc[r] = "returned"
    BY <1>4 DEF IInv, Phases, After
  <1>5. QED
    BY <1>1, <1>2, <1>3, <1>4

\* The variables keep their types; in particular the process-wide counter of
\* consecutive timeouts never becomes negative (consecutiveTimeouts).
THEOREM Typing == Spec => []TypeOK
  BY Invariance, PTL DEF IInv

\* However many requests there are and wherever their streams fail, a handler
\* sends one status and sends it first (delayedSSEWriter,
\* handleStreamingError).
THEOREM StatusFirst == Spec => []OneStatus
  <1>1. IInv => OneStatus
    BY AlwaysHeaded DEF Headed, OneStatus
  <1>2. QED
    BY <1>1, Invariance, PTL

\* No failure of the upstream is reported as a success, whatever its status
\* (handleUpstreamStatus, MapStatus).
THEOREM NoFalseSuccess == Spec => []SuccessIsUpstreams
  <1>1. ASSUME IInv, NEW r \in Requests, wire[r] # <<>>, wire[r][1].code = 200
        PROVE  code[r] = 200
    <2>1. pc[r] \in {"decode", "forward", "status", "read", "end", "returned"}
      BY <1>1 DEF IInv, TypeOK
    <2>2. Phases(r)
      BY <1>1 DEF IInv
    <2>3. QED
      BY <1>1, <2>1, <2>2 DEF Phases, Before, During, After
  <1>2. IInv => SuccessIsUpstreams
    BY <1>1 DEF SuccessIsUpstreams
  <1>3. QED
    BY <1>2, Invariance, PTL

\* [DONE] is written only after a stream read to its end that produced tokens,
\* and is the last thing written (StreamDone).
THEOREM DoneIsFinal == Spec => []DoneMeansComplete
  <1>1. ASSUME IInv, NEW r \in Requests, NEW i \in 1..Len(wire[r]),
               wire[r][i].kind = "done"
        PROVE  /\ outcome[r] = "ok"
               /\ tokens[r] > 0
               /\ i = Len(wire[r])
               /\ ~Has(r, "error")
    <2>1. pc[r] \in {"decode", "forward", "status", "read", "end", "returned"}
      BY <1>1 DEF IInv, TypeOK
    <2>2. Phases(r)
      BY <1>1 DEF IInv
    <2>3. HasDone(wire[r])
      BY <1>1 DEF HasDone
    <2>4. pc[r] = "returned"
      <3>1. pc[r] \in {"decode", "forward", "status"} => wire[r] = <<>>
        BY <2>2 DEF Phases, Before
      <3>2. pc[r] \in {"read", "end"} => ~HasDone(wire[r])
        BY <2>2, BegunIsResponse DEF Phases, During
      <3>3. QED
        BY <1>1, <2>1, <2>3, <3>1, <3>2
    <2>5. Closed(wire[r]) /\ outcome[r] = "ok" /\ tokens[r] > 0
      BY <2>2, <2>3, <2>4 DEF Phases, After
    <2>6. QED
      BY <1>1, <2>5 DEF Closed, Has
  <1>2. IInv => DoneMeansComplete
    BY <1>1 DEF DoneMeansComplete
  <1>3. QED
    BY <1>2, Invariance, PTL

\* Before the upstream is called there is no response to release, and a handler
\* that has returned has released its own.
Unopened == \A r \in Requests : pc[r] = "decode" => upstream[r] = "none"
Kept(r) == pc'[r] = pc[r] /\ upstream'[r] = upstream[r]

\* Every way out of a handler releases its upstream response, wherever the
\* upstream, the loop or the client fails (the deferred Body.Close and cancel).
THEOREM Released == Spec => []UpstreamReleased
  <1>1. Init => Unopened /\ UpstreamReleased
    BY DEF Init, Unopened, UpstreamReleased
  <1>2. TypeOK /\ Unopened /\ UpstreamReleased /\ [Next]_vars
           => Unopened' /\ UpstreamReleased'
    <2> SUFFICES ASSUME TypeOK, Unopened, UpstreamReleased, [Next]_vars
                 PROVE  Unopened' /\ UpstreamReleased'
      OBVIOUS
    <2>1. ASSUME NEW r \in Requests, Handle(r), NEW q \in Requests
          PROVE  /\ pc'[q] = "decode" => upstream'[q] = "none"
                 /\ pc'[q] = "returned" => upstream'[q] # "open"
      <3>1. CASE q # r
        <4>1. Kept(q)
          BY <2>1, <3>1
             DEF TypeOK, Kept, Handle, RefuseBody, Prepare, ForwardFails, Forward,
                 RelayStatus, StartReading, Event, CopyBody, LoopEnds, StreamDone,
                 StreamZero, StreamFails, StreamIdle, CollectDone, CollectZero,
                 CollectFails, CollectIdle, CopyDone, Leave, Goto, Release
        <4>2. QED
          BY <4>1 DEF Kept, Unopened, UpstreamReleased
      <3>2. CASE q = r
        <4>1. CASE RefuseBody(r)
          <5>1. pc[r] = "decode" /\ pc'[r] = "returned" /\ upstream' = upstream
            BY <4>1 DEF RefuseBody, Goto, TypeOK
          <5>2. QED
            BY <3>2, <5>1 DEF Unopened
        <4>2. CASE Prepare(r) \/ Forward(r) \/ StartReading(r)
                   \/ \E how \in {"ok", "idle", "broken", "writeErr"} : LoopEnds(r, how)
          <5>1. pc'[r] \in {"forward", "status", "read", "end"}
            BY <4>2 DEF Prepare, Forward, StartReading, LoopEnds, Goto, TypeOK
          <5>2. QED
            BY <3>2, <5>1
        <4>3. CASE \/ \E kind \in {"text", "finish", "other"}, usage \in {NoUsage, 0, 1} :
                        Event(r, kind, usage)
                   \/ CopyBody(r)
          <5>1. pc[r] = "read" /\ pc' = pc
            BY <4>3 DEF Event, CopyBody
          <5>2. QED
            BY <3>2, <5>1
        <4>4. CASE \/ ForwardFails(r) \/ RelayStatus(r)
                   \/ StreamDone(r) \/ StreamZero(r) \/ StreamFails(r) \/ StreamIdle(r)
                   \/ CollectDone(r) \/ CollectZero(r) \/ CollectFails(r)
                   \/ CollectIdle(r) \/ CopyDone(r)
          <5>1. pc' = [pc EXCEPT ![r] = "returned"] /\ Release(r)
            BY <4>4 DEF ForwardFails, RelayStatus, StreamDone, StreamZero, StreamFails,
                        StreamIdle, CollectDone, CollectZero, CollectFails, CollectIdle,
                        CopyDone, Leave, Goto
          <5>2. pc'[r] = "returned" /\ upstream'[r] = "released"
            BY <5>1 DEF Release, TypeOK
          <5>3. QED
            BY <3>2, <5>2
        <4>5. QED
          BY <2>1, <4>1, <4>2, <4>3, <4>4 DEF Handle
      <3>3. QED
        BY <3>1, <3>2
    <2>2. CASE UNCHANGED vars
      BY <2>2 DEF vars, Unopened, UpstreamReleased
    <2>3. QED
      BY <2>1, <2>2 DEF Next, Unopened, UpstreamReleased
  <1>3. QED
    BY <1>1, <1>2, Typing, PTL DEF Spec
-----------------------------------------------------------------------------
(* What a client is told. *)

\* SilentOnlyWhenCut, for one request.
Told(r) == /\ wire[r] # <<>>
           /\ \/ Verdict(r)
              \/ Failed(r) /\ started[r]
              \/ Empty(r) /\ Streams(r) /\ call[r].endpoint = "responses"
              \/ call[r].endpoint = "count"

\* A handler that has written nothing tells by an error response.
LEMMA RefusalTells ==
    ASSUME TypeOK, NEW r \in Requests, wire[r] = <<>>,
           NEW c \in Nat, c # 200, NEW n \in Nat, Put(r, ErrorResponse(c, n))
    PROVE  Told(r)'
  <1> DEFINE w == ErrorResponse(c, n)
  <1>1. /\ w \in Seq(Items) /\ <<>> \o w = w
        /\ Headed(w) /\ w[1].code # 200 /\ Closed(w) /\ ~HasDone(w)
    BY ONLY ErrorIsResponse, c \in Nat, c # 200, n \in Nat
  <1>2. w # <<>>
    BY DEF ErrorResponse
  <1>3. Put(r, w)
    OBVIOUS
  <1> HIDE DEF w
  <1>4. wire'[r] = w
    BY <1>1, <1>3 DEF TypeOK, Put
  <1>5. QED
    BY <1>1, <1>2, <1>4 DEF Told, Verdict

\* The last item of a sequence that was extended.
LEMMA LastItem ==
    ASSUME NEW s \in Seq(Items), NEW t \in Seq(Items), t # <<>>
    PROVE  /\ s \o t \in Seq(Items)
           /\ s \o t # <<>>
           /\ Len(s \o t) \in 1..Len(s \o t)
           /\ (s \o t)[Len(s \o t)] = t[Len(t)]
  <1>1. /\ s \o t \in Seq(Items)
        /\ Len(s \o t) = Len(s) + Len(t)
        /\ Len(s) \in Nat /\ Len(t) \in Nat \ {0}
    OBVIOUS
  <1>2. (s \o t)[Len(s) + Len(t)] = t[Len(t)]
    BY <1>1
  <1>3. QED
    BY <1>1, <1>2

\* One item is a sequence of items.
LEMMA OneItem ==
    ASSUME NEW e \in Items
    PROVE  <<e>> \in Seq(Items) /\ <<e>> # <<>> /\ <<e>>[Len(<<e>>)] = e
  OBVIOUS

\* A stream tells by a last item that is [DONE] or an error event.
LEMMA LastTells ==
    ASSUME TypeOK, NEW r \in Requests, NEW v \in Seq(Items), Put(r, v), v # <<>>,
           v[Len(v)].kind \in {"done", "error"}
    PROVE  Told(r)'
  <1> DEFINE w == wire[r] \o v
  <1>1. wire[r] \in Seq(Items)
    BY DEF TypeOK
  <1>2. w # <<>> /\ Len(w) \in 1..Len(w) /\ w[Len(w)] = v[Len(v)]
    BY <1>1, LastItem
  <1>3. wire'[r] = w
    BY DEF Put, TypeOK
  <1> HIDE DEF w
  <1>4. Has(r, "done")' \/ Has(r, "error")'
    BY <1>2, <1>3 DEF Has
  <1>5. QED
    BY <1>2, <1>3, <1>4 DEF Told, Verdict

\* The two ways of telling a retryable error.
LEMMA RetryableTells ==
    ASSUME TypeOK, NEW r \in Requests, started[r] \/ wire[r] = <<>>,
           NEW n \in Nat, Put(r, Retryable(r, n))
    PROVE  Told(r)'
  <1>1. CASE started[r]
    <2> DEFINE v == <<ErrorEvent(n)>>
    <2>1. Put(r, v)
      BY <1>1 DEF Retryable
    <2>2. ErrorEvent(n) \in Items /\ ErrorEvent(n).kind = "error"
      BY ItemTypes DEF ErrorEvent
    <2>3. v \in Seq(Items) /\ v # <<>> /\ v[Len(v)].kind = "error"
      BY <2>2, OneItem
    <2> HIDE DEF v
    <2>4. QED
      BY <2>1, <2>3, LastTells
  <1>2. CASE ~started[r]
    <2>1. Put(r, ErrorResponse(429, n)) /\ wire[r] = <<>>
      BY <1>2 DEF Retryable
    <2>2. QED
      BY <2>1, RefusalTells
  <1>3. QED
    BY <1>1, <1>2

\* The returns before the upstream response is read.
LEMMA EarlyTells ==
    ASSUME IInv, NEW r \in Requests, RefuseBody(r) \/ ForwardFails(r) \/ RelayStatus(r)
    PROVE  Told(r)'
  <1>1. TypeOK /\ wire[r] = <<>>
    BY DEF IInv, Phases, Before, RefuseBody, ForwardFails, RelayStatus, Goto
  <1>2. \E c \in Nat : c # 200 /\ Put(r, ErrorResponse(c, 0))
    <2>1. \A c \in {400, 413, 502} : c \in Nat /\ c # 200
      OBVIOUS
    <2>2. CASE RefuseBody(r) \/ ForwardFails(r)
      BY <2>1, <2>2 DEF RefuseBody, ForwardFails
    <2>3. CASE RelayStatus(r)
      <3>1. code[r] \in UpstreamCodes \cup {0, 200} /\ UpstreamCodes \subseteq Nat
        BY <1>1, HandlerAssumption DEF TypeOK
      <3>2. code[r] \in Nat
        <4>1. CASE code[r] \in UpstreamCodes
          BY <3>1, <4>1
        <4>2. CASE code[r] \in {0, 200}
          BY <4>2
        <4>3. QED
          BY <3>1, <4>1, <4>2
      <3>3. QED
        BY <2>1, <2>3, <3>2, MapStatusFails DEF RelayStatus
    <2>4. QED
      BY <2>2, <2>3
  <1>3. QED
    BY <1>1, <1>2, RefusalTells

\* The ways out of a streaming handler.
LEMMA StreamTells ==
    ASSUME IInv, NEW r \in Requests,
           StreamDone(r) \/ StreamZero(r) \/ StreamFails(r) \/ StreamIdle(r)
    PROVE  Told(r)'
  <1>1. TypeOK /\ wire[r] \in Seq(Items)
    BY DEF IInv, TypeOK
  <1>2. started[r] <=> wire[r] # <<>>
    BY DEF IInv, Phases, During, StreamDone, StreamZero, StreamFails, StreamIdle, Leave, Goto
  <1>3. CASE StreamDone(r)
    <2>1. Part("data") \in Items /\ Part("done") \in Items /\ StatusLine(200, 0) \in Items
      BY ItemTypes
    <2>2. CASE call[r].endpoint = "responses"
      <3>1. SSE(r, "data") \in Seq(Items)
        BY <2>1 DEF SSE
      <3> DEFINE s == SSE(r, "data")
                 t == <<Part("data"), Part("done")>>
                 v == s \o t
      <3>2. t \in Seq(Items) /\ t # <<>> /\ t[Len(t)].kind = "done"
        BY <2>1 DEF Part
      <3>3. Put(r, v)
        BY <1>3, <2>2 DEF StreamDone
      <3> HIDE DEF s, t
      <3>4. v \in Seq(Items) /\ v # <<>> /\ v[Len(v)] = t[Len(t)]
        <4>1. s \in Seq(Items)
          BY <3>1 DEF s
        <4>2. QED
          BY <3>2, <4>1, LastItem
      <3> HIDE DEF v
      <3>5. QED
        BY <1>1, <3>2, <3>3, <3>4, LastTells
    <2>3. CASE call[r].endpoint # "responses"
      <3> DEFINE e == Part("done")
                 v == SSE(r, "done")
      <3>1. v \in Seq(Items) /\ v # <<>> /\ v[Len(v)].kind = "done"
        <4>1. e \in Items /\ e.kind = "done"
          BY <2>1 DEF Part
        <4> HIDE DEF e
        <4>2. CASE started[r]
          <5>1. v = <<e>>
            BY <4>2 DEF SSE, e
          <5>2. QED
            BY <4>1, <5>1, OneItem
        <4>3. CASE ~started[r]
          <5>1. v = <<StatusLine(200, 0), e>>
            BY <4>3 DEF SSE, e
          <5>2. QED
            <6> HIDE DEF v
            <6>1. v \in Seq(Items) /\ Len(v) = 2 /\ v[2] = e
              BY <2>1, <4>1, <5>1
            <6>2. QED
              BY <4>1, <6>1
        <4>4. QED
          BY <4>2, <4>3
      <3>2. Put(r, v)
        BY <1>3, <2>3 DEF StreamDone
      <3> HIDE DEF v
      <3>3. QED
        BY <1>1, <3>1, <3>2, LastTells
    <2>4. QED
      BY <2>2, <2>3
  <1>4. CASE StreamZero(r) \/ StreamIdle(r)
    <2>1. \E n \in Nat : Put(r, Retryable(r, n))
      BY <1>4 DEF StreamZero, StreamIdle, emptyResponseRetryAfterSeconds,
                  timeoutRetryAfterSeconds
    <2>2. QED
      BY <1>1, <1>2, <2>1, RetryableTells
  <1>5. CASE StreamFails(r)
    <2>1. CASE started[r]
      <3>1. /\ wire'[r] = wire[r] /\ started'[r] = started[r]
            /\ call' = call /\ outcome' = outcome /\ tokens' = tokens
        BY <1>5, <2>1 DEF StreamFails, Leave
      <3>2. wire'[r] # <<>>
        BY <1>2, <2>1, <3>1
      <3>3. CASE Failed(r)
        BY <2>1, <3>1, <3>2, <3>3 DEF Told, Failed
      <3>4. CASE outcome[r] = "ok" /\ tokens[r] = 0 /\ call[r].endpoint = "responses"
        <4>1. Empty(r)' /\ Streams(r)'
          BY <1>5, <3>1, <3>4 DEF StreamFails, Empty, Streams
        <4>2. QED
          BY <3>1, <3>2, <3>4, <4>1 DEF Told
      <3>5. QED
        BY <1>5, <3>3, <3>4 DEF StreamFails
    <2>2. CASE ~started[r]
      <3>1. wire[r] = <<>>
        BY <1>2, <2>2
      <3>2. Put(r, ErrorResponse(502, emptyResponseRetryAfterSeconds))
        BY <1>5, <2>2 DEF StreamFails
      <3>3. emptyResponseRetryAfterSeconds \in Nat
        BY DEF emptyResponseRetryAfterSeconds
      <3>4. QED
        BY <1>1, <3>1, <3>2, <3>3, RefusalTells
    <2>3. QED
      BY <2>1, <2>2
  <1>6. QED
    BY <1>3, <1>4, <1>5

\* The ways out of a handler that does not stream.
LEMMA CollectTells ==
    ASSUME IInv, NEW r \in Requests,
           \/ CollectDone(r) \/ CollectZero(r) \/ CollectFails(r) \/ CollectIdle(r)
           \/ CopyDone(r)
    PROVE  Told(r)'
  <1>1. TypeOK /\ wire[r] \in Seq(Items) /\ call' = call
    BY DEF IInv, TypeOK, CollectDone, CollectZero, CollectFails, CollectIdle, CopyDone, Leave
  <1>2. CASE CollectZero(r) \/ CollectFails(r) \/ CollectIdle(r)
    <2>1. wire[r] = <<>>
      BY <1>2 DEF IInv, Phases, During, CollectZero, CollectFails, CollectIdle, Leave, Goto
    <2>2. \E c \in Nat : c # 200 /\ Put(r, ErrorResponse(c, 0))
      BY <1>2 DEF CollectZero, CollectFails, CollectIdle
    <2>3. QED
      BY <1>1, <2>1, <2>2, RefusalTells
  <1>3. CASE CollectDone(r)
    <2> DEFINE w == <<StatusLine(200, 0), Part("data")>>
    <2>1. w \in Seq(Items) /\ w # <<>>
      BY ItemTypes
    <2>2. Put(r, w)
      BY <1>3 DEF CollectDone
    <2> HIDE DEF w
    <2>3. wire'[r] # <<>>
      BY <1>1, <2>1, <2>2 DEF Put, TypeOK
    <2>4. ~Streams(r)' /\ call'[r].endpoint # "count"
      BY <1>1, <1>3 DEF CollectDone, Streams
    <2>5. QED
      BY <2>3, <2>4 DEF Told, Verdict
  <1>4. CASE CopyDone(r)
    <2>1. wire'[r] # <<>>
      <3>1. CASE wire[r] = <<>>
        <4> DEFINE w == <<StatusLine(200, 0)>>
        <4>1. w \in Seq(Items) /\ w # <<>>
          BY ItemTypes
        <4>2. Put(r, w)
          BY <1>4, <3>1 DEF CopyDone
        <4> HIDE DEF w
        <4>3. QED
          BY <1>1, <4>1, <4>2 DEF Put, TypeOK
      <3>2. CASE wire[r] # <<>>
        BY <1>4, <3>2 DEF CopyDone
      <3>3. QED
        BY <3>1, <3>2
    <2>2. QED
      BY <1>1, <1>4, <2>1 DEF Told, CopyDone
  <1>5. QED
    BY <1>2, <1>3, <1>4

\* The other steps do not return.
LEMMA NoReturn ==
    ASSUME TypeOK, NEW r \in Requests,
           \/ Prepare(r) \/ Forward(r) \/ StartReading(r) \/ CopyBody(r)
           \/ \E kind \in {"text", "finish", "other"}, usage \in {NoUsage, 0, 1} :
                 Event(r, kind, usage)
           \/ \E how \in {"ok", "idle", "broken", "writeErr"} : LoopEnds(r, how)
    PROVE  pc'[r] # "returned"
  BY DEF Prepare, Forward, StartReading, CopyBody, Event, LoopEnds, Goto, TypeOK

\* Whatever the endpoint and mode and wherever the upstream, the loop or the
\* client fails, a handler leaves a client without a verdict only when a stream
\* that had begun was cut, a Responses stream had no tokens, or it copied a token
\* count (handleStreamingError, the collectors, HandleMessagesCountTokens).
THEOREM SilenceExplained == Spec => []SilentOnlyWhenCut
  <1>1. Init => SilentOnlyWhenCut
    BY DEF Init, SilentOnlyWhenCut
  <1>2. IInv /\ SilentOnlyWhenCut /\ [Next]_vars => SilentOnlyWhenCut'
    <2> SUFFICES ASSUME IInv, SilentOnlyWhenCut, [Next]_vars
                 PROVE  SilentOnlyWhenCut'
      OBVIOUS
    <2>1. TypeOK
      BY DEF IInv
    <2>2. ASSUME NEW r \in Requests, Handle(r),
                 NEW q \in Requests, pc'[q] = "returned"
          PROVE  Told(q)'
      <3>1. CASE q # r
        <4>1. SameAt(q)
          BY <2>1, <2>2, <3>1, OnlyOne
        <4>2. Told(q)
          BY <2>2, <4>1 DEF SameAt, SilentOnlyWhenCut, Told
        <4>3. QED
          BY <4>1, <4>2 DEF SameAt, Told, Verdict, Has, Streams, Failed, Empty
      <3>2. CASE q = r
        <4>1. CASE RefuseBody(r) \/ ForwardFails(r) \/ RelayStatus(r)
          BY <3>2, <4>1, EarlyTells
        <4>2. CASE StreamDone(r) \/ StreamZero(r) \/ StreamFails(r) \/ StreamIdle(r)
          BY <3>2, <4>2, StreamTells
        <4>3. CASE \/ CollectDone(r) \/ CollectZero(r) \/ CollectFails(r)
                   \/ CollectIdle(r) \/ CopyDone(r)
          BY <3>2, <4>3, CollectTells
        <4>4. CASE \/ Prepare(r) \/ Forward(r) \/ StartReading(r) \/ CopyBody(r)
                   \/ \E kind \in {"text", "finish", "other"}, usage \in {NoUsage, 0, 1} :
                         Event(r, kind, usage)
                   \/ \E how \in {"ok", "idle", "broken", "writeErr"} : LoopEnds(r, how)
          BY <2>1, <2>2, <3>2, <4>4, NoReturn
        <4>5. QED
          BY <2>2, <4>1, <4>2, <4>3, <4>4 DEF Handle
      <3>3. QED
        BY <3>1, <3>2
    <2>3. CASE UNCHANGED vars
      BY <2>3 DEF vars, SilentOnlyWhenCut, Verdict, Has, Streams, Failed, Empty
    <2>4. QED
      BY <2>2, <2>3 DEF Next, SilentOnlyWhenCut, Told
  <1>3. QED
    BY <1>1, <1>2, Invariance, PTL DEF Spec
-----------------------------------------------------------------------------
(* The advice to reduce the context. *)

\* A token count has no idle timer, and the loops that have ended are those of
\* handlers that have returned.
Untimed == \A r \in Requests : outcome[r] = "idle" => call[r].endpoint # "count"
EndedReturned == \A i \in 1..Len(ended) : pc[ended[i]] = "returned"

\* The counter is the number of timeouts since the last complete stream.
Counts == consecutiveTimeouts = Cardinality(TimeoutsSinceReset(Len(ended)))

WayOut(r) == \/ StreamDone(r) \/ StreamZero(r) \/ StreamFails(r) \/ StreamIdle(r)
             \/ CollectDone(r) \/ CollectZero(r) \/ CollectFails(r) \/ CollectIdle(r)
             \/ CopyDone(r)

\* What the end of a loop does to the counter and to the advice.
LEMMA Effects ==
    ASSUME TypeOK, Untimed, NEW r \in Requests, WayOut(r)
    PROVE  /\ Leave(r)
           /\ Resets(r) => consecutiveTimeouts' = 0
           /\ outcome[r] = "idle" =>
                 /\ consecutiveTimeouts' = consecutiveTimeouts + 1
                 /\ advised'[r] = (consecutiveTimeouts + 1 >= Threshold)
           /\ ~Resets(r) /\ outcome[r] # "idle" =>
                 consecutiveTimeouts' = consecutiveTimeouts
           /\ \A q \in Requests \ {r} : advised'[q] = advised[q]
  <1>1. Leave(r)
    BY DEF WayOut, StreamDone, StreamZero, StreamFails, StreamIdle, CollectDone,
           CollectZero, CollectFails, CollectIdle, CopyDone
  <1>2. CASE StreamDone(r) \/ StreamZero(r)
    BY <1>1, <1>2 DEF StreamDone, StreamZero, Resets
  <1>3. CASE StreamFails(r)
    BY <1>1, <1>3 DEF StreamFails, Resets, Failed
  <1>4. CASE CollectDone(r) \/ CollectZero(r) \/ CollectFails(r)
    BY <1>1, <1>4 DEF CollectDone, CollectZero, CollectFails, Resets, Failed
  <1>5. CASE CopyDone(r)
    <2>1. ~Streams(r)
      BY <1>5, HandlerAssumption DEF CopyDone, TypeOK, Streams
    <2>2. QED
      BY <1>1, <1>5, <2>1 DEF CopyDone, Resets, Untimed
  <1>6. CASE StreamIdle(r) \/ CollectIdle(r)
    <2>1. /\ outcome[r] = "idle"
          /\ consecutiveTimeouts' = consecutiveTimeouts + 1
          /\ advised' = [advised EXCEPT ![r] = (consecutiveTimeouts + 1 >= Threshold)]
      BY <1>6 DEF StreamIdle, CollectIdle, Advice
    <2>2. advised \in [Requests -> BOOLEAN]
      BY DEF TypeOK
    <2>3. /\ advised'[r] = (consecutiveTimeouts + 1 >= Threshold)
          /\ \A q \in Requests \ {r} : advised'[q] = advised[q]
      BY <2>1, <2>2, Zenon
    <2>4. ~Resets(r)
      BY <2>1 DEF Resets
    <2>5. QED
      BY <1>1, <2>1, <2>3, <2>4
  <1>7. QED
    BY <1>2, <1>3, <1>4, <1>5, <1>6 DEF WayOut

\* What counts of the loops that have ended depends on what does not change any
\* more.
LEMMA SameTimeouts ==
    ASSUME NEW n \in Nat,
           \A i \in 1..n : /\ ended'[i] = ended[i]
                           /\ outcome'[ended[i]] = outcome[ended[i]]
                           /\ tokens'[ended[i]] = tokens[ended[i]]
                           /\ call'[ended[i]] = call[ended[i]]
    PROVE  TimeoutsSinceReset(n)' = TimeoutsSinceReset(n)
  <1>1. \A i \in 1..n : /\ outcome'[ended'[i]] = outcome[ended[i]]
                        /\ Resets(ended[i])' <=> Resets(ended[i])
    BY DEF Resets, Streams
  <1>2. \A i \in 1..n : \A j \in i..n : j \in 1..n
    OBVIOUS
  <1>3. QED
    BY <1>1, <1>2 DEF TimeoutsSinceReset

\* There are finitely many timeouts to count.
LEMMA TimeoutsFinite == \A n \in Nat : IsFiniteSet(TimeoutsSinceReset(n))
  <1>1. \A n \in Nat : TimeoutsSinceReset(n) \subseteq 1..n
    BY DEF TimeoutsSinceReset
  <1>2. \A n \in Nat : IsFiniteSet(1..n)
    BY FS_Interval
  <1>3. QED
    BY <1>1, <1>2, FS_Subset

\* The timeouts that count when one more loop has ended.
LEMMA OneMoreEnded ==
    ASSUME NEW r \in Requests, Leave(r), ended \in Seq(Requests),
           NEW CONSTANT N \in Nat, N = Len(ended)
    PROVE  /\ \A n \in 0..N : TimeoutsSinceReset(n)' = TimeoutsSinceReset(n)
           /\ Resets(r) => TimeoutsSinceReset(N + 1)' = {}
           /\ ~Resets(r) /\ outcome[r] = "idle" =>
                 TimeoutsSinceReset(N + 1)' = TimeoutsSinceReset(N) \cup {N + 1}
           /\ ~Resets(r) /\ outcome[r] # "idle" =>
                 TimeoutsSinceReset(N + 1)' = TimeoutsSinceReset(N)
  <1> DEFINE T == TimeoutsSinceReset(N)
             U == TimeoutsSinceReset(N + 1)'
  <1>1. UNCHANGED <<call, tokens, outcome>>
    BY DEF Leave
  <1>2. /\ \A i \in 1..N : ended'[i] = ended[i]
        /\ ended'[N + 1] = r
    BY DEF Leave
  <1>3. \A q : Resets(q)' <=> Resets(q)
    BY <1>1 DEF Resets, Streams
  <1>4. \A n \in 0..N : TimeoutsSinceReset(n)' = TimeoutsSinceReset(n)
    BY <1>1, <1>2, SameTimeouts
  <1>5. U = {i \in 1..(N + 1) : /\ outcome[ended'[i]] = "idle"
                                /\ \A j \in i..(N + 1) : ~Resets(ended'[j])}
    BY <1>1, <1>3 DEF TimeoutsSinceReset
  <1>6. ASSUME Resets(r) PROVE U = {}
    <2>1. \A i \in 1..(N + 1) : N + 1 \in i..(N + 1)
      BY <1>2
    <2>2. QED
      BY <1>2, <1>5, <1>6, <2>1
  <1>7. ASSUME ~Resets(r)
        PROVE  U = T \cup (IF outcome[r] = "idle" THEN {N + 1} ELSE {})
    <2>1. ASSUME NEW i \in 1..N
          PROVE  i \in U <=> i \in T
      <3>1. \A j \in i..(N + 1) : j \in i..N \/ j = N + 1
        BY <1>2
      <3>2. \A j \in i..N : j \in i..(N + 1) /\ ended'[j] = ended[j]
        BY <1>2
      <3>3. (\A j \in i..(N + 1) : ~Resets(ended'[j])) <=> (\A j \in i..N : ~Resets(ended[j]))
        BY <1>2, <1>7, <3>1, <3>2
      <3>4. i \in 1..(N + 1) /\ ended'[i] = ended[i]
        BY <1>2
      <3>5. QED
        BY <1>5, <3>3, <3>4 DEF TimeoutsSinceReset
    <2>2. N + 1 \in U <=> outcome[r] = "idle"
      <3>1. \A j \in (N + 1)..(N + 1) : j = N + 1
        BY <1>2
      <3>2. N + 1 \in 1..(N + 1)
        BY <1>2
      <3>3. QED
        BY <1>2, <1>5, <1>7, <3>1, <3>2
    <2>3. T \subseteq 1..N /\ U \subseteq 1..(N + 1)
      BY <1>5 DEF TimeoutsSinceReset
    <2>4. \A i \in 1..(N + 1) : i \in 1..N \/ i = N + 1
      BY <1>2
    <2>5. N + 1 \notin T
      BY <1>2, <2>3
    <2> HIDE DEF T, U
    <2>6. QED
      BY <2>1, <2>2, <2>3, <2>4, <2>5
  <1>8. QED
    BY <1>4, <1>6, <1>7

\* The end of a loop.
LEMMA WayOutCounts ==
    ASSUME TypeOK, Untimed, EndedReturned, Counts, AdviceJustified,
           NEW r \in Requests, WayOut(r)
    PROVE  EndedReturned' /\ Counts' /\ AdviceJustified'
  <1> PICK N \in Nat : N = Len(ended)
    BY DEF TypeOK
  <1> DEFINE T == TimeoutsSinceReset(N)
             U == TimeoutsSinceReset(N + 1)'
  <1>1. /\ Leave(r)
        /\ Resets(r) => consecutiveTimeouts' = 0
        /\ outcome[r] = "idle" =>
              /\ consecutiveTimeouts' = consecutiveTimeouts + 1
              /\ advised'[r] = (consecutiveTimeouts + 1 >= Threshold)
        /\ ~Resets(r) /\ outcome[r] # "idle" =>
              consecutiveTimeouts' = consecutiveTimeouts
        /\ \A q \in Requests \ {r} : advised'[q] = advised[q]
    BY Effects
  <1>2. /\ pc[r] = "end" /\ pc' = [pc EXCEPT ![r] = "returned"]
        /\ outcome' = outcome
        /\ ended' = Append(ended, r) /\ ended \in Seq(Requests)
    BY <1>1 DEF Leave, Goto, TypeOK
  <1>3. /\ Len(ended') = N + 1
        /\ \A i \in 1..N : ended'[i] = ended[i] /\ ended[i] \in Requests
        /\ ended'[N + 1] = r
        /\ \A i \in 1..(N + 1) : i \in 1..N \/ i = N + 1
    BY <1>2
  <1>4. \A i \in 1..N : ended[i] # r
    BY <1>2 DEF EndedReturned
  <1>5. /\ \A n \in 0..N : TimeoutsSinceReset(n)' = TimeoutsSinceReset(n)
        /\ Resets(r) => U = {}
        /\ ~Resets(r) /\ outcome[r] = "idle" => U = T \cup {N + 1}
        /\ ~Resets(r) /\ outcome[r] # "idle" => U = T
    BY <1>1, <1>2, OneMoreEnded
  <1>6. consecutiveTimeouts = Cardinality(T) /\ consecutiveTimeouts \in Nat
    BY DEF Counts, TypeOK
  <1>7. IsFiniteSet(T) /\ N + 1 \notin T
    BY <1>3, TimeoutsFinite DEF TimeoutsSinceReset
  <1> HIDE DEF T
  <1>8. consecutiveTimeouts' = Cardinality(U)
    <2> HIDE DEF U
    <2>1. CASE Resets(r)
      BY <1>1, <1>5, <2>1, FS_EmptySet
    <2>2. CASE ~Resets(r) /\ outcome[r] = "idle"
      BY <1>1, <1>5, <1>6, <1>7, <2>2, FS_AddElement
    <2>3. CASE ~Resets(r) /\ outcome[r] # "idle"
      BY <1>1, <1>5, <1>6, <2>3
    <2>4. QED
      BY <2>1, <2>2, <2>3
  <1>9. EndedReturned'
    <2>1. pc'[r] = "returned"
      BY <1>2 DEF TypeOK
    <2>2. \A i \in 1..N : pc'[ended[i]] = "returned"
      BY <1>2, <1>3, <1>4 DEF EndedReturned, TypeOK
    <2>3. QED
      BY <1>3, <2>1, <2>2 DEF EndedReturned
  <1>10. Counts'
    BY <1>3, <1>8 DEF Counts
  <1>11. ASSUME NEW n \in 1..(N + 1), outcome'[ended'[n]] = "idle"
         PROVE  advised'[ended'[n]] <=> Cardinality(TimeoutsSinceReset(n)') >= Threshold
    <2>1. CASE n \in 1..N
      <3>1. /\ advised'[ended'[n]] = advised[ended[n]]
            /\ outcome[ended[n]] = "idle"
        BY <1>1, <1>2, <1>3, <1>4, <1>11, <2>1
      <3>2. TimeoutsSinceReset(n)' = TimeoutsSinceReset(n)
        BY <1>3, <1>5, <2>1
      <3>3. QED
        BY <2>1, <3>1, <3>2 DEF AdviceJustified
    <2>2. CASE n = N + 1
      <3>1. outcome[r] = "idle"
        BY <1>2, <1>3, <1>11, <2>2
      <3>2. QED
        BY <1>1, <1>3, <1>8, <2>2, <3>1
    <2>3. QED
      BY <1>3, <2>1, <2>2
  <1>12. AdviceJustified'
    BY <1>3, <1>11 DEF AdviceJustified
  <1>13. QED
    BY <1>9, <1>10, <1>12

\* Every other step leaves the loops that have ended as they are.
LEMMA OtherCounts ==
    ASSUME TypeOK, EndedReturned, Counts, AdviceJustified,
           NEW r \in Requests, pc[r] # "returned",
           \A q \in Requests : q # r => SameAt(q),
           UNCHANGED <<advised, consecutiveTimeouts, ended>>
    PROVE  EndedReturned' /\ Counts' /\ AdviceJustified'
  <1>1. ended \in Seq(Requests)
    BY DEF TypeOK
  <1>2. Len(ended) \in Nat /\ \A i \in 1..Len(ended) : ended[i] \in Requests
    BY <1>1
  <1>3. \A i \in 1..Len(ended) : SameAt(ended[i])
    BY <1>2 DEF EndedReturned
  <1>4. \A n \in 0..Len(ended) : TimeoutsSinceReset(n)' = TimeoutsSinceReset(n)
    <2>1. SUFFICES ASSUME NEW n \in 0..Len(ended)
                   PROVE  TimeoutsSinceReset(n)' = TimeoutsSinceReset(n)
      OBVIOUS
    <2>2. \A i \in 1..n : SameAt(ended[i])
      BY <1>2, <1>3
    <2>3. QED
      BY <1>2, <2>2, SameTimeouts DEF SameAt
  <1>5. EndedReturned'
    BY <1>3 DEF EndedReturned, SameAt
  <1>6. Counts'
    BY <1>2, <1>4 DEF Counts
  <1>7. AdviceJustified'
    BY <1>2, <1>3, <1>4 DEF AdviceJustified, SameAt
  <1>8. QED
    BY <1>5, <1>6, <1>7

\* Whatever the threshold, the number of requests and the order in which they
\* end, a client is told to reduce its context exactly when that many timeouts
\* have come since the last complete stream (timeoutMessage, consecutiveTimeouts).
THEOREM AdviceExact == Spec => []AdviceJustified
  <1> DEFINE J == Untimed /\ EndedReturned /\ Counts /\ AdviceJustified
  <1>1. Init => J
    <2>1. SUFFICES ASSUME Init PROVE J
      OBVIOUS
    <2>2. ended = <<>> /\ Len(ended) = 0 /\ consecutiveTimeouts = 0
      BY <2>1 DEF Init
    <2>3. TimeoutsSinceReset(0) = {}
      BY DEF TimeoutsSinceReset
    <2>4. Counts
      BY <2>2, <2>3, FS_EmptySet DEF Counts
    <2>5. Untimed /\ EndedReturned /\ AdviceJustified
      BY <2>1, <2>2 DEF Init, Untimed, EndedReturned, AdviceJustified
    <2>6. QED
      BY <2>4, <2>5
  <1>2. TypeOK /\ J /\ [Next]_vars => J'
    <2>1. SUFFICES ASSUME TypeOK, J, [Next]_vars PROVE J'
      OBVIOUS
    <2>2. ASSUME NEW r \in Requests, Handle(r) PROVE J'
      <3>1. \A q \in Requests : q # r => SameAt(q)
        BY <2>1, <2>2, OnlyOne
      <3>2. Untimed'
        <4>1. outcome'[r] = "idle" => call'[r].endpoint # "count"
          BY <2>1, <2>2
             DEF Untimed, TypeOK, Handle, RefuseBody, Prepare, ForwardFails, Forward,
                 RelayStatus, StartReading, Event, CopyBody, LoopEnds, StreamDone,
                 StreamZero, StreamFails, StreamIdle, CollectDone, CollectZero,
                 CollectFails, CollectIdle, CopyDone, Leave
        <4>2. QED
          BY <2>1, <3>1, <4>1 DEF Untimed, SameAt
      <3>3. CASE WayOut(r)
        BY <2>1, <3>2, <3>3, WayOutCounts
      <3>4. CASE ~WayOut(r)
        <4>1. /\ pc[r] # "returned"
              /\ UNCHANGED <<advised, consecutiveTimeouts, ended>>
          BY <2>2, <3>4
             DEF WayOut, Handle, RefuseBody, Prepare, ForwardFails, Forward,
                 RelayStatus, StartReading, Event, CopyBody, LoopEnds, Goto
        <4>2. QED
          BY <2>1, <3>1, <3>2, <4>1, OtherCounts
      <3>5. QED
        BY <3>3, <3>4
    <2>3. CASE UNCHANGED vars
      <3>1. \A n : TimeoutsSinceReset(n)' = TimeoutsSinceReset(n)
        BY <2>3 DEF vars, TimeoutsSinceReset, Resets, Streams
      <3>2. QED
        BY <2>1, <2>3, <3>1 DEF vars, Untimed, EndedReturned, Counts, AdviceJustified
    <2>4. QED
      BY <2>1, <2>2, <2>3 DEF Next
  <1>3. QED
    BY <1>1, <1>2, Typing, PTL DEF Spec
=============================================================================
