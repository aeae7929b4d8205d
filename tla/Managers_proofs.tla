-------------------------- MODULE Managers_proofs --------------------------
(***************************************************************************)
(* Proofs about the two managers that refresh on an interval: the          *)
(* initialisation, for every set of handlers, interval and jitter, and the *)
(* model list, for any number of handlers, any refresh interval and any    *)
(* timeout of a fetch, the one longer or shorter than the other.           *)
(***************************************************************************)
EXTENDS InitManager, ModelManager, TLAPS
-----------------------------------------------------------------------------
(* InitManager. *)

\* Times that were taken lie in the past; nextInitAt was set a whole interval
\* after the last update.
Times == /\ updated <= now
         /\ updated # Never => nextInitAt >= updated + InitRefreshInterval
         /\ \A p \in Requests : Initialising(p) => checked[p] \in 0..now

\* The inductive invariant.
IMInv == IMTypeOK /\ Times /\ NoEarlyRefresh
-----------------------------------------------------------------------------
\* The random delay is no negative number.
LEMMA JitterBound == Jitters \subseteq Nat
  BY InitAssumption DEF Jitters

\* The inductive invariant holds initially and is preserved by every step.
LEMMA IMInvariance == IMSpec => []IMInv
  <1>1. IMInit => IMInv
    <2> SUFFICES ASSUME IMInit PROVE IMInv
      OBVIOUS
    <2>1. IMTypeOK
      BY DEF IMInit, IMTypeOK
    <2>2. \A p \in Requests : ~Initialising(p)
      BY DEF IMInit, Initialising
    <2>3. Times /\ NoEarlyRefresh
      BY <2>2 DEF IMInit, Times, NoEarlyRefresh, Never
    <2>4. QED
      BY <2>1, <2>3 DEF IMInv
  <1>2. IMInv /\ [IMNext]_imVars => IMInv'
    <2> SUFFICES ASSUME IMInv, [IMNext]_imVars PROVE IMInv'
      OBVIOUS
    <2> USE InitAssumption DEF IMInv, IMTypeOK, Times, NoEarlyRefresh,
            Initialising, Never, Goto
    <2>1. CASE IMTick
      BY <2>1 DEF IMTick
    <2>2. ASSUME NEW p \in Requests, Arrive(p) PROVE IMInv'
      BY <2>2 DEF Arrive
    <2>3. ASSUME NEW p \in Requests, NotDue(p) PROVE IMInv'
      BY <2>3 DEF NotDue
    <2>4. ASSUME NEW p \in Requests, Due(p) PROVE IMInv'
      BY <2>4 DEF Due
    <2>5. ASSUME NEW p \in Requests, sendFingerprintRecord(p) PROVE IMInv'
      BY <2>5 DEF sendFingerprintRecord
    <2>6. ASSUME NEW p \in Requests, sendLifecycleEvent(p) PROVE IMInv'
      BY <2>6 DEF sendLifecycleEvent
    <2>7. ASSUME NEW p \in Requests, UpdateNext(p) PROVE IMInv'
      BY <2>7, JitterBound DEF UpdateNext
    <2>8. CASE UNCHANGED imVars
      BY <2>8 DEF imVars
    <2>9. QED
      BY <2>1, <2>2, <2>3, <2>4, <2>5, <2>6, <2>7, <2>8
         DEF IMNext, EnsureInitialized
  <1>3. QED
    BY <1>1, <1>2, PTL DEF IMSpec

\* Every variable keeps its type.
THEOREM IMTyping == IMSpec => []IMTypeOK
  BY IMInvariance, PTL DEF IMInv

\* Initialisation is not repeated within the refresh interval.
THEOREM RefreshInterval == IMSpec => []NoEarlyRefresh
  BY IMInvariance, PTL DEF IMInv
-----------------------------------------------------------------------------
(* ModelManager. *)

\* A fetch ends in time, and the provider has read what it brings while it ran.
FetchClocks == \A c \in Callers : /\ replyAge[c] <= elapsed[c]
                                  /\ elapsed[c] <= FetchTimeout
                                  /\ pc[c] # "reply" => replyAge[c] = 0

\* What is cached had been read during the fetch that stored it.
ContentClock == contentAge <= age + FetchTimeout

\* A caller that fetches saw an old cache, or one that has been filled since.
Overlap == \A c \in Callers :
    Busy(c) /\ models \in {"provider", "hardcoded"} =>
        age > Interval \/ elapsed[c] >= age

\* What the ticker guarantees: the list is older than an interval only by the
\* time that has passed since the last tick, unless a tick waits or is served.
Watched == IF Busy(Background)
           THEN age <= 2 * Interval + elapsed[Background]
           ELSE age <= (IF due THEN 2 * Interval ELSE 2 * Interval - timer)

IInv == TypeOK /\ FetchClocks /\ ContentClock /\ Overlap /\ Watched /\ AnswerFresh

\* The limits are numbers.
LEMMA Positive == Interval \in Nat /\ Interval >= 1 /\ FetchTimeout \in Nat
  BY ModelAssumption

\* Initially nothing is cached and nobody fetches.
LEMMA InitIInv == Init => IInv
<1> SUFFICES ASSUME Init PROVE IInv
  OBVIOUS
<1> USE ModelAssumption DEF Init
<1>1. \A c \in Callers : ~Busy(c)
  BY DEF Busy
<1>2. TypeOK
  <2>1. timer \in 1..Interval
    BY Positive
  <2> QED BY <2>1 DEF TypeOK
<1>3. FetchClocks /\ ContentClock /\ AnswerFresh
  BY DEF FetchClocks, ContentClock, AnswerFresh
<1>4. Overlap /\ Watched
  <2>1. Background \in Callers
    BY DEF Callers
  <2> QED BY <1>1, <2>1 DEF Overlap, Watched
<1> QED BY <1>2, <1>3, <1>4 DEF IInv

\* One unit of time keeps the invariant.
LEMMA TickKeeps == ASSUME IInv, Tick PROVE IInv'
<1> USE ModelAssumption DEF Busy
<1>1. Background \in Callers
  BY DEF Callers
<1>2. TypeOK'
  BY DEF IInv, TypeOK, Tick
<1>3. FetchClocks'
  BY DEF IInv, TypeOK, Tick, FetchClocks
<1>4. ContentClock'
  BY DEF IInv, TypeOK, Tick, ContentClock
<1>5. Overlap'
  BY DEF IInv, TypeOK, Tick, Overlap
<1>6. Watched'
  <2>1. CASE pc[Background] # "idle"
    <3>1. /\ age \in Nat /\ elapsed[Background] \in Nat
          /\ age <= 2 * Interval + elapsed[Background]
          /\ age' <= age + 1 /\ elapsed'[Background] = elapsed[Background] + 1
          /\ pc' = pc
      BY <2>1, <1>1 DEF IInv, TypeOK, Tick, Watched
    <3>2. age' <= 2 * Interval + elapsed'[Background]
      BY <1>2, <3>1 DEF TypeOK
    <3> QED BY <2>1, <3>1, <3>2 DEF Watched
  <2>2. CASE pc[Background] = "idle"
    <3>1. /\ ~due /\ age \in Nat /\ timer \in 1..Interval
          /\ age <= 2 * Interval - timer
          /\ age' <= age + 1 /\ age' \in Nat
          /\ timer' = IF timer = 1 THEN Interval ELSE timer - 1
          /\ due' = (timer = 1)
          /\ pc' = pc
      BY <2>2, <1>1, <1>2 DEF IInv, TypeOK, Tick, Watched
    <3>2. CASE timer = 1
      <4>1. age' <= 2 * Interval
        BY ONLY <3>1, <3>2, Positive
      <4> QED BY <2>2, <3>1, <3>2, <4>1 DEF Watched
    <3>3. CASE timer # 1
      <4>1. age' <= 2 * Interval - timer'
        BY ONLY <3>1, <3>3, Positive
      <4> QED BY <2>2, <3>1, <3>3, <4>1 DEF Watched
    <3> QED BY <3>2, <3>3
  <2> QED BY <2>1, <2>2
<1>7. AnswerFresh'
  BY DEF IInv, Tick, AnswerFresh
<1> QED BY <1>2, <1>3, <1>4, <1>5, <1>6, <1>7 DEF IInv

\* The end of a fetch keeps the invariant.
LEMMA StoreKeeps ==
    ASSUME IInv, NEW c \in Callers, NEW list \in {"hardcoded", "provider", "empty"},
           NEW a \in Nat, a <= FetchTimeout,
           Store(c, list, a), UNCHANGED <<provider, tickerVars>>
    PROVE  IInv'
<1> USE ModelAssumption DEF Busy
<1>1. Background \in Callers
  BY DEF Callers
<1>2. oldest' \in Nat /\ oldest' <= Interval + FetchTimeout
  BY DEF IInv, TypeOK, AnswerFresh, Store, Answer, Older
<1>3. TypeOK'
  BY <1>2 DEF IInv, TypeOK, Store, tickerVars
<1>4. FetchClocks'
  BY DEF IInv, TypeOK, Store, FetchClocks
<1>5. ContentClock'
  BY DEF IInv, TypeOK, Store, ContentClock
<1>6. Overlap'
  BY DEF IInv, TypeOK, Store, Overlap
<1>7. Watched'
  <2>1. age' = 0 /\ timer' \in 1..Interval
    BY <1>3 DEF TypeOK, Store
  <2>2. elapsed'[Background] \in Nat
    BY <1>1, <1>3 DEF TypeOK
  <2>3. /\ 0 <= 2 * Interval + elapsed'[Background]
        /\ 0 <= 2 * Interval
        /\ 0 <= 2 * Interval - timer'
    <3>1. ASSUME NEW i \in Nat, NEW e \in Nat, NEW t \in 1..i
          PROVE  0 <= 2 * i + e /\ 0 <= 2 * i /\ 0 <= 2 * i - t
      OBVIOUS
    <3> QED BY ONLY <3>1, <2>1, <2>2, Positive
  <2> QED BY <2>1, <2>3 DEF Watched
<1>8. AnswerFresh'
  BY <1>2 DEF AnswerFresh
<1> QED BY <1>3, <1>4, <1>5, <1>6, <1>7, <1>8 DEF IInv

\* The test of the cache by a handler keeps the invariant.
LEMMA HandlerChecks == ASSUME IInv, NEW h \in Handlers, HandleModels(h) PROVE IInv'
<1> USE ModelAssumption DEF Busy
<1>1. h \in Callers /\ Background \in Callers /\ h # Background
  BY DEF Callers
<1>2. CASE ReturnCached(h)
  <2>1. oldest' \in Nat /\ oldest' <= Interval + FetchTimeout
    BY <1>2 DEF IInv, TypeOK, AnswerFresh, ContentClock, ReturnCached, UseCache, NeedsRefresh,
       Answer, Older
  <2>2. UNCHANGED <<provider, cacheVars, pc, elapsed, replyAge, tickerVars>>
    BY <1>2 DEF HandleModels, Check, ReturnCached
  <2>3. TypeOK' /\ AnswerFresh'
    BY <2>1, <2>2 DEF IInv, TypeOK, AnswerFresh, cacheVars, tickerVars
  <2>4. FetchClocks' /\ ContentClock' /\ Overlap' /\ Watched'
    BY <2>2 DEF IInv, FetchClocks, ContentClock, Overlap, Watched, cacheVars, tickerVars
  <2> QED BY <2>3, <2>4 DEF IInv
<1>3. CASE BeginFetch(h)
  <2>1. TypeOK'
    BY <1>1, <1>3 DEF IInv, TypeOK, HandleModels, Check, BeginFetch, cacheVars, tickerVars
  <2>2. FetchClocks' /\ ContentClock' /\ AnswerFresh'
    BY <1>1, <1>3 DEF IInv, TypeOK, FetchClocks, ContentClock, AnswerFresh, HandleModels,
       Check, BeginFetch, cacheVars
  <2>3. Overlap'
    BY <1>1, <1>3 DEF IInv, TypeOK, Overlap, HandleModels, Check, BeginFetch, cacheVars,
       UseCache, NeedsRefresh
  <2>4. Watched'
    BY <1>1, <1>3 DEF IInv, TypeOK, Watched, HandleModels, Check, BeginFetch, cacheVars,
       tickerVars
  <2> QED BY <2>1, <2>2, <2>3, <2>4 DEF IInv
<1> QED BY <1>2, <1>3 DEF HandleModels, Check

\* The background goroutine takes a tick: it finds the list young enough, or fetches.
LEMMA TickTaken == ASSUME IInv, TakeTick PROVE IInv'
<1> USE ModelAssumption DEF Busy
<1>1. Background \in Callers /\ Background \notin Handlers
  BY DEF Callers
<1>2. CASE ReturnCached(Background)
  <2>1. age <= Interval /\ oldest' = oldest
    BY <1>1, <1>2 DEF IInv, TypeOK, ReturnCached, UseCache, NeedsRefresh, Answer
  <2>2. UNCHANGED <<provider, cacheVars, pc, elapsed, replyAge, timer>> /\ due' = FALSE
    BY <1>2 DEF TakeTick, Check, ReturnCached
  <2>3. TypeOK' /\ AnswerFresh'
    BY <2>1, <2>2 DEF IInv, TypeOK, AnswerFresh, cacheVars
  <2>4. FetchClocks' /\ ContentClock' /\ Overlap'
    BY <2>2 DEF IInv, FetchClocks, ContentClock, Overlap, cacheVars
  <2>5. Watched'
    BY <1>2, <2>1, <2>2, <2>3 DEF TypeOK, Watched, TakeTick, Check, cacheVars
  <2> QED BY <2>3, <2>4, <2>5 DEF IInv
<1>3. CASE BeginFetch(Background)
  <2>1. TypeOK'
    BY <1>1, <1>3 DEF IInv, TypeOK, TakeTick, Check, BeginFetch, cacheVars
  <2>2. FetchClocks' /\ ContentClock' /\ AnswerFresh'
    BY <1>1, <1>3 DEF IInv, TypeOK, FetchClocks, ContentClock, AnswerFresh, TakeTick, Check,
       BeginFetch, cacheVars
  <2>3. Overlap'
    BY <1>1, <1>3 DEF IInv, TypeOK, Overlap, TakeTick, Check, BeginFetch, cacheVars,
       UseCache, NeedsRefresh
  <2>4. Watched'
    BY <1>1, <1>3 DEF IInv, TypeOK, Watched, TakeTick, Check, BeginFetch, cacheVars
  <2> QED BY <2>1, <2>2, <2>3, <2>4 DEF IInv
<1> QED BY <1>2, <1>3 DEF TakeTick, Check

\* A step of a fetch keeps the invariant.
LEMMA FetchKeeps == ASSUME IInv, NEW c \in Callers, Fetch(c) PROVE IInv'
<1> USE ModelAssumption
<1>1. CASE ProviderReads(c)
  <2>1. TypeOK'
    BY <1>1 DEF IInv, TypeOK, ProviderReads, cacheVars, tickerVars
  <2>2. FetchClocks' /\ ContentClock' /\ AnswerFresh'
    BY <1>1 DEF IInv, TypeOK, FetchClocks, ContentClock, AnswerFresh, ProviderReads, cacheVars
  <2>3. Overlap' /\ Watched'
    BY <1>1 DEF IInv, TypeOK, Overlap, Watched, ProviderReads, cacheVars, tickerVars, Busy,
       Callers
  <2> QED BY <2>1, <2>2, <2>3 DEF IInv
<1>2. CASE FetchSucceeds(c)
  <2>1. replyAge[c] \in Nat /\ replyAge[c] <= FetchTimeout
    BY DEF IInv, TypeOK, FetchClocks
  <2> QED BY <1>2, <2>1, StoreKeeps DEF FetchSucceeds
<1>3. CASE FetchFails(c)
  BY <1>3, StoreKeeps DEF FetchFails
<1>4. CASE UseHardcoded(c)
  BY <1>4, StoreKeeps DEF UseHardcoded
<1> QED BY <1>1, <1>2, <1>3, <1>4 DEF Fetch

\* A step of somebody else keeps the invariant.
LEMMA StutterKeeps == ASSUME IInv, UNCHANGED vars PROVE IInv'
  BY DEF IInv, TypeOK, FetchClocks, ContentClock, Overlap, Watched, AnswerFresh, Busy, vars

\* Every step keeps the invariant.
LEMMA NextIInv == IInv /\ [Next]_vars => IInv'
  BY TickKeeps, HandlerChecks, TickTaken, FetchKeeps, StutterKeeps DEF Next

\* In every behaviour the ages of the list, of the fetches and of the ticks relate
\* as the inductive invariant says.
THEOREM Invariance == Spec => []IInv
  BY InitIInv, NextIInv, PTL DEF Spec

\* The variables of the cache, its callers and its ticker keep their types.
THEOREM Typing == Spec => []TypeOK
<1>1. IInv => TypeOK
  BY DEF IInv
<1> QED BY <1>1, Invariance, PTL

\* No handler answers with a list older than the interval and one fetch
\* (GetModels).
THEOREM Freshness == Spec => []AnswerFresh
<1>1. IInv => AnswerFresh
  BY DEF IInv
<1> QED BY <1>1, Invariance, PTL

\* StartRefresh keeps the cached list younger than two intervals and one fetch,
\* although it does nothing at every other tick.
THEOREM AgeBound == Spec => []CacheAgeBounded
<1>1. IInv => CacheAgeBounded
  <2> SUFFICES ASSUME IInv PROVE CacheAgeBounded
    OBVIOUS
  <2>1. elapsed[Background] \in Nat /\ elapsed[Background] <= FetchTimeout
    BY DEF IInv, TypeOK, FetchClocks, Callers
  <2> QED BY <2>1, ModelAssumption DEF IInv, TypeOK, Watched, CacheAgeBounded
<1> QED BY <1>1, Invariance, PTL

\* Only the store of a caller replaces the list.
LEMMA ReplacedByStore ==
    ASSUME IInv, [Next]_vars, Replaced
    PROVE  \E c \in Callers : Busy(c) /\ pc'[c] = "idle"
<1>1. CASE Tick
  BY <1>1 DEF IInv, TypeOK, Tick, Replaced
<1>2. ASSUME NEW h \in Handlers, HandleModels(h) PROVE FALSE
  BY <1>2 DEF IInv, TypeOK, HandleModels, Check, cacheVars, Replaced
<1>3. CASE TakeTick
  BY <1>3 DEF IInv, TypeOK, TakeTick, Check, cacheVars, Replaced
<1>4. ASSUME NEW c \in Callers, Fetch(c) PROVE Busy(c) /\ pc'[c] = "idle"
  <2>1. CASE ProviderReads(c)
    BY <2>1 DEF IInv, TypeOK, ProviderReads, cacheVars, Replaced
  <2>2. CASE FetchSucceeds(c)
    BY <2>2 DEF IInv, TypeOK, FetchSucceeds, Store, Busy
  <2>3. CASE FetchFails(c)
    BY <2>3 DEF IInv, TypeOK, FetchFails, Store
  <2>4. CASE UseHardcoded(c)
    BY <2>4 DEF IInv, TypeOK, UseHardcoded, Store
  <2> QED BY <1>4, <2>1, <2>2, <2>3, <2>4 DEF Fetch
<1>5. CASE UNCHANGED vars
  BY <1>5 DEF IInv, TypeOK, vars, Replaced
<1> QED BY <1>1, <1>2, <1>3, <1>4, <1>5 DEF Next

\* A list younger than the interval is replaced only by a fetch that had begun
\* before it was stored.
THEOREM OnlyOverlapReplaces == Spec => ReplacedOnlyByOverlap
<1>1. ASSUME IInv, [Next]_vars, Replaced, models \in {"provider", "hardcoded"}
      PROVE  \/ age > Interval
             \/ \E c \in Callers : Busy(c) /\ pc'[c] = "idle" /\ elapsed[c] >= age
  <2>1. PICK c \in Callers : Busy(c) /\ pc'[c] = "idle"
    BY <1>1, ReplacedByStore
  <2>2. age > Interval \/ elapsed[c] >= age
    BY <1>1, <2>1 DEF IInv, Overlap
  <2> QED BY <2>1, <2>2
<1>2. IInv /\ [Next]_vars =>
        [(Replaced /\ models \in {"provider", "hardcoded"}) =>
            \/ age > Interval
            \/ \E c \in Callers : Busy(c) /\ pc'[c] = "idle" /\ elapsed[c] >= age]_vars
  BY <1>1
<1> QED BY <1>2, Invariance, PTL DEF Spec, ReplacedOnlyByOverlap
=============================================================================
