---------------------------- MODULE ModelManager ----------------------------
(***************************************************************************)
(* The model list and its cache.  GetModels is called by the handlers of   *)
(* /v1/models and by one background goroutine with a ticker.  It tests the *)
(* cache under a read lock, lets go of the lock for the fetch, which may   *)
(* take as long as the timeout of the HTTP client, and stores what came of *)
(* it: the provider's list, or the hardcoded list if the fetch failed for  *)
(* whatever reason, a caller that has gone away included.                  *)
(* All times are relative: every clock says how long something is ago.     *)
(***************************************************************************)
EXTENDS Integers

CONSTANTS Handlers,       \* handlers of /v1/models
          Background,     \* the goroutine of StartRefresh
          Interval,       \* refreshInterval
          FetchTimeout    \* the timeout of the HTTP client

ASSUME ModelAssumption ==
    /\ Background \notin Handlers
    /\ Interval \in Nat \ {0}
    /\ FetchTimeout \in Nat \ {0}

Callers == Handlers \cup {Background}

VARIABLES
    provider,   \* "off": useProvider is not set; "open": the provider answers
                \* anybody; "keyed": it refuses a request without an API key
    models,     \* what is cached: "none", "hardcoded", "provider" or "empty"
    contentAge, \* how long ago the provider read what is cached
    age,        \* time.Since(lastRefresh), while something is cached
    pc,         \* caller: "idle", "fetch" or, the provider having read, "reply"
    elapsed,    \* how long the caller's fetch has taken
    replyAge,   \* how long ago the provider read what is on its way to the caller
    timer,      \* time left to the next tick of the ticker
    due,        \* a tick waits in the ticker's channel
    oldest      \* the oldest content any handler has answered with

vars == <<provider, models, contentAge, age, pc, elapsed, replyAge, timer, due, oldest>>
cacheVars == <<models, contentAge, age>>
tickerVars == <<timer, due>>

Init == /\ provider \in {"off", "open", "keyed"}
        /\ models = "none"
        /\ contentAge = 0
        /\ age = 0
        /\ pc = [c \in Callers |-> "idle"]
        /\ elapsed = [c \in Callers |-> 0]
        /\ replyAge = [c \in Callers |-> 0]
        /\ timer = Interval
        /\ due = FALSE
        /\ oldest = 0

Busy(c) == pc[c] # "idle"

\* One unit of time.  A fetch does not outlast its timeout, and what needs no
\* answer from outside needs no time: a tick that the goroutine can take, and
\* the use of the hardcoded list.  A tick that finds the channel full is lost.
Tick == /\ ~(due /\ ~Busy(Background))
        /\ \A c \in Callers : Busy(c) => provider # "off" /\ elapsed[c] < FetchTimeout
        /\ age' = IF models = "none" THEN age ELSE age + 1
        /\ contentAge' = IF models = "none" THEN contentAge ELSE contentAge + 1
        /\ elapsed' = [c \in Callers |-> IF Busy(c) THEN elapsed[c] + 1 ELSE 0]
        /\ replyAge' = [c \in Callers |-> IF pc[c] = "reply" THEN replyAge[c] + 1 ELSE 0]
        /\ timer' = IF timer = 1 THEN Interval ELSE timer - 1
        /\ due' = (due \/ timer = 1)
        /\ UNCHANGED <<provider, models, pc, oldest>>
-----------------------------------------------------------------------------
(* GetModels. *)

\* Mutant: every call fetches.
MutNeedsRefreshAlways == TRUE

\* Mutant: the interval is taken twice.
MutNeedsRefreshLate == age > 2 * Interval

NeedsRefresh == age > Interval

\* !needsRefresh && len(cached) > 0
UseCache == ~NeedsRefresh /\ models \in {"hardcoded", "provider"}

Older(a, b) == IF a > b THEN a ELSE b

\* What a call returns is an answer if a handler made it.
Answer(c, a) == oldest' = IF c \in Handlers THEN Older(oldest, a) ELSE oldest

\* The answer comes from the cache.
ReturnCached(c) == /\ UseCache
                   /\ Answer(c, contentAge)
                   /\ UNCHANGED <<pc, elapsed, replyAge>>

BeginFetch(c) == /\ ~UseCache
                 /\ pc' = [pc EXCEPT ![c] = "fetch"]
                 /\ elapsed' = [elapsed EXCEPT ![c] = 0]
                 /\ UNCHANGED <<replyAge, oldest>>

\* The test of the cache, under the read lock.
Check(c) == /\ ~Busy(c)
            /\ ReturnCached(c) \/ BeginFetch(c)
            /\ UNCHANGED <<provider, cacheVars>>

\* The provider reads its list; the answer takes its time.  main starts the
\* background goroutine with an empty key.
ProviderReads(c) == /\ pc[c] = "fetch"
                    /\ provider = "open" \/ (provider = "keyed" /\ c # Background)
                    /\ pc' = [pc EXCEPT ![c] = "reply"]
                    /\ replyAge' = [replyAge EXCEPT ![c] = 0]
                    /\ UNCHANGED <<provider, cacheVars, elapsed, tickerVars, oldest>>

\* Mutant: the time of the refresh is not noted.
MutStore(c, list, a) ==
    /\ models' = list
    /\ contentAge' = a
    /\ UNCHANGED age
    /\ pc' = [pc EXCEPT ![c] = "idle"]
    /\ elapsed' = [elapsed EXCEPT ![c] = 0]
    /\ replyAge' = [replyAge EXCEPT ![c] = 0]
    /\ Answer(c, a)

\* The update of the cache, under the lock, and the return.
Store(c, list, a) == /\ models' = list
                     /\ contentAge' = a
                     /\ age' = 0
                     /\ pc' = [pc EXCEPT ![c] = "idle"]
                     /\ elapsed' = [elapsed EXCEPT ![c] = 0]
                     /\ replyAge' = [replyAge EXCEPT ![c] = 0]
                     /\ Answer(c, a)

\* Mutant: a list is stored only where there was none.
MutFetchKeepsOld(c) ==
    /\ pc[c] = "reply"
    /\ Store(c, IF models = "none" THEN "provider" ELSE models, replyAge[c])
    /\ UNCHANGED <<provider, tickerVars>>

\* A 200 with a list that can be decoded, which may be empty.
FetchSucceeds(c) == /\ pc[c] = "reply"
                    /\ \E list \in {"provider", "empty"} : Store(c, list, replyAge[c])
                    /\ UNCHANGED <<provider, tickerVars>>

\* No connection, another status, a body that cannot be decoded, the timeout,
\* or the context of the request: its client has left.
FetchFails(c) == /\ Busy(c)
                 /\ provider # "off"
                 /\ Store(c, "hardcoded", 0)
                 /\ UNCHANGED <<provider, tickerVars>>

UseHardcoded(c) == /\ Busy(c)
                   /\ provider = "off"
                   /\ Store(c, "hardcoded", 0)
                   /\ UNCHANGED <<provider, tickerVars>>

Fetch(c) == ProviderReads(c) \/ FetchSucceeds(c) \/ FetchFails(c) \/ UseHardcoded(c)
-----------------------------------------------------------------------------
(* The callers. *)

HandleModels(h) == Check(h) /\ UNCHANGED tickerVars

\* StartRefresh takes a tick from the channel.
TakeTick == /\ due
            /\ due' = FALSE
            /\ Check(Background)
            /\ UNCHANGED timer

Next == \/ Tick
        \/ \E h \in Handlers : HandleModels(h)
        \/ TakeTick
        \/ \E c \in Callers : Fetch(c)

\* Time passes, the background goroutine runs, a fetch ends.  Nobody has to ask.
Fairness == /\ WF_vars(Tick)
            /\ WF_vars(TakeTick)
            /\ \A c \in Callers : WF_vars(Fetch(c))

Spec == Init /\ [][Next]_vars /\ Fairness
-----------------------------------------------------------------------------
(* Properties. *)

TypeOK == /\ provider \in {"off", "open", "keyed"}
          /\ models \in {"none", "hardcoded", "provider", "empty"}
          /\ contentAge \in Nat
          /\ age \in Nat
          /\ pc \in [Callers -> {"idle", "fetch", "reply"}]
          /\ elapsed \in [Callers -> Nat]
          /\ replyAge \in [Callers -> Nat]
          /\ timer \in 1..Interval
          /\ due \in BOOLEAN
          /\ oldest \in Nat

\* However fetches overlap and overwrite one another's result (GetModels lets
\* go of the lock in between), no handler answers with a list that the provider
\* has read longer ago than an interval and the time one fetch may take.
AnswerFresh == oldest <= Interval + FetchTimeout

\* The background goroutine keeps the cache from growing old.  It takes up to
\* two intervals, not one: the tick that comes an interval after a refresh
\* finds that the list is not yet older than the interval.
CacheAgeBounded == age <= 2 * Interval + FetchTimeout

\* A list is replaced when it is older than the interval, or by a fetch that
\* had begun before it was stored: an overlapping fetch, which may have failed
\* and put the hardcoded list in the place of the provider's.
Replaced == models' # models \/ age' < age

ReplacedOnlyByOverlap == [][
    (Replaced /\ models \in {"provider", "hardcoded"}) =>
        \/ age > Interval
        \/ \E c \in Callers : Busy(c) /\ pc'[c] = "idle" /\ elapsed[c] >= age ]_vars

\* A failure is not for ever, though the hardcoded list is cached like any
\* other: when the fetches fail no more the provider's list comes back for good,
\* if the provider answers the background goroutine, which has no key.
Recovers == provider = "open" /\ <>[][\A c \in Callers : ~FetchFails(c)]_vars
                => <>[](models \in {"provider", "empty"})
=============================================================================
