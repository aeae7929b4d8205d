---------------------------- MODULE SessionStore ----------------------------
(***************************************************************************)
(* The session store: a sync.Map from API key to session, used by the      *)
(* handlers' Resolve and by one cleanup goroutine.  Every single sync.Map  *)
(* operation is atomic; what happens between two of them is not.           *)
(***************************************************************************)
EXTENDS Integers

CONSTANTS Requests,   \* goroutines that call Resolve, each one call at a time
          Keys,       \* API keys
          Duration,   \* session lifetime
          Jitter,     \* exclusive bound of the random change of the lifetime
          MaxTime,    \* bound on the clock
          MaxIds      \* bound on the session IDs generated

ASSUME StoreAssumption ==
    /\ Duration \in Nat \ {0}
    /\ Jitter \in 0..Duration
    /\ MaxTime \in Nat
    /\ MaxIds \in Nat

Session   == [id : Nat \ {0}, key : Keys, exp : Nat]
NoSession == [id |-> 0]

VARIABLES
    now,      \* the clock
    ids,      \* session IDs generated so far; they are 1..ids
    store,    \* sessions: key -> *Session
    pc,       \* request: "idle", "load", "check", "store" or "answered"
    key,      \* the key it asks for
    loaded,   \* what its Load returned
    fresh,    \* the session its Create made
    answer,   \* the session whose ID it returned, NoSession for a header's ID
    began,    \* when its call began
    cpc,      \* cleanup: "wait", "range", "delete" or "stopped"
    cutoff,   \* cleanup's `now'
    todo,     \* keys that Range has still to visit
    victim,   \* the key to delete
    judged    \* the session on which that was decided

vars == <<now, ids, store, pc, key, loaded, fresh, answer, began,
          cpc, cutoff, todo, victim, judged>>
requestVars == <<pc, key, loaded, fresh, answer, began>>
cleanupVars == <<cpc, cutoff, todo, victim, judged>>

Init == /\ now = 0
        /\ ids = 0
        /\ store = [k \in Keys |-> NoSession]
        /\ pc = [p \in Requests |-> "idle"]
        /\ key \in [Requests -> Keys]
        /\ loaded = [p \in Requests |-> NoSession]
        /\ fresh = [p \in Requests |-> NoSession]
        /\ answer = [p \in Requests |-> NoSession]
        /\ began = [p \in Requests |-> 0]
        /\ cpc = "wait"
        /\ cutoff = 0
        /\ todo = {}
        /\ victim \in Keys
        /\ judged = NoSession

Tick == /\ now < MaxTime
        /\ now' = now + 1
        /\ UNCHANGED <<ids, store, requestVars, cleanupVars>>
-----------------------------------------------------------------------------
(* Resolve and Get. *)

\* Resolve finds no session header and calls Get.
Begin(p, k) == /\ pc[p] \in {"idle", "answered"}
               /\ pc' = [pc EXCEPT ![p] = "load"]
               /\ key' = [key EXCEPT ![p] = k]
               /\ began' = [began EXCEPT ![p] = now]
               /\ answer' = [answer EXCEPT ![p] = NoSession]
               /\ UNCHANGED <<now, ids, store, loaded, fresh, cleanupVars>>

\* Resolve answers the ID of a header (GetFromHeaders): neither the key nor the
\* store is looked at.
UseHeader(p) == /\ pc[p] \in {"idle", "answered"}
                /\ pc' = [pc EXCEPT ![p] = "answered"]
                /\ answer' = [answer EXCEPT ![p] = NoSession]
                /\ UNCHANGED <<now, ids, store, key, loaded, fresh, began, cleanupVars>>

Load(p) == /\ pc[p] = "load"
           /\ pc' = [pc EXCEPT ![p] = "check"]
           /\ loaded' = [loaded EXCEPT ![p] = store[key[p]]]
           /\ UNCHANGED <<now, ids, store, key, fresh, answer, began, cleanupVars>>

\* Mutant: the expiry is not looked at.
MutUsableIfPresent(p) == loaded[p] # NoSession

\* Mutant: a session is renewed although it has not expired.
MutUsableNever(p) == FALSE

Usable(p) == loaded[p] # NoSession /\ now < loaded[p].exp

ReturnLoaded(p) == /\ pc[p] = "check"
                   /\ Usable(p)
                   /\ pc' = [pc EXCEPT ![p] = "answered"]
                   /\ answer' = [answer EXCEPT ![p] = loaded[p]]
                   /\ loaded' = [loaded EXCEPT ![p] = NoSession]
                   /\ UNCHANGED <<now, ids, store, key, fresh, began, cleanupVars>>

\* What Create adds to the lifetime: n % max, where n is negative for the one
\* int64 whose opposite is itself (randInt64).
Jitters == IF Jitter > 0 THEN (1 - Jitter)..(Jitter - 1) ELSE {0}

\* Mutant: session IDs are made from the clock.
MutGenerateFromClock(p) ==
    /\ pc[p] = "check"
    /\ ~Usable(p)
    /\ ids < MaxIds
    /\ ids' = ids + 1
    /\ fresh' = [fresh EXCEPT ![p] =
                   [id |-> now + 1, key |-> key[p], exp |-> now + Duration]]
    /\ pc' = [pc EXCEPT ![p] = "store"]
    /\ UNCHANGED <<now, store, key, loaded, answer, began, cleanupVars>>

\* Create up to its Store: generateSessionID, the jitter and the expiry.
Generate(p) == /\ pc[p] = "check"
               /\ ~Usable(p)
               /\ ids < MaxIds
               /\ ids' = ids + 1
               /\ \E j \in Jitters :
                     fresh' = [fresh EXCEPT ![p] =
                         [id |-> ids + 1, key |-> key[p], exp |-> now + Duration + j]]
               /\ pc' = [pc EXCEPT ![p] = "store"]
               /\ UNCHANGED <<now, store, key, loaded, answer, began, cleanupVars>>

Store(p) == /\ pc[p] = "store"
            /\ store' = [store EXCEPT ![key[p]] = fresh[p]]
            /\ pc' = [pc EXCEPT ![p] = "answered"]
            /\ answer' = [answer EXCEPT ![p] = fresh[p]]
            /\ loaded' = [loaded EXCEPT ![p] = NoSession]
            /\ fresh' = [fresh EXCEPT ![p] = NoSession]
            /\ UNCHANGED <<now, ids, key, began, cleanupVars>>
-----------------------------------------------------------------------------
(* StartCleanup's goroutine and Cleanup. *)

\* Mutant: the time is taken once, when the goroutine starts.
MutCleanupStartOnce == /\ cpc = "wait"
                       /\ cpc' = "range"
                       /\ todo' = Keys
                       /\ UNCHANGED <<now, ids, store, requestVars, cutoff, victim,
                                      judged>>

CleanupStart == /\ cpc = "wait"
                /\ cpc' = "range"
                /\ cutoff' = now
                /\ todo' = Keys
                /\ UNCHANGED <<now, ids, store, requestVars, victim, judged>>

Expired(s) == s # NoSession /\ cutoff > s.exp

\* Range passes over a key that is not there or not expired.
Keep(k) == /\ cpc = "range"
           /\ k \in todo
           /\ ~Expired(store[k])
           /\ todo' = todo \ {k}
           /\ UNCHANGED <<now, ids, store, requestVars, cpc, cutoff, victim, judged>>

Judge(k) == /\ cpc = "range"
            /\ k \in todo
            /\ Expired(store[k])
            /\ todo' = todo \ {k}
            /\ victim' = k
            /\ judged' = store[k]
            /\ cpc' = "delete"
            /\ UNCHANGED <<now, ids, store, requestVars, cutoff>>

\* sessions.Delete(key): whatever is stored there by now.
Delete == /\ cpc = "delete"
          /\ store' = [store EXCEPT ![victim] = NoSession]
          /\ cpc' = "range"
          /\ judged' = NoSession
          /\ UNCHANGED <<now, ids, requestVars, cutoff, todo, victim>>

CleanupEnd == /\ cpc = "range"
              /\ todo = {}
              /\ cpc' = "wait"
              /\ cutoff' = 0
              /\ UNCHANGED <<now, ids, store, requestVars, todo, victim, judged>>

\* Stop: the goroutine sees stopChan at its next select.
Stop == /\ cpc = "wait"
        /\ cpc' = "stopped"
        /\ UNCHANGED <<now, ids, store, requestVars, cutoff, todo, victim, judged>>
-----------------------------------------------------------------------------
Get(p) == Load(p) \/ ReturnLoaded(p) \/ Generate(p) \/ Store(p)

Cleanup == CleanupStart \/ (\E k \in Keys : Keep(k) \/ Judge(k)) \/ Delete \/ CleanupEnd

Next == \/ Tick
        \/ \E p \in Requests : UseHeader(p) \/ \E k \in Keys : Begin(p, k)
        \/ \E p \in Requests : Get(p)
        \/ Cleanup
        \/ Stop

\* The goroutines run; nobody has to ask, to stop, or to live for ever.
Fairness == /\ WF_vars(Cleanup)
            /\ \A p \in Requests : WF_vars(Get(p))

Spec == Init /\ [][Next]_vars /\ Fairness
-----------------------------------------------------------------------------
(* Properties. *)

MaybeSession == Session \cup {NoSession}

TypeOK == /\ now \in Nat
          /\ ids \in Nat
          /\ store \in [Keys -> MaybeSession]
          /\ pc \in [Requests -> {"idle", "load", "check", "store", "answered"}]
          /\ key \in [Requests -> Keys]
          /\ loaded \in [Requests -> MaybeSession]
          /\ fresh \in [Requests -> MaybeSession]
          /\ answer \in [Requests -> MaybeSession]
          /\ began \in [Requests -> Nat]
          /\ cpc \in {"wait", "range", "delete", "stopped"}
          /\ cutoff \in Nat
          /\ todo \in SUBSET Keys
          /\ victim \in Keys
          /\ judged \in MaybeSession

Live(s) == s # NoSession /\ now < s.exp

\* A session belongs to one key: two requests for different keys are never
\* answered the same ID, and a request is answered a session of its own key,
\* however their Loads and Stores interleave (Get, Create).
OwnSession == \A p, q \in Requests :
    /\ pc[p] = "answered" /\ answer[p] # NoSession => answer[p].key = key[p]
    /\ answer[p] # NoSession /\ answer[q] # NoSession /\ answer[p].id = answer[q].id
           => answer[p] = answer[q]

\* The session that answers a call was live at some moment of the call.
AnswerWasLive == \A p \in Requests :
    pc[p] = "answered" /\ answer[p] # NoSession => answer[p].exp > began[p]

\* A live session leaves the store only by a step that was decided on an older
\* state of its key: a second Create after a Load that did not see it, or the
\* deletion of a session it has replaced.
DroppedOnlyByRace == [][
    \A k \in Keys :
        Live(store[k]) /\ store'[k] # store[k] =>
            \/ \E p \in Requests : /\ pc[p] = "store" /\ pc'[p] = "answered"
                                   /\ key[p] = k
                                   /\ loaded[p] # store[k]
            \/ cpc = "delete" /\ victim = k /\ judged # store[k] ]_vars

\* An expired session does not stay in the store while cleanup runs.
ExpiredReclaimed == \A k \in Keys, i \in 1..MaxIds :
    (store[k].id = i /\ ~Live(store[k]) /\ now > store[k].exp)
        ~> (store[k].id # i \/ cpc = "stopped")
=============================================================================
