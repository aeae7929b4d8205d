----------------------------- MODULE InitManager -----------------------------
(***************************************************************************)
(* EnsureInitialized, which every chat, responses and messages handler     *)
(* calls first: unless it was done less than InitRefreshInterval ago, send *)
(* the fingerprint record and the lifecycle event, then set the next time. *)
(* The lock covers the test of nextInitAt and its update, not the requests *)
(* sent in between, so several handlers may initialise at once.  Whether   *)
(* the two requests succeed is only logged: nothing here depends on it.    *)
(***************************************************************************)
EXTENDS Integers

CONSTANTS Requests,             \* handlers
          InitRefreshInterval,
          InitJitter,           \* exclusive bound of the random delay
          MaxTime               \* bound on the clock

ASSUME InitAssumption ==
    /\ InitRefreshInterval \in Nat \ {0}
    /\ InitJitter \in Nat
    /\ MaxTime \in Nat

Never == -1

VARIABLES
    now,
    nextInitAt,   \* 0, the zero time, until the first update
    stage,        \* "idle", "check", "fingerprint", "lifecycle" or "update"
    checked,      \* when the handler's test of nextInitAt was made
    updated       \* when nextInitAt was last set

imVars == <<now, nextInitAt, stage, checked, updated>>

\* Jitters that randInt64 can return.
Jitters == {0} \cup 0..(InitJitter - 1)

IMInit == /\ now = 0
          /\ nextInitAt = 0
          /\ stage = [p \in Requests |-> "idle"]
          /\ checked = [p \in Requests |-> Never]
          /\ updated = Never

Goto(p, from, to) == stage[p] = from /\ stage' = [stage EXCEPT ![p] = to]

IMTick == /\ now < MaxTime
          /\ now' = now + 1
          /\ UNCHANGED <<nextInitAt, stage, checked, updated>>

\* A new request calls EnsureInitialized.
Arrive(p) == /\ Goto(p, "idle", "check")
             /\ UNCHANGED <<now, nextInitAt, checked, updated>>

\* now.Before(m.nextInitAt), under the lock.
NotDue(p) == /\ now < nextInitAt
             /\ Goto(p, "check", "idle")
             /\ UNCHANGED <<now, nextInitAt, checked, updated>>

Due(p) == /\ ~(now < nextInitAt)
          /\ Goto(p, "check", "fingerprint")
          /\ checked' = [checked EXCEPT ![p] = now]
          /\ UNCHANGED <<now, nextInitAt, updated>>

sendFingerprintRecord(p) == /\ Goto(p, "fingerprint", "lifecycle")
                            /\ UNCHANGED <<now, nextInitAt, checked, updated>>

sendLifecycleEvent(p) == /\ Goto(p, "lifecycle", "update")
                         /\ UNCHANGED <<now, nextInitAt, checked, updated>>

\* Mutant: the interval starts at the time the test was made.
MutUpdateFromCheck(p) ==
    /\ Goto(p, "update", "idle")
    /\ \E jitter \in Jitters :
          nextInitAt' = checked[p] + InitRefreshInterval + jitter
    /\ updated' = now
    /\ UNCHANGED <<now, checked>>

\* nextInitAt is set whatever became of the two requests.
UpdateNext(p) == /\ Goto(p, "update", "idle")
                 /\ \E jitter \in Jitters :
                       nextInitAt' = now + InitRefreshInterval + jitter
                 /\ updated' = now
                 /\ UNCHANGED <<now, checked>>

EnsureInitialized(p) == \/ NotDue(p) \/ Due(p)
                        \/ sendFingerprintRecord(p) \/ sendLifecycleEvent(p)
                        \/ UpdateNext(p)

IMNext == \/ IMTick
          \/ \E p \in Requests : Arrive(p) \/ EnsureInitialized(p)

IMSpec == IMInit /\ [][IMNext]_imVars
-----------------------------------------------------------------------------
(* Properties. *)

IMTypeOK == /\ now \in Nat
            /\ nextInitAt \in Nat
            /\ stage \in [Requests -> {"idle", "check", "fingerprint", "lifecycle", "update"}]
            /\ checked \in [Requests -> Nat \cup {Never}]
            /\ updated \in Nat \cup {Never}

Initialising(p) == stage[p] \in {"fingerprint", "lifecycle", "update"}

\* Initialisation is not repeated within the refresh interval, even though
\* handlers overlap: one that is at it was let through before the last update,
\* or an interval after it.
NoEarlyRefresh == \A p \in Requests :
    Initialising(p) /\ updated # Never =>
        \/ checked[p] <= updated
        \/ checked[p] >= updated + InitRefreshInterval
=============================================================================
