------------------------- MODULE SessionStore_proofs -------------------------
(***************************************************************************)
(* Proofs about SessionStore, for every number of requests and keys, every *)
(* lifetime and jitter.                                                    *)
(***************************************************************************)
EXTENDS SessionStore, TLAPS

\* The sessions that are somewhere in use.
InUse == ({store[k] : k \in Keys} \cup {loaded[p] : p \in Requests}
          \cup {fresh[p] : p \in Requests} \cup {answer[p] : p \in Requests})
             \ {NoSession}

\* IDs are given out once: they are at most `ids', and two sessions in use with
\* the same ID are the same.
Numbered == /\ \A s \in InUse : s.id \in 1..ids
            /\ \A s, t \in InUse : s.id = t.id => s = t

\* A session is stored, and held by a request, under the key it was made for;
\* a request holds one at the points where it may.
Owned ==
    /\ \A k \in Keys : store[k] # NoSession => store[k].key = k
    /\ \A p \in Requests :
          /\ loaded[p] # NoSession => loaded[p].key = key[p] /\ pc[p] \in {"check", "store"}
          /\ fresh[p] # NoSession => fresh[p].key = key[p]
          /\ pc[p] = "store" <=> fresh[p] # NoSession
          /\ answer[p] # NoSession => answer[p].key = key[p] /\ pc[p] = "answered"

\* What was decided about the expiry of a session stays true.
Judgements ==
    /\ cutoff <= now
    /\ cpc = "delete" => judged # NoSession /\ judged.exp < now
    /\ \A p \in Requests :
          /\ began[p] <= now
          /\ fresh[p] # NoSession => fresh[p].exp > began[p]
          /\ answer[p] # NoSession => answer[p].exp > began[p]
          /\ pc[p] = "store" /\ loaded[p] # NoSession => loaded[p].exp <= now

\* The inductive invariant.
IInv == TypeOK /\ Numbered /\ Owned /\ Judgements
-----------------------------------------------------------------------------
\* What stands for no session is no session.
LEMMA NoSessionIsNone == NoSession \notin Session
  BY DEF NoSession, Session

\* A session lives longer than the moment it is made.
LEMMA JitterBound == \A j \in Jitters : Duration + j \in Nat \ {0}
  BY StoreAssumption DEF Jitters

\* TypeOK is preserved by every step.
LEMMA TypeStep == TypeOK /\ [Next]_vars => TypeOK'
  <1> SUFFICES ASSUME TypeOK, [Next]_vars PROVE TypeOK'
    OBVIOUS
  <1> USE DEF TypeOK, MaybeSession, requestVars, cleanupVars
  <1>1. CASE Tick
    BY <1>1 DEF Tick
  <1>2. ASSUME NEW p \in Requests, NEW k \in Keys, Begin(p, k) PROVE TypeOK'
    BY <1>2 DEF Begin
  <1>3. ASSUME NEW p \in Requests, UseHeader(p) PROVE TypeOK'
    BY <1>3 DEF UseHeader
  <1>4. ASSUME NEW p \in Requests, Load(p) PROVE TypeOK'
    BY <1>4 DEF Load
  <1>5. ASSUME NEW p \in Requests, ReturnLoaded(p) PROVE TypeOK'
    BY <1>5 DEF ReturnLoaded
  <1>6. ASSUME NEW p \in Requests, Generate(p) PROVE TypeOK'
    <2>1. PICK j \in Jitters :
             fresh' = [fresh EXCEPT ![p] =
                         [id |-> ids + 1, key |-> key[p], exp |-> now + Duration + j]]
      BY <1>6 DEF Generate
    <2>2. now + Duration + j \in Nat
      BY JitterBound, StoreAssumption DEF Jitters
    <2>3. [id |-> ids + 1, key |-> key[p], exp |-> now + Duration + j] \in Session
      BY <2>2 DEF Session
    <2>4. QED
      BY <1>6, <2>1, <2>3 DEF Generate
  <1>7. ASSUME NEW p \in Requests, Store(p) PROVE TypeOK'
    BY <1>7 DEF Store
  <1>8. CASE Cleanup
    BY <1>8 DEF Cleanup, CleanupStart, Keep, Judge, Delete, CleanupEnd
  <1>9. CASE Stop
    BY <1>9 DEF Stop
  <1>10. CASE UNCHANGED vars
    BY <1>10 DEF vars
  <1>11. QED
    BY <1>1, <1>2, <1>3, <1>4, <1>5, <1>6, <1>7, <1>8, <1>9, <1>10 DEF Next, Get

\* A step that brings no new session into use keeps Numbered.
LEMMA NumberedKept == ASSUME Numbered, InUse' \subseteq InUse,
                             ids' = ids PROVE Numbered'
  BY DEF Numbered

\* Numbered is preserved by every step: only Generate makes a session, and
\* gives it the next ID.
LEMMA NumberedStep == TypeOK /\ Numbered /\ [Next]_vars => Numbered'
  <1> SUFFICES ASSUME TypeOK, Numbered, [Next]_vars PROVE Numbered'
    OBVIOUS
  <1> USE DEF TypeOK, requestVars, cleanupVars
  <1>1. CASE Tick
    BY <1>1, NumberedKept DEF Tick, InUse
  <1>2. ASSUME NEW p \in Requests, UseHeader(p) \/ \E k \in Keys : Begin(p, k)
        PROVE Numbered'
    <2>1. InUse' \subseteq InUse
      BY <1>2 DEF Begin, UseHeader, InUse
    <2>2. QED
      BY <1>2, <2>1, NumberedKept DEF Begin, UseHeader
  <1>3. ASSUME NEW p \in Requests, Load(p) PROVE Numbered'
    <2>1. InUse' \subseteq InUse
      BY <1>3 DEF Load, InUse
    <2>2. QED
      BY <1>3, <2>1, NumberedKept DEF Load
  <1>4. ASSUME NEW p \in Requests, ReturnLoaded(p) PROVE Numbered'
    <2>1. InUse' \subseteq InUse
      BY <1>4 DEF ReturnLoaded, InUse
    <2>2. QED
      BY <1>4, <2>1, NumberedKept DEF ReturnLoaded
  <1>5. ASSUME NEW p \in Requests, Generate(p) PROVE Numbered'
    <2>0. PICK j \in Jitters :
             fresh' = [fresh EXCEPT ![p] =
                         [id |-> ids + 1, key |-> key[p], exp |-> now + Duration + j]]
      BY <1>5 DEF Generate
    <2> DEFINE s == [id |-> ids + 1, key |-> key[p], exp |-> now + Duration + j]
    <2>1. fresh' = [fresh EXCEPT ![p] = s] /\ s.id = ids + 1
      BY <2>0
    <2> HIDE DEF s
    <2>2. InUse' \subseteq InUse \cup {s}
      BY <1>5, <2>1 DEF Generate, InUse
    <2>3. \A t \in InUse : t.id \in 1..ids
      BY DEF Numbered
    <2>4. ids' = ids + 1
      BY <1>5 DEF Generate
    <2>5. \A t \in InUse' : t.id \in 1..(ids + 1)
      BY <2>1, <2>2, <2>3
    <2>6. \A t, u \in InUse' : t.id = u.id => t = u
      BY <2>1, <2>2, <2>3 DEF Numbered
    <2>7. QED
      BY <2>4, <2>5, <2>6 DEF Numbered
  <1>6. ASSUME NEW p \in Requests, Store(p) PROVE Numbered'
    <2>1. InUse' \subseteq InUse
      BY <1>6 DEF Store, InUse
    <2>2. QED
      BY <1>6, <2>1, NumberedKept DEF Store
  <1>7. CASE Cleanup
    <2>1. InUse' \subseteq InUse
      BY <1>7 DEF Cleanup, CleanupStart, Keep, Judge, Delete, CleanupEnd, InUse
    <2>2. QED
      BY <1>7, <2>1, NumberedKept DEF Cleanup, CleanupStart, Keep, Judge, Delete,
                                      CleanupEnd
  <1>8. CASE Stop \/ UNCHANGED vars
    <2>1. InUse' \subseteq InUse /\ ids' = ids
      BY <1>8 DEF Stop, vars, InUse
    <2>2. QED
      BY <2>1, NumberedKept
  <1>9. QED
    BY <1>1, <1>2, <1>3, <1>4, <1>5, <1>6, <1>7, <1>8 DEF Next, Get

\* Owned and Judgements are preserved by every step.
LEMMA OwnedStep == IInv /\ [Next]_vars => Owned' /\ Judgements'
  <1> SUFFICES ASSUME IInv, [Next]_vars PROVE Owned' /\ Judgements'
    OBVIOUS
  <1> USE DEF IInv, TypeOK, Owned, Judgements, requestVars, cleanupVars
  <1>1. CASE Tick
    <2>1. now' = now + 1 /\ now \in Nat
      BY <1>1 DEF Tick
    <2>2. Owned'
      BY <1>1 DEF Tick
    <2>3. \A s \in MaybeSession : s # NoSession => s.exp \in Nat
      BY DEF MaybeSession, Session
    <2>4. Judgements'
      BY <1>1, <2>1, <2>3 DEF Tick
    <2>5. QED
      BY <2>2, <2>4
  <1>2. ASSUME NEW p \in Requests, UseHeader(p) \/ \E k \in Keys : Begin(p, k)
        PROVE Owned' /\ Judgements'
    BY <1>2 DEF Begin, UseHeader
  <1>3. ASSUME NEW p \in Requests, Load(p) PROVE Owned' /\ Judgements'
    BY <1>3 DEF Load
  <1>4. ASSUME NEW p \in Requests, ReturnLoaded(p) PROVE Owned' /\ Judgements'
    <2>1. Owned'
      BY <1>4 DEF ReturnLoaded, Usable
    <2>2. loaded[p] # NoSession /\ now < loaded[p].exp /\ loaded[p].exp \in Nat
      BY <1>4 DEF ReturnLoaded, Usable, MaybeSession, Session
    <2>3. Judgements'
      BY <1>4, <2>2 DEF ReturnLoaded
    <2>4. QED
      BY <2>1, <2>3
  <1>5. ASSUME NEW p \in Requests, Generate(p) PROVE Owned' /\ Judgements'
    <2>1. PICK j \in Jitters :
             fresh' = [fresh EXCEPT ![p] =
                         [id |-> ids + 1, key |-> key[p], exp |-> now + Duration + j]]
      BY <1>5 DEF Generate
    <2> DEFINE s == [id |-> ids + 1, key |-> key[p], exp |-> now + Duration + j]
    <2>2. now + Duration + j > began[p]
      BY JitterBound, StoreAssumption DEF Jitters
    <2>3. s.key = key[p] /\ s.exp > began[p] /\ s # NoSession
      BY <2>2 DEF NoSession
    <2>4. fresh' = [fresh EXCEPT ![p] = s]
      BY <2>1
    <2> HIDE DEF s
    <2>5. Owned'
      BY <1>5, <2>3, <2>4 DEF Generate
    <2>6. loaded[p] # NoSession => loaded[p].exp \in Nat /\ loaded[p].exp <= now
      BY <1>5 DEF Generate, Usable, MaybeSession, Session
    <2>7. Judgements'
      BY <1>5, <2>3, <2>4, <2>6 DEF Generate
    <2>8. QED
      BY <2>5, <2>7
  <1>6. ASSUME NEW p \in Requests, Store(p) PROVE Owned' /\ Judgements'
    BY <1>6 DEF Store
  <1>7. CASE CleanupStart
    BY <1>7 DEF CleanupStart
  <1>8. ASSUME NEW k \in Keys, Keep(k) PROVE Owned' /\ Judgements'
    BY <1>8 DEF Keep
  <1>9. ASSUME NEW k \in Keys, Judge(k) PROVE Owned' /\ Judgements'
    <2>1. Owned'
      BY <1>9 DEF Judge
    <2>2. store[k] # NoSession /\ store[k].exp \in Nat /\ store[k].exp < now
      BY <1>9 DEF Judge, Expired, MaybeSession, Session
    <2>3. Judgements'
      BY <1>9, <2>2 DEF Judge
    <2>4. QED
      BY <2>1, <2>3
  <1>10. CASE Delete \/ CleanupEnd \/ Stop
    BY <1>10 DEF Delete, CleanupEnd, Stop
  <1>11. CASE UNCHANGED vars
    BY <1>11 DEF vars
  <1>12. QED
    BY <1>1, <1>2, <1>3, <1>4, <1>5, <1>6, <1>7, <1>8, <1>9, <1>10, <1>11
       DEF Next, Get, Cleanup

\* The inductive invariant holds initially and is preserved by every step.
LEMMA Invariance == Spec => []IInv
  <1>1. Init => IInv
    <2> SUFFICES ASSUME Init PROVE IInv
      OBVIOUS
    <2>1. TypeOK
      BY DEF Init, TypeOK, MaybeSession
    <2>2. InUse = {}
      BY DEF Init, InUse
    <2>3. Numbered
      BY <2>2 DEF Numbered
    <2>4. Owned /\ Judgements
      BY DEF Init, Owned, Judgements
    <2>5. QED
      BY <2>1, <2>3, <2>4 DEF IInv
  <1>2. IInv /\ [Next]_vars => IInv'
    BY TypeStep, NumberedStep, OwnedStep DEF IInv
  <1>3. QED
    BY <1>1, <1>2, PTL DEF Spec

\* Every variable keeps its type.
THEOREM Typing == Spec => []TypeOK
  BY Invariance, PTL DEF IInv

\* Requests are answered sessions of their own key, and sessions with one ID
\* are one session.
THEOREM Ownership == Spec => []OwnSession
  <1>1. IInv => OwnSession
    <2> SUFFICES ASSUME IInv, NEW p \in Requests, NEW q \in Requests,
                        answer[p] # NoSession, answer[q] # NoSession,
                        answer[p].id = answer[q].id
                 PROVE  answer[p] = answer[q]
      BY DEF OwnSession, IInv, Owned
    <2>1. answer[p] \in InUse /\ answer[q] \in InUse
      BY DEF InUse
    <2>2. QED
      BY <2>1 DEF IInv, Numbered
  <1>2. QED
    BY <1>1, Invariance, PTL

\* A session that answers a call was live at some moment of the call.
THEOREM LiveAnswers == Spec => []AnswerWasLive
  <1>1. IInv => AnswerWasLive
    BY DEF IInv, Judgements, AnswerWasLive
  <1>2. QED
    BY <1>1, Invariance, PTL

\* A live session leaves the store only through one of the two races.
THEOREM OnlyRacesDrop == Spec => DroppedOnlyByRace
  <1> DEFINE Race(k) ==
        Live(store[k]) /\ store'[k] # store[k] =>
            \/ \E p \in Requests : /\ pc[p] = "store" /\ pc'[p] = "answered"
                                   /\ key[p] = k
                                   /\ loaded[p] # store[k]
            \/ cpc = "delete" /\ victim = k /\ judged # store[k]
  <1>1. IInv /\ [Next]_vars => [\A k \in Keys : Race(k)]_vars
    <2> SUFFICES ASSUME IInv, Next, NEW k \in Keys, Live(store[k]),
                        store'[k] # store[k]
                 PROVE  Race(k)
      OBVIOUS
    <2>1. now \in Nat /\ store[k] # NoSession /\ now < store[k].exp
          /\ store[k].exp \in Nat
      BY DEF IInv, TypeOK, Live, MaybeSession, Session
    <2>2. ASSUME NEW p \in Requests, Store(p) PROVE Race(k)
      <3>1. key[p] = k /\ pc[p] = "store" /\ pc'[p] = "answered"
        BY <2>2 DEF Store, IInv, TypeOK
      <3>2. loaded[p] # store[k]
        BY <2>1, <3>1 DEF IInv, Judgements
      <3>3. QED
        BY <3>1, <3>2
    <2>3. CASE Delete
      BY <2>1, <2>3 DEF Delete, IInv, TypeOK, Judgements
    <2>4. QED
      BY <2>2, <2>3 DEF Next, Get, Cleanup, Tick, Begin, UseHeader, Load,
         ReturnLoaded, Generate, CleanupStart, Keep, Judge, CleanupEnd, Stop
  <1>2. QED
    BY <1>1, Invariance, PTL DEF Spec, DroppedOnlyByRace
=============================================================================
