-------------------------- MODULE Lifetimes_proofs -------------------------
(***************************************************************************)
(* Proofs about the two lifetimes: the process and its configuration file, *)
(* for any settings and fingerprints and any two time limits, and the      *)
(* clocks of one request, for all limits that are ordered as the program's *)
(* are and a buffer of any size.                                           *)
(***************************************************************************)
EXTENDS ProxyProcess, Deadlines, TLAPS
-----------------------------------------------------------------------------
(* ProxyProcess. *)

\* What Save writes, or has just loaded, is what the user wrote, up to the
\* setting the environment overrides.
Matches(c) == /\ c.interval = user.interval
              /\ \/ c.setting = user.setting
                 \/ c.setting = "environment"

FirstRun(c) == c.fingerprint = "none" => user.fingerprint = "none"

\* The file and what main has made of it, unless an edit came in between.
File == /\ disk = Absent => user = Defaults
        /\ pc = "write" => disk = Torn
        /\ Whole(disk) /\ ~raced => FirstRun(disk)
        /\ pc = "prepare" /\ ~edited /\ ~raced => Matches(cfg) /\ FirstRun(cfg)
        /\ pc = "save" /\ ~edited /\ ~raced => Matches(cfg) /\ user.fingerprint = "none"
        /\ pc = "write" /\ ~raced => Matches(cfg) /\ user.fingerprint = "none"

Fingerprinted == /\ pc = "prepare" /\ ~edited /\ Whole(disk) =>
                        disk.fingerprint = cfg.fingerprint
                 /\ pc = "save" /\ ~edited /\ Whole(disk) => disk.fingerprint = "none"

\* No request is accepted during Shutdown, so the one there is is as old as it.
Clocks == /\ waited # 0 => pc = "shutdown"
          /\ pc = "shutdown" => acceptor # "accept"
          /\ age # NoRequest => age >= waited

IInv == TypeOK /\ File /\ SettingsKept /\ Fingerprinted /\ OneFingerprint
        /\ Clocks /\ CutOnlyLong
-----------------------------------------------------------------------------
\* Initially the file is the user's and nothing has been loaded.
LEMMA InitIInv == Init => IInv
<1> SUFFICES ASSUME Init PROVE IInv
  OBVIOUS
<1> USE DEF Init
<1>1. Defaults \in Config /\ ~Whole(disk)
  BY DEF Defaults, Config, Settings, Whole
<1>2. TypeOK
  BY <1>1 DEF TypeOK, NoRequest, Environments
<1>3. File /\ SettingsKept /\ Fingerprinted /\ OneFingerprint
  BY <1>1 DEF File, SettingsKept, Fingerprinted, OneFingerprint
<1>4. Clocks /\ CutOnlyLong
  BY DEF Clocks, CutOnlyLong, NoRequest
<1> QED BY <1>2, <1>3, <1>4 DEF IInv

\* The end of the process leaves the file alone.
LEMMA EndKeeps ==
    ASSUME IInv, calm' \in BOOLEAN, End, UNCHANGED <<fileVars, env>>,
           cut' \in Nat \cup {NoRequest}, cut' # NoRequest => cut' >= ShutdownTimeout
    PROVE  IInv'
<1> USE DEF fileVars, End
<1>1. TypeOK'
  <2>1. Defaults \in Config
    BY DEF Defaults, Config, Settings
  <2> QED BY <2>1 DEF IInv, TypeOK, NoRequest
<1>2. File' /\ Fingerprinted' /\ OneFingerprint'
  BY DEF IInv, File, Fingerprinted, OneFingerprint, FirstRun, Whole
<1>3. SettingsKept'
  BY DEF IInv, SettingsKept, Whole
<1>4. Clocks' /\ CutOnlyLong'
  BY DEF Clocks, CutOnlyLong
<1> QED BY <1>1, <1>2, <1>3, <1>4 DEF IInv

\* A process that dies leaves its file and its user.
LEMMA DiesKeeps == ASSUME IInv, calm' \in BOOLEAN, Dies PROVE IInv'
<1>1. cut' \in Nat \cup {NoRequest} /\ (cut' # NoRequest => cut' >= ShutdownTimeout)
  BY DEF IInv, TypeOK, CutOnlyLong, Dies
<1> QED BY <1>1, EndKeeps DEF Dies

\* An edit is known to have happened until the file is loaded again.
LEMMA EditKeeps == ASSUME IInv, calm' \in BOOLEAN, Edit PROVE IInv'
<1> USE DEF serviceVars
<1>1. disk' = Absent \/ disk' \in Config
  BY DEF IInv, TypeOK, Edit, Config, Settings, Whole
<1>2. user' \in Config /\ (disk' = Absent => user' = Defaults) /\ (Whole(disk') => user' = disk')
  BY <1>1 DEF Edit, Config, Settings, Whole, Absent, Torn, Defaults
<1>3. TypeOK'
  BY <1>1, <1>2 DEF IInv, TypeOK, Edit
<1>4. File' /\ SettingsKept'
  BY <1>2 DEF IInv, Edit, File, SettingsKept, FirstRun, Whole
<1>5. Fingerprinted' /\ OneFingerprint'
  BY DEF Edit, Fingerprinted, OneFingerprint
<1>6. Clocks' /\ CutOnlyLong'
  BY DEF IInv, Edit, Clocks, CutOnlyLong
<1> QED BY <1>3, <1>4, <1>5, <1>6 DEF IInv

\* main's steps up to the launch: Load and the fingerprint.
LEMMA LoadKeeps == ASSUME IInv, calm' \in BOOLEAN, Load PROVE IInv'
<1> USE DEF serviceVars
<1>1. (disk = Absent /\ ~Whole(disk)) \/ (Whole(disk) /\ disk \in Config)
  BY DEF IInv, TypeOK, Load, Whole
<1> DEFINE c == IF Whole(disk) THEN disk ELSE Defaults
           o == [c EXCEPT !.setting = "environment"]
<1>2. c \in Config /\ o \in Config
  <2>1. Defaults \in Config
    BY DEF Defaults, Config, Settings
  <2>2. c \in Config
    BY <1>1, <2>1
  <2> HIDE DEF c
  <2> QED BY <2>2 DEF Config, Settings
\* A value of the environment that is not valid does not pass.
<1>3. cfg' = c \/ cfg' = o
  <2>1. Loaded = Override(c) /\ Loaded.setting # "invalid" /\ cfg' = Loaded
    BY DEF Load, Loaded, Validate
  <2>2. env \in Environments
    BY DEF IInv, TypeOK
  <2> HIDE DEF c
  <2>3. CASE env = "invalid"
    <3>1. Override(c) = [c EXCEPT !.setting = "invalid"]
      BY <2>3 DEF Override
    <3>2. [c EXCEPT !.setting = "invalid"].setting = "invalid"
      BY <1>2 DEF Config
    <3> QED BY <2>1, <3>1, <3>2
  <2>4. CASE env # "invalid"
    BY <2>1, <2>2, <2>4 DEF Override, Environments
  <2> QED BY <2>3, <2>4
<1>4. /\ cfg'.interval = c.interval /\ cfg'.fingerprint = c.fingerprint
      /\ cfg'.setting \in {c.setting, "environment"}
  <2> HIDE DEF c
  <2> QED BY <1>2, <1>3 DEF Config
<1>5. TypeOK' /\ Clocks' /\ CutOnlyLong'
  BY <1>2, <1>3 DEF IInv, TypeOK, Load, Goto, Clocks, CutOnlyLong
<1>6. ~raced => Matches(cfg)' /\ FirstRun(cfg)'
  <2>1. CASE disk = Absent /\ ~Whole(disk)
    BY <1>4, <2>1 DEF IInv, File, Load, Defaults, Matches, FirstRun, Whole
  <2>2. CASE Whole(disk) /\ disk \in Config
    BY <1>4, <2>2 DEF IInv, File, SettingsKept, Load, Matches, FirstRun
  <2> QED BY <1>1, <2>1, <2>2
<1>7. Whole(disk) => disk.fingerprint = cfg'.fingerprint
  BY <1>4
<1>8. File' /\ SettingsKept'
  BY <1>6 DEF IInv, Load, Goto, File, SettingsKept, FirstRun, Whole
<1>9. Fingerprinted' /\ OneFingerprint'
  BY <1>7 DEF Load, Goto, Fingerprinted, OneFingerprint, Whole
<1> QED BY <1>5, <1>8, <1>9 DEF IInv

\* A fingerprint is generated only where none was loaded.
LEMMA GenerateKeeps == ASSUME IInv, calm' \in BOOLEAN, Generate PROVE IInv'
<1> USE DEF serviceVars, fileVars, Goto
<1>1. /\ cfg' \in Config
      /\ cfg'.setting = cfg.setting /\ cfg'.interval = cfg.interval
  BY DEF IInv, TypeOK, Generate, Config
<1>2. TypeOK'
  BY <1>1 DEF IInv, TypeOK, Generate
<1>3. File' /\ SettingsKept'
  BY <1>1 DEF IInv, Generate, File, SettingsKept, Matches, FirstRun, Whole
<1>4. Fingerprinted' /\ OneFingerprint'
  BY DEF IInv, Generate, Fingerprinted, OneFingerprint, Whole
<1>5. Clocks' /\ CutOnlyLong'
  BY DEF IInv, Generate, Clocks, CutOnlyLong
<1> QED BY <1>2, <1>3, <1>4, <1>5 DEF IInv

\* Each step of Save keeps the invariant: an empty file, all of it, a part of it.
LEMMA SaveKeeps ==
    ASSUME IInv, calm' \in BOOLEAN, UseExisting \/ SaveOpens \/ SaveRefused \/ SaveWrites \/ SaveShort
    PROVE  IInv'
<1> USE DEF serviceVars, fileVars, Goto
<1>1. CASE UseExisting
  BY <1>1 DEF IInv, TypeOK, UseExisting, File, SettingsKept, Fingerprinted, OneFingerprint,
     Clocks, CutOnlyLong, Matches, FirstRun, Whole
<1>2. CASE SaveOpens
  <2>1. ~Whole(disk') /\ disk' # Absent
    BY <1>2 DEF SaveOpens, Whole, Torn, Absent
  <2>2. TypeOK'
    BY <1>2 DEF IInv, TypeOK, SaveOpens
  <2>3. File' /\ SettingsKept'
    BY <1>2, <2>1 DEF IInv, TypeOK, SaveOpens, File, SettingsKept, Matches
  <2>4. Fingerprinted' /\ OneFingerprint' /\ Clocks' /\ CutOnlyLong'
    BY <1>2 DEF IInv, SaveOpens, Fingerprinted, OneFingerprint, Clocks, CutOnlyLong
  <2> QED BY <2>2, <2>3, <2>4 DEF IInv
<1>3. CASE SaveRefused
  BY <1>3 DEF IInv, TypeOK, SaveRefused, File, SettingsKept, Fingerprinted, OneFingerprint,
     Clocks, CutOnlyLong, Matches, FirstRun, Whole
<1>4. CASE SaveWrites
  <2>1. disk' \in Config /\ disk' # Absent
    BY <1>4 DEF IInv, TypeOK, SaveWrites, Config, Absent
  <2>2. TypeOK'
    BY <1>4, <2>1 DEF IInv, TypeOK, SaveWrites
  <2>3. File' /\ SettingsKept'
    BY <1>4, <2>1 DEF IInv, SaveWrites, File, SettingsKept, Matches, FirstRun
  <2>4. Fingerprinted' /\ OneFingerprint' /\ Clocks' /\ CutOnlyLong'
    BY <1>4 DEF IInv, SaveWrites, Fingerprinted, OneFingerprint, Clocks, CutOnlyLong
  <2> QED BY <2>2, <2>3, <2>4 DEF IInv
<1>5. CASE SaveShort
  BY <1>5 DEF IInv, TypeOK, SaveShort, File, SettingsKept, Fingerprinted, OneFingerprint,
     Clocks, CutOnlyLong, Matches, FirstRun, Whole
<1> QED BY <1>1, <1>2, <1>3, <1>4, <1>5

\* The steps that touch neither the file nor the configuration, and after which
\* main is where it was or has come closer to its end.
LEMMA ServiceKeeps ==
    ASSUME IInv, UNCHANGED <<fileVars, env, cfg, cut>>, TypeOK', Clocks',
           pc' = pc \/ (pc = "down" /\ pc' = "load") \/
           (pc \in {"launch", "select"} /\ pc' \in {"select", "shutdown"})
    PROVE  IInv'
<1> USE DEF fileVars
<1>1. File' /\ SettingsKept'
  BY DEF IInv, File, SettingsKept, Matches, FirstRun, Whole
<1>2. Fingerprinted' /\ OneFingerprint'
  BY DEF IInv, Fingerprinted, OneFingerprint, Whole
<1>3. CutOnlyLong'
  BY DEF IInv, CutOnlyLong
<1> QED BY <1>1, <1>2, <1>3 DEF IInv

\* Every step keeps the invariant.
LEMMA NextIInv == IInv /\ [Next]_vars => IInv'
<1> SUFFICES ASSUME IInv, [Next]_vars PROVE IInv'
  OBVIOUS
<1> USE DEF fileVars, serviceVars, Goto
<1>0. calm' \in BOOLEAN
  BY DEF IInv, TypeOK, Next, Calmly, Settle, vars
<1>1. CASE Start
  BY <1>0, <1>1 DEF Start, IInv, TypeOK, File, SettingsKept, Fingerprinted, OneFingerprint, Clocks,
     CutOnlyLong, FirstRun, Whole, NoRequest
<1>2. CASE Load
  BY <1>0, <1>2, LoadKeeps
<1>3. CASE Reject \/ ReadFails \/ TickerPanics \/ ServerFails \/ ShutdownPanics \/ Crash
  BY <1>0, <1>3, DiesKeeps DEF Reject, ReadFails, TickerPanics, ServerFails, ShutdownPanics, Crash
<1>4. CASE Generate
  BY <1>0, <1>4, GenerateKeeps
<1>5. CASE UseExisting \/ SaveOpens \/ SaveRefused \/ SaveWrites \/ SaveShort
  BY <1>0, <1>5, SaveKeeps
<1>6. CASE Launch
  <2>1. TypeOK' /\ Clocks'
    BY <1>0, <1>6 DEF IInv, TypeOK, Launch, Clocks
  <2> QED BY <1>0, <1>6, <2>1, ServiceKeeps DEF Launch
<1>7. CASE TickerStarts
  <2>1. TypeOK' /\ Clocks'
    BY <1>0, <1>7 DEF IInv, TypeOK, TickerStarts, Clocks
  <2> QED BY <1>0, <1>7, <2>1, ServiceKeeps DEF TickerStarts
<1>8. CASE AssignServer
  <2>1. TypeOK' /\ Clocks'
    BY <1>0, <1>8 DEF IInv, TypeOK, AssignServer, Clocks
  <2> QED BY <1>0, <1>8, <2>1, ServiceKeeps DEF AssignServer
<1>9. CASE Listen
  <2>1. TypeOK' /\ Clocks'
    BY <1>0, <1>9 DEF IInv, TypeOK, Listen, Clocks
  <2> QED BY <1>0, <1>9, <2>1, ServiceKeeps DEF Listen
<1>10. CASE ListenFails
  <2>1. TypeOK' /\ Clocks'
    BY <1>0, <1>10 DEF IInv, TypeOK, ListenFails, Clocks
  <2> QED BY <1>0, <1>10, <2>1, ServiceKeeps DEF ListenFails
<1>11. CASE Accept
  <2>1. waited = 0
    BY <1>0, <1>11 DEF IInv, Clocks, Accept
  <2>2. TypeOK' /\ Clocks'
    BY <1>0, <1>11, <2>1 DEF IInv, TypeOK, Accept, Clocks
  <2> QED BY <1>0, <1>11, <2>2, ServiceKeeps DEF Accept
<1>12. CASE Finish
  <2>1. TypeOK' /\ Clocks'
    BY <1>0, <1>12 DEF IInv, TypeOK, Finish, Clocks
  <2> QED BY <1>0, <1>12, <2>1, ServiceKeeps DEF Finish
<1>13. CASE Tick
  <2>1. /\ age \in Nat /\ waited \in Nat /\ age # NoRequest /\ age' = age + 1
        /\ waited' \in {waited, waited + 1}
        /\ (waited' = waited + 1 => pc = "shutdown") /\ pc' = pc
    BY <1>0, <1>13 DEF IInv, TypeOK, Tick, NoRequest
  <2>2. TypeOK'
    BY <1>0, <1>13, <2>1 DEF IInv, TypeOK, Tick
  <2>3. age' >= waited' /\ (waited' # 0 => pc' = "shutdown")
    BY <2>1 DEF IInv, Clocks
  <2>4. Clocks'
    BY <1>0, <1>13, <2>3 DEF IInv, Clocks, Tick
  <2> QED BY <1>0, <1>13, <2>2, <2>4, ServiceKeeps DEF Tick
<1>14. CASE Signal
  <2>1. TypeOK' /\ Clocks'
    BY <1>0, <1>14 DEF IInv, TypeOK, Signal, Clocks
  <2> QED BY <1>0, <1>14, <2>1, ServiceKeeps DEF Signal
<1>15. CASE Shutdown
  <2>1. TypeOK' /\ Clocks'
    BY <1>0, <1>15 DEF IInv, TypeOK, Shutdown, Clocks
  <2> QED BY <1>0, <1>15, <2>1, ServiceKeeps DEF Shutdown
<1>16. CASE Return
  <2>1. age # NoRequest => age >= ShutdownTimeout
    BY <1>0, <1>16 DEF IInv, Clocks, Return
  <2> QED BY <1>0, <1>16, <2>1, EndKeeps DEF IInv, TypeOK, Return
<1>17. CASE Edit
  BY <1>0, <1>17, EditKeeps
<1>18. CASE Settle \/ UNCHANGED vars
  BY <1>0, <1>18, ServiceKeeps DEF vars, Settle, IInv, TypeOK, Clocks
<1> QED
  BY <1>1, <1>2, <1>3, <1>4, <1>5, <1>6, <1>7, <1>8, <1>9, <1>10, <1>11, <1>12, <1>13, <1>14,
     <1>15, <1>16, <1>17, <1>18 DEF Next, Calmly, Step, Main, Refresher, Acceptor, Trouble

\* In every behaviour the file, the configuration and the user's wishes relate as
\* the inductive invariant says.
THEOREM Invariance == Spec => []IInv
  BY InitIInv, NextIInv, PTL DEF Spec
-----------------------------------------------------------------------------
\* The variables of the process and its file keep their types.
THEOREM Typing == Spec => []TypeOK
<1>1. IInv => TypeOK
  BY DEF IInv
<1> QED BY <1>1, Invariance, PTL

\* What the user wrote stays in config.json but for a first run under an
\* environment that overrides it, whatever crashes (Load, Save).
THEOREM UserSettingsKept == Spec => []SettingsKept
<1>1. IInv => SettingsKept
  BY DEF IInv
<1> QED BY <1>1, Invariance, PTL

\* The fingerprint in use is the one in the file, if there is one (main).
THEOREM SameFingerprint == Spec => []OneFingerprint
<1>1. IInv => OneFingerprint
  BY DEF IInv
<1> QED BY <1>1, Invariance, PTL

\* A request is cut off only after Shutdown's whole timeout (Shutdown).
THEOREM GracefulEnd == Spec => []CutOnlyLong
<1>1. IInv => CutOnlyLong
  BY DEF IInv
<1> QED BY <1>1, Invariance, PTL

\* Save, and a crash in the middle of it, touch only a file without fingerprint
\* or one edited since it was loaded.
THEOREM FileKept == Spec => FingerprintedFileKept
<1>1. ASSUME IInv, [Next]_vars, pc' # pc, disk' # disk, Whole(disk)
      PROVE  disk.fingerprint = "none" \/ edited
  <2>1. SaveOpens \/ SaveWrites
    BY <1>1 DEF Next, Calmly, Step, Settle, Main, Refresher, Acceptor, Trouble, Start, Load, Reject, UseExisting,
       Generate, SaveShort, Launch, ServerFails, ShutdownPanics, Shutdown, Return,
       SaveRefused, TickerPanics, TickerStarts, AssignServer, Listen, Accept, Finish, Tick,
       Crash, ReadFails, ListenFails, Signal, Edit, Dies, fileVars, serviceVars, vars
  <2>2. ~SaveWrites
    BY <1>1 DEF SaveWrites, Goto, IInv, File, Whole
  <2> QED BY <1>1, <2>1, <2>2 DEF SaveOpens, Goto, IInv, Fingerprinted
<1>2. IInv /\ [Next]_vars =>
        [pc' # pc /\ disk' # disk /\ Whole(disk) =>
            disk.fingerprint = "none" \/ edited]_vars
  BY <1>1
<1> QED BY <1>2, Invariance, PTL DEF Spec, FingerprintedFileKept
-----------------------------------------------------------------------------
(* Deadlines. *)

Clock == now <= RequestDeadline /\ since <= now

\* Only a stream writes before it returns, and not before it reads.
Sent == /\ received <= written
        /\ stage # "returned" /\ (stage # "read" \/ ~streaming) => written = 0
        /\ stage # "returned" => written - received <= Buffer

\* No time passes while a body is read that is there.
BodyAtOnce == stage = "body" /\ body # "slow" => now = since

Answered == answer = "none" \/ stage = "returned"

DLInv == /\ DLTypeOK /\ Clock /\ Sent /\ BodyAtOnce /\ Answered
         /\ LateIdleUnheard /\ RefusedAfterSlowInit /\ LostOnlyAtDeadline

\* No wait has a limit beyond the deadline of the request.
LEMMA LimitBound == ASSUME DLTypeOK PROVE Limit \in Int /\ (now < Limit => now + 1 <= RequestDeadline)
<1> USE DeadlineAssumption DEF DLTypeOK
<1>1. CASE stage \in {"fingerprint", "lifecycle"}
  BY <1>1 DEF Limit, Earlier
<1>2. CASE stage = "body"
  BY <1>2 DEF Limit
<1>3. CASE stage = "forward"
  BY <1>3 DEF Limit
<1>4. CASE stage = "read"
  BY <1>4 DEF Limit, Earlier, Idle
<1>5. CASE stage = "returned"
  BY <1>5 DEF Limit
<1> QED BY <1>1, <1>2, <1>3, <1>4, <1>5

\* Initially no time has passed and nothing is written.
LEMMA DLInitInv == DLInit => DLInv
<1> SUFFICES ASSUME DLInit PROVE DLInv
  OBVIOUS
<1> QED BY DeadlineAssumption DEF DLInit, DLInv, DLTypeOK, Clock, Sent, BodyAtOnce, Answered,
           LateIdleUnheard, RefusedAfterSlowInit, LostOnlyAtDeadline

\* Time passes only up to the limit of the present wait.
LEMMA TickKeeps == ASSUME DLInv, DLTick PROVE DLInv'
<1>1. DLTypeOK' /\ Clock'
  BY LimitBound DEF DLInv, DLTick, DLTypeOK, Clock
<1>2. stage # "returned" /\ ~(stage = "body" /\ body # "slow")
  BY DEF DLInv, DLTick, DLTypeOK, Limit
<1>3. Sent' /\ BodyAtOnce' /\ Answered' /\ LateIdleUnheard' /\ RefusedAfterSlowInit'
  BY <1>2 DEF DLInv, DLTick, Sent, BodyAtOnce, Answered, LateIdleUnheard, RefusedAfterSlowInit
<1>4. LostOnlyAtDeadline'
  BY <1>2 DEF DLInv, DLTick, LostOnlyAtDeadline
<1> QED BY <1>1, <1>3, <1>4 DEF DLInv

\* A wait that ends well: the next one begins.
LEMMA ProceedKeeps ==
    ASSUME DLInv, NEW from \in {"fingerprint", "lifecycle", "body", "forward"},
           NEW to \in {"lifecycle", "body", "forward", "read"}, Proceed(from, to)
    PROVE  DLInv'
<1> USE DEF DLInv, Proceed
<1>1. DLTypeOK' /\ Clock'
  BY DEF DLTypeOK, Clock
<1>2. Sent' /\ LostOnlyAtDeadline'
  BY DEF DLTypeOK, Sent, LostOnlyAtDeadline
<1>3. BodyAtOnce' /\ Answered' /\ LateIdleUnheard' /\ RefusedAfterSlowInit'
  BY DEF BodyAtOnce, Answered, LateIdleUnheard, RefusedAfterSlowInit
<1> QED BY <1>1, <1>2, <1>3

\* An end of the request.
LEMMA ReplyKeeps ==
    ASSUME DLInv, stage # "returned",
           NEW result \in {"refused", "failed", "idle", "complete"}, NEW n \in {0, 1},
           Reply(result, n),
           result = "idle" /\ ~streaming => stage = "read" /\ now >= WriteTimeout,
           result = "refused" => body = "slow" \/ (body = "sent" /\ since >= ReadTimeout)
    PROVE  DLInv'
<1> USE DeadlineAssumption DEF DLInv, Reply
<1>1. DLTypeOK' /\ Clock'
  BY DEF DLTypeOK, Clock
<1>2. received' <= written'
  BY DEF DLTypeOK, Sent
<1>3. Sent' /\ BodyAtOnce' /\ Answered'
  BY <1>2 DEF Sent, BodyAtOnce, Answered
<1>4. LateIdleUnheard'
  <2> SUFFICES ASSUME result = "idle", ~streaming PROVE received' = 0
    BY DEF LateIdleUnheard
  <2>1. ~(now < WriteTimeout)
    BY DEF DLTypeOK
  <2> QED BY <2>1 DEF DLTypeOK, Sent
<1>5. RefusedAfterSlowInit'
  BY DEF RefusedAfterSlowInit
<1>6. LostOnlyAtDeadline'
  <2>1. CASE now < WriteTimeout
    BY <2>1 DEF LostOnlyAtDeadline, DLTypeOK
  <2>2. CASE ~(now < WriteTimeout)
    BY <2>2 DEF LostOnlyAtDeadline, DLTypeOK, Sent
  <2> QED BY <2>1, <2>2
<1> QED BY <1>1, <1>3, <1>4, <1>5, <1>6

\* One line of the upstream, with the event it makes, keeps the invariant.
LEMMA ReadLineKeeps == ASSUME DLInv, ReadLine PROVE DLInv'
<1> USE DeadlineAssumption DEF DLInv, ReadLine
<1>1. /\ written' \in Nat /\ received' \in Nat /\ received' <= written'
      /\ written' - received' <= Buffer
      /\ ~streaming => written' = 0
  BY DEF DLTypeOK, Sent, Write
<1>2. DLTypeOK' /\ Clock'
  BY <1>1 DEF DLTypeOK, Clock
<1>3. Sent' /\ LostOnlyAtDeadline'
  BY <1>1 DEF Sent, LostOnlyAtDeadline
<1>4. BodyAtOnce' /\ Answered' /\ LateIdleUnheard' /\ RefusedAfterSlowInit'
  BY DEF BodyAtOnce, Answered, LateIdleUnheard, RefusedAfterSlowInit
<1> QED BY <1>2, <1>3, <1>4

\* Every step of the handler keeps the invariant.
LEMMA HandleKeeps == ASSUME DLInv, Handle PROVE DLInv'
<1>1. CASE sendFingerprintRecord \/ sendLifecycleEvent \/ decodeRequestBody \/ ForwardAnswers
  BY <1>1, ProceedKeeps DEF sendFingerprintRecord, sendLifecycleEvent, decodeRequestBody,
     ForwardAnswers
<1>2. CASE BodyRefused
  <2>1. body = "slow" \/ (body = "sent" /\ since >= ReadTimeout)
    BY <1>2 DEF BodyRefused, DLInv, DLTypeOK, BodyAtOnce
  <2> QED BY <1>2, <2>1, ReplyKeeps DEF BodyRefused
<1>3. CASE ForwardFails
  BY <1>3, ReplyKeeps DEF ForwardFails
<1>4. CASE ReadLine
  BY <1>4, ReadLineKeeps
<1>5. CASE Complete
  BY <1>5, ReplyKeeps DEF Complete
<1>6. CASE IdleTimeout
  <2>1. ~streaming => now >= WriteTimeout
    BY <1>6, DeadlineAssumption DEF IdleTimeout, Idle, DLInv, DLTypeOK
  <2> QED BY <1>6, <2>1, ReplyKeeps DEF IdleTimeout
<1>7. CASE ReadBreaks
  <2>1. PICK n \in {0, 1} : Reply("failed", n)
    BY <1>7 DEF ReadBreaks
  <2> QED BY <1>7, <2>1, ReplyKeeps DEF ReadBreaks
<1> QED BY <1>1, <1>2, <1>3, <1>4, <1>5, <1>6, <1>7 DEF Handle

\* Every step keeps the invariant.
LEMMA DLStepInv == DLInv /\ [DLNext]_dlVars => DLInv'
<1> SUFFICES ASSUME DLInv, [DLNext]_dlVars PROVE DLInv'
  OBVIOUS
<1>1. CASE DLTick
  BY <1>1, TickKeeps
<1>2. CASE Handle
  BY <1>2, HandleKeeps
<1>3. CASE UNCHANGED dlVars
  BY <1>3 DEF dlVars, DLInv, DLTypeOK, Clock, Sent, BodyAtOnce, Answered,
     LateIdleUnheard, RefusedAfterSlowInit, LostOnlyAtDeadline
<1> QED BY <1>1, <1>2, <1>3 DEF DLNext

\* In every behaviour the clocks are as the inductive invariant says.
LEMMA DLInvariance == DLSpec => []DLInv
BY DLInitInv, DLStepInv, PTL DEF DLSpec
-----------------------------------------------------------------------------
\* Every variable stays within its type.
THEOREM DLTyping == DLSpec => []DLTypeOK
<1>1. DLInv => DLTypeOK
  BY DEF DLInv
<1> QED BY DLInvariance, <1>1, PTL

\* The handler is done with a request when its deadline passes, whatever the
\* limits of the single waits add up to.
THEOREM InTime == DLSpec => []HandledInTime
<1>1. DLInv => HandledInTime
  BY DEF DLInv, Clock, HandledInTime
<1> QED BY DLInvariance, <1>1, PTL

\* The answer of a non-streaming idle timeout never reaches the client, as soon
\* as that timeout is not shorter than the server's write timeout.
THEOREM UnheardIdle == DLSpec => []LateIdleUnheard
<1>1. DLInv => LateIdleUnheard
  BY DEF DLInv
<1> QED BY DLInvariance, <1>1, PTL

\* A body sent at once is refused only after an initialisation that has outlasted
\* the read timeout.
THEOREM RefusalExplained == DLSpec => []RefusedAfterSlowInit
<1>1. DLInv => RefusedAfterSlowInit
  BY DEF DLInv
<1> QED BY DLInvariance, <1>1, PTL

\* What is written is lost only at the write deadline, and then no more than the
\* buffer holds and the answer.
THEOREM LossBounded == DLSpec => []LostOnlyAtDeadline
<1>1. DLInv => LostOnlyAtDeadline
  BY DEF DLInv
<1> QED BY DLInvariance, <1>1, PTL
=============================================================================
