---------------------------- MODULE ProxyProcess ----------------------------
(***************************************************************************)
(* The life of the proxy process and of its configuration file.  main      *)
(* loads the file, lets the environment override it, generates the         *)
(* machine fingerprint if there is none and saves it, starts the model     *)
(* refresh and the server in goroutines of their own, and waits for a      *)
(* signal or for the server to fail.  It may crash anywhere, and is        *)
(* started again.  The user edits the file whenever he likes.              *)
(***************************************************************************)
EXTENDS Integers

CONSTANTS UserSettings,      \* what a user may write for a setting
          Fingerprints,      \* fingerprints that may be generated
          RequestLimit,      \* the longest a request may take
          ShutdownTimeout    \* how long Shutdown waits for requests

ASSUME ProcessAssumption ==
    /\ UserSettings \cap {"default", "environment", "invalid"} = {}
    /\ "none" \notin Fingerprints
    /\ ShutdownTimeout \in Nat
    /\ RequestLimit \in Nat

\* One setting stands for all that the environment can override, of which
\* Validate accepts some values only; modelRefreshIntervalMs for the rest.
Settings == UserSettings \cup {"default", "environment", "invalid"}
Config == [setting : Settings,
           interval : {"positive", "nonpositive"},
           fingerprint : Fingerprints \cup {"none"}]

\* Mutant: no refresh interval among the defaults.
MutDefaults == [setting |-> "default", interval |-> "nonpositive", fingerprint |-> "none"]

Defaults == [setting |-> "default", interval |-> "positive", fingerprint |-> "none"]

\* The environment sets the setting, to a value that Validate accepts or not.
Environments == {"unset", "valid", "invalid"}

Absent == [file |-> "absent"]
Torn   == [file |-> "torn"]
Whole(file) == file \notin {Absent, Torn}
NoRequest == -1

VARIABLES
    disk,       \* config.json
    user,       \* what the user last made of it, the defaults if he removed it
    edited,     \* he has done so since the process loaded it
    raced,      \* his last edit was overwritten by a process that had not seen it
    env,        \* what the environment of this process sets the setting to
    pc,         \* main
    cfg,        \* cfg
    refresher,  \* goroutine of StartRefresh: "none", "begin" or "running"
    acceptor,   \* goroutine of Start: "none", "begin", "listen", "accept",
                \* "failed" or "closed"
    server,     \* s.server has been assigned
    signalled,  \* a signal waits in sigChan
    age,        \* for how long the request in flight has been handled
    waited,     \* for how long Shutdown has waited
    cut,        \* age of the request that the end of main cut off
    calm        \* from now on there is no Trouble

vars == <<disk, user, edited, raced, env, pc, cfg, refresher, acceptor, server,
          signalled, age, waited, cut, calm>>
fileVars == <<disk, user, edited, raced>>
serviceVars == <<refresher, acceptor, server, signalled, age, waited, cut>>

Init == /\ disk = Absent
        /\ user = Defaults
        /\ edited = FALSE
        /\ raced = FALSE
        /\ env = "unset"
        /\ pc = "down"
        /\ cfg = Defaults
        /\ refresher = "none"
        /\ acceptor = "none"
        /\ server = FALSE
        /\ signalled = FALSE
        /\ age = NoRequest
        /\ waited = 0
        /\ cut = NoRequest
        /\ calm = FALSE

Goto(from, to) == pc = from /\ pc' = to

\* The process is gone, whatever it was doing.
End == /\ pc' = "down"
       /\ cfg' = Defaults
       /\ refresher' = "none"
       /\ acceptor' = "none"
       /\ server' = FALSE
       /\ signalled' = FALSE
       /\ age' = NoRequest
       /\ waited' = 0

Dies == End /\ UNCHANGED <<fileVars, env, cut>>

Crash == pc # "down" /\ Dies
-----------------------------------------------------------------------------
(* The user.  That he writes in the middle of Save's write is left out. *)

Edit == /\ pc # "write"
        /\ \/ /\ disk' = Absent
              /\ user' = Defaults
           \/ \E s \in UserSettings \cup {"invalid"}, i \in {"positive", "nonpositive"},
                 f \in {"none"} \cup (IF Whole(disk) THEN {disk.fingerprint} ELSE {}) :
                 /\ disk' = [setting |-> s, interval |-> i, fingerprint |-> f]
                 /\ user' = disk'
        /\ edited' = TRUE
        /\ raced' = FALSE
        /\ UNCHANGED <<env, pc, cfg, serviceVars>>
-----------------------------------------------------------------------------
(* main up to the start of the goroutines. *)

\* The container may be given another environment.
Start == /\ Goto("down", "load")
         /\ env' \in IF calm THEN {env} ELSE Environments
         /\ cut' = NoRequest
         /\ UNCHANGED <<fileVars, cfg, refresher, acceptor, server, signalled, age, waited>>

\* What is set is copied, whatever it is.
Override(c) == CASE env = "unset"   -> c
                 [] env = "valid"   -> [c EXCEPT !.setting = "environment"]
                 [] env = "invalid" -> [c EXCEPT !.setting = "invalid"]

Validate(c) == c.setting # "invalid"

Loaded == Override(IF Whole(disk) THEN disk ELSE Defaults)

Load == /\ Goto("load", "prepare")
        /\ disk # Torn
        /\ Validate(Loaded)
        /\ cfg' = Loaded
        /\ edited' = FALSE
        /\ UNCHANGED <<disk, user, raced, env, serviceVars>>

\* The file cannot be parsed, or the configuration is not valid.
Reject == /\ pc = "load"
          /\ disk = Torn \/ ~Validate(Loaded)
          /\ Dies

\* The file cannot be read, or the log file cannot be opened.
ReadFails == pc = "load" /\ Dies

UseExisting == /\ Goto("prepare", "launch")
               /\ cfg.fingerprint # "none"
               /\ UNCHANGED <<fileVars, env, cfg, serviceVars>>

\* Mutant: the configuration is saved at every start.
MutGenerateAlways ==
    /\ Goto("prepare", "save")
    /\ cfg' = [cfg EXCEPT !.fingerprint = CHOOSE f \in Fingerprints : TRUE]
    /\ UNCHANGED <<fileVars, env, serviceVars>>

\* A new random fingerprint; the one a user has put into the file meanwhile is
\* another one.
Generate == /\ Goto("prepare", "save")
            /\ cfg.fingerprint = "none"
            /\ \E f \in Fingerprints :
                  /\ Whole(disk) => f # disk.fingerprint
                  /\ cfg' = [cfg EXCEPT !.fingerprint = f]
            /\ UNCHANGED <<fileVars, env, serviceVars>>

\* os.WriteFile opens and truncates the file ...
SaveOpens == /\ Goto("save", "write")
             /\ disk' = Torn
             /\ raced' = (raced \/ edited)
             /\ UNCHANGED <<user, edited, env, cfg, serviceVars>>

\* ... or fails to, which is only logged ...
SaveRefused == /\ Goto("save", "launch")
               /\ UNCHANGED <<fileVars, env, cfg, serviceVars>>

\* Mutant: what is saved is the fingerprint, and not the rest of the configuration.
MutSaveWrites == /\ Goto("write", "launch")
                 /\ disk' = [Defaults EXCEPT !.fingerprint = cfg.fingerprint]
                 /\ UNCHANGED <<user, edited, raced, env, cfg, serviceVars>>

\* Mutant: the configuration is saved without the new fingerprint.
MutSaveOther == /\ Goto("write", "launch")
                /\ disk' = [cfg EXCEPT !.fingerprint = CHOOSE f \in Fingerprints : TRUE]
                /\ UNCHANGED <<user, edited, raced, env, cfg, serviceVars>>

\* ... and writes the whole configuration, what the environment said included,
SaveWrites == /\ Goto("write", "launch")
              /\ disk' = cfg
              /\ UNCHANGED <<user, edited, raced, env, cfg, serviceVars>>

\* or a part of it, which is logged as well.
SaveShort == /\ Goto("write", "launch")
             /\ UNCHANGED <<fileVars, env, cfg, serviceVars>>

Launch == /\ Goto("launch", "select")
          /\ refresher' = "begin"
          /\ acceptor' = "begin"
          /\ UNCHANGED <<fileVars, env, cfg, server, signalled, age, waited, cut>>
-----------------------------------------------------------------------------
(* The goroutines. *)

\* NewTicker panics if the interval is not positive: Validate lets it pass.
TickerPanics == /\ refresher = "begin"
                /\ cfg.interval = "nonpositive"
                /\ Dies

TickerStarts == /\ refresher = "begin"
                /\ cfg.interval = "positive"
                /\ refresher' = "running"
                /\ UNCHANGED <<fileVars, env, pc, cfg, acceptor, server, signalled, age,
                               waited, cut>>

AssignServer == /\ acceptor = "begin"
                /\ acceptor' = "listen"
                /\ server' = TRUE
                /\ UNCHANGED <<fileVars, env, pc, cfg, refresher, signalled, age, waited,
                               cut>>

\* ListenAndServe returns at once if Shutdown has been called.
Listen == /\ acceptor = "listen"
          /\ acceptor' = IF pc = "shutdown" THEN "closed" ELSE "accept"
          /\ UNCHANGED <<fileVars, env, pc, cfg, refresher, server, signalled, age, waited,
                         cut>>

ListenFails == /\ acceptor = "listen"
               /\ pc # "shutdown"
               /\ acceptor' = "failed"
               /\ UNCHANGED <<fileVars, env, pc, cfg, refresher, server, signalled, age,
                              waited, cut>>

Accept == /\ acceptor = "accept"
          /\ age = NoRequest
          /\ age' = 0
          /\ UNCHANGED <<fileVars, env, pc, cfg, refresher, acceptor, server, signalled,
                         waited, cut>>

Finish == /\ age # NoRequest
          /\ age' = NoRequest
          /\ UNCHANGED <<fileVars, env, pc, cfg, refresher, acceptor, server, signalled,
                         waited, cut>>

\* One unit of time of a request, and of Shutdown if it waits for it.
Tick == /\ age \in 0..(RequestLimit - 1)
        /\ pc = "shutdown" => waited < ShutdownTimeout
        /\ age' = age + 1
        /\ waited' = IF pc = "shutdown" THEN waited + 1 ELSE waited
        /\ UNCHANGED <<fileVars, env, pc, cfg, refresher, acceptor, server, signalled, cut>>
-----------------------------------------------------------------------------
(* main's select and Shutdown. *)

ServerFails == /\ pc = "select"
               /\ acceptor = "failed"
               /\ Dies

Signal == /\ pc = "select"
          /\ ~signalled
          /\ signalled' = TRUE
          /\ UNCHANGED <<fileVars, env, pc, cfg, refresher, acceptor, server, age, waited,
                         cut>>

\* Shutdown of a server that Start has not made yet.
ShutdownPanics == /\ pc = "select"
                  /\ signalled
                  /\ ~server
                  /\ Dies

\* Mutant: the signal is consumed, and the server runs on.
MutShutdownIgnored == /\ pc = "select"
                      /\ signalled
                      /\ server
                      /\ UNCHANGED <<fileVars, env, pc, cfg, serviceVars>>

\* Shutdown closes the listener and waits for the requests.
Shutdown == /\ Goto("select", "shutdown")
            /\ signalled
            /\ server
            /\ acceptor' = IF acceptor = "accept" THEN "closed" ELSE acceptor
            /\ UNCHANGED <<fileVars, env, cfg, refresher, server, signalled, age, waited,
                           cut>>

\* Mutant: main returns without waiting for the requests.
MutReturnAtOnce == /\ pc = "shutdown"
                   /\ cut' = age
                   /\ End
                   /\ UNCHANGED <<fileVars, env>>

\* main returns, and with it ends every request.
Return == /\ pc = "shutdown"
          /\ age = NoRequest \/ waited = ShutdownTimeout
          /\ cut' = age
          /\ End
          /\ UNCHANGED <<fileVars, env>>
-----------------------------------------------------------------------------
Main == \/ Load \/ Reject \/ UseExisting \/ Generate
        \/ SaveOpens \/ SaveWrites \/ SaveShort \/ Launch
        \/ ServerFails \/ ShutdownPanics \/ Shutdown \/ Return

Refresher == TickerPanics \/ TickerStarts

Acceptor == AssignServer \/ Listen

\* What happens to the process from outside.
Trouble == Crash \/ ReadFails \/ ListenFails \/ Signal \/ Edit

Settle == calm' = TRUE /\ UNCHANGED <<fileVars, env, pc, cfg, serviceVars>>

Step == \/ Start \/ Main \/ SaveRefused \/ Refresher \/ Acceptor \/ Accept \/ Finish \/ Tick
        \/ ~calm /\ Trouble

Calmly(A) == A /\ UNCHANGED calm

Next == Calmly(Step) \/ Settle

\* The goroutines run, time passes, requests end, and the container is started again.
Fairness == /\ WF_vars(Calmly(Start))
            /\ WF_vars(Calmly(Main))
            /\ WF_vars(Calmly(Refresher))
            /\ WF_vars(Calmly(Acceptor))
            /\ WF_vars(Calmly(Tick))
            /\ WF_vars(Calmly(Finish))

Spec == Init /\ [][Next]_vars /\ Fairness
-----------------------------------------------------------------------------
(* Properties. *)

TypeOK == /\ disk \in Config \cup {Absent, Torn}
          /\ user \in Config
          /\ edited \in BOOLEAN
          /\ raced \in BOOLEAN
          /\ env \in Environments
          /\ pc \in {"down", "load", "prepare", "save", "write", "launch", "select",
                     "shutdown"}
          /\ cfg \in Config
          /\ refresher \in {"none", "begin", "running"}
          /\ acceptor \in {"none", "begin", "listen", "accept", "failed", "closed"}
          /\ server \in BOOLEAN
          /\ signalled \in BOOLEAN
          /\ age \in Nat \cup {NoRequest}
          /\ waited \in Nat
          /\ cut \in Nat \cup {NoRequest}
          /\ calm \in BOOLEAN

\* Save truncates the file before it writes it, so a crash or a full disk can
\* destroy it.  Only a first run can do that: a file that has a fingerprint is
\* left alone, unless the user has put it there since it was loaded.
FingerprintedFileKept == [][
    pc' # pc /\ disk' # disk /\ Whole(disk) =>
        disk.fingerprint = "none" \/ edited ]_vars

\* What the user wrote stays in the file, however often the process is started
\* and crashes, but for a first run: it makes the environment's setting
\* permanent, and may undo an edit made while it started.
SettingsKept == Whole(disk) /\ ~raced =>
    /\ disk.interval = user.interval
    /\ \/ disk.setting = user.setting
       \/ disk.setting = "environment" /\ user.fingerprint = "none"

\* The fingerprint that the process shows to the upstream is the one the next
\* start will load, unless there is none in the file, as Save was refused, or
\* the user has changed it.
OneFingerprint ==
    pc \in {"launch", "select", "shutdown"} /\ Whole(disk) /\ ~edited =>
        disk.fingerprint \in {cfg.fingerprint, "none"}

\* A request that takes no longer than Shutdown waits is not cut off by a signal,
\* however the two overlap.
CutOnlyLong == cut # NoRequest => cut >= ShutdownTimeout

\* A signal ends the process, whatever the goroutines are at.
SignalStops == signalled ~> pc = "down"

\* The proxy cannot start: the environment sets something that is not valid, or
\* the file cannot be parsed, lacks a refresh interval, or has a setting that is
\* not valid and that the environment leaves alone.
Unusable == \/ env = "invalid"
            \/ disk = Torn
            \/ Whole(disk) /\ ~(disk.interval = "positive"
                               /\ (env = "valid" \/ Validate(disk)))

\* When there are no more crashes, signals, failures and edits, nor changes of the
\* environment, the proxy comes to serve for good, or its file or environment is
\* one with which it cannot start: nothing else keeps it down, a failed Save does
\* not, and a valid environment saves it from an invalid file.
Recovers == <>calm => <>[](acceptor = "accept") \/ <>[]Unusable
=============================================================================
