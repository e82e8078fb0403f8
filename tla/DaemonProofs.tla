---------------------------- MODULE DaemonProofs ----------------------------
(***************************************************************************)
(* Proofs about Daemon, for any set of subsystems, any builds and any      *)
(* signals: run begins its teardown after an initiation only and ends it   *)
(* when nothing is left running, and a shutdown by signal is graceful.     *)
(*                                                                         *)
(* A step of the signal handler changes decision, timeSet and spc; one of  *)
(* a subsystem task and its stop_subsystem call task, stop and ready; one  *)
(* of the main task pc.  There is a lemma for each.                        *)
(*                                                                         *)
(* And about ConfigReload, the configuration such a daemon is built with:  *)
(* what readers of its snapshot can find.                                  *)
(***************************************************************************)
EXTENDS Daemon, ConfigReload, TLAPS

LEMMA InitIInv == Init => IInv
<1>. SUFFICES ASSUME Init PROVE IInv
  OBVIOUS
<1>1. TypeOK
  BY DEF Init, SignalInit, Coordinator!LatchInit, TypeOK, SignalTypeOK
<1>2. pc = "start" /\ spc = "none" /\ decision # "Signal"
  BY ConfigurationAssumption DEF Init, SignalInit, Coordinator!LatchInit, Reasons
<1>3. \A s \in Subsystems : stop[s] = "idle"
  BY DEF Init
<1>. QED
  BY <1>1, <1>2, <1>3
     DEF IInv, TeardownNeedsShutdown, ReturnMeansEnded, AllReadyAtGraceful,
         SignalShutdownIsGraceful, SignalsProgress, StopsProgress

(* A signal that is delivered, and the steps of the handler task.  It wins *)
(* only if nobody has, and until it has stored the time it has not ended.  *)
LEMMA SignalIInv ==
  ASSUME IInv, (\E sig \in Signals : Deliver(sig)) \/ SignalTask
  PROVE  IInv'
<1>. USE DEF IInv, latchVars, taskVars, TypeOK, SignalTypeOK, TeardownNeedsShutdown,
             ReturnMeansEnded, AllReadyAtGraceful, SignalShutdownIsGraceful, SignalsProgress,
             StopsProgress, HandlerEnded, Runtime
<1>1. ASSUME NEW sig \in Signals, Deliver(sig) PROVE IInv'
  BY <1>1 DEF Deliver, Delivered
<1>2. CASE HandlerStep
  BY <1>2 DEF HandlerStep, HandlerProceeds, BeginHandling, Register, CheckHandling, PollAgain,
              FlagDown, Goes
<1>3. CASE SignalInitiates
  BY <1>3, ConfigurationAssumption
     DEF SignalInitiates, Receive, FlagUp, Goes, Coordinator!Open, Reasons
<1>4. CASE FinishSignal
  BY <1>4 DEF FinishSignal, FinishInitiating, Goes
<1>. QED
  BY <1>1, <1>2, <1>3, <1>4 DEF SignalTask

(* Daemon::shutdown decides only if nobody has. *)
LEMMA ShutdownCallIInv ==
  ASSUME IInv, CallShutdown \/ FinishShutdown
  PROVE  IInv'
<1>. USE DEF IInv, latchVars, taskVars, signalVars
<1>1. UNCHANGED <<build, handling, spc, pending, killedBy, place, pc, task, stop, ready>>
  BY DEF CallShutdown, FinishShutdown, Coordinator!Open
<1>2. /\ decision' = decision \/ (decision = Undecided /\ decision' = "Requested")
      /\ timeSet' = timeSet \/ timeSet' = TRUE
  BY DEF CallShutdown, FinishShutdown, Coordinator!Open
<1>3. /\ decision' \in Reasons \cup {Undecided} /\ timeSet' \in BOOLEAN
      /\ program' \in {"idle", "storing", "done"}
  BY <1>2 DEF CallShutdown, FinishShutdown, TypeOK, Reasons
<1>4. TypeOK'
  BY <1>1, <1>3 DEF TypeOK, SignalTypeOK
<1>5. TeardownNeedsShutdown' /\ SignalShutdownIsGraceful' /\ SignalsProgress'
  BY <1>1, <1>2, ConfigurationAssumption
     DEF TeardownNeedsShutdown, SignalShutdownIsGraceful, SignalsProgress, HandlerEnded, Reasons
<1>6. ReturnMeansEnded' /\ AllReadyAtGraceful' /\ StopsProgress'
  BY <1>1 DEF ReturnMeansEnded, AllReadyAtGraceful, StopsProgress, Runtime
<1>. QED
  BY <1>4, <1>5, <1>6

(* A task that has ended stays so, a subsystem that is ready stays so.     *)
LEMMA SubsystemIInv ==
  ASSUME IInv, NEW s \in Subsystems,
         Notice(s) \/ RunReturns(s) \/ ReportReady(s) \/ Cancelled(s)
  PROVE  IInv'
<1>. USE DEF IInv, latchVars, signalVars, Runtime, TaskEnded
<1>1. TypeOK'
  <2>. USE DEF TypeOK, SignalTypeOK
  <2>1. CASE Notice(s)
    BY <2>1 DEF Notice, Coordinator!Leave
  <2>2. CASE RunReturns(s) \/ Cancelled(s)
    BY <2>2 DEF RunReturns, Cancelled
  <2>3. CASE ReportReady(s)
    BY <2>3 DEF ReportReady
  <2>. QED
    BY <2>1, <2>2, <2>3
<1>2. /\ \A x \in Subsystems : task[x] \in TaskEnded => task'[x] \in TaskEnded
      /\ ready \subseteq ready' /\ ready' \subseteq Subsystems
  BY DEF Notice, RunReturns, ReportReady, Cancelled, TypeOK
<1>3. UNCHANGED <<build, decision, timeSet, pc, stop, spc>>
  BY DEF Notice, RunReturns, ReportReady, Cancelled, Coordinator!Leave
<1>4. AllReadyAtGraceful' /\ StopsProgress' /\ ReturnMeansEnded'
  BY <1>2, <1>3 DEF AllReadyAtGraceful, StopsProgress, ReturnMeansEnded
<1>. QED
  BY <1>1, <1>3, <1>4
     DEF TeardownNeedsShutdown, SignalShutdownIsGraceful, SignalsProgress, HandlerEnded

(* A stop is done when its subsystem is marked ready and, under tokio, its *)
(* task has ended.                                                         *)
LEMMA StopCallIInv ==
  ASSUME IInv, NEW s \in Subsystems, StopCall(s)
  PROVE  IInv'
<1>. USE DEF IInv, latchVars, signalVars, Runtime
<1>1. TypeOK'
  BY DEF StopCall, BeginStop, Joined, StopTimeout, Stopped, TypeOK, SignalTypeOK
<1>2. UNCHANGED <<build, decision, timeSet, pc, task, spc>>
  BY DEF StopCall, BeginStop, Joined, StopTimeout
<1>3. ready \subseteq ready' /\ stop[s] # "done"
  BY DEF StopCall, BeginStop, Joined, StopTimeout, Stopped, TypeOK
<1>4. \A x \in Subsystems : stop'[x] = "done" =>
          x \in ready' /\ (Runtime = "tokio" => task[x] \in TaskEnded)
  BY <1>3 DEF StopCall, BeginStop, Joined, StopTimeout, Stopped, TypeOK, StopsProgress
<1>5. pc \notin {"graceful", "force", "kill", "returned"}
  BY <1>3 DEF StopsProgress
<1>. QED
  BY <1>1, <1>2, <1>4, <1>5
     DEF TeardownNeedsShutdown, ReturnMeansEnded, AllReadyAtGraceful,
         SignalShutdownIsGraceful, SignalsProgress, StopsProgress, HandlerEnded

(* The main task.  It gets past stop_signals only with a decision, past    *)
(* join_signals only when the handler has ended, past stop_all only when   *)
(* all stops are done; so when the graceful wait fails it is for want of   *)
(* the time, which a shutdown by signal has stored.                        *)
LEMMA MainIInv ==
  ASSUME IInv, MainTask \/ IntervalElapsed
  PROVE  IInv'
<1>. USE DEF IInv, latchVars, taskVars, signalVars, Runtime, TypeOK, SignalTypeOK,
             TeardownNeedsShutdown, ReturnMeansEnded, AllReadyAtGraceful,
             SignalShutdownIsGraceful, SignalsProgress, StopsProgress, HandlerEnded
<1>1. ASSUME NEW s \in Subsystems, StartSubsystem(s) PROVE IInv'
  <2>1. \A x \in Subsystems : task[x] \in TaskEnded => task'[x] \in TaskEnded
    BY <1>1 DEF StartSubsystem, TaskEnded
  <2>. QED
    BY <1>1, <2>1 DEF StartSubsystem, Coordinator!Enter
<1>2. CASE SpawnSignalHandler
  BY <1>2 DEF SpawnSignalHandler, Spawned
<1>3. CASE LoopTurn
  BY <1>3 DEF LoopTurn, Coordinator!Enter
<1>4. CASE ShutdownSeen
  BY <1>4 DEF ShutdownSeen, Coordinator!Leave
<1>5. CASE StopSignals \/ JoinSignals
  BY <1>5 DEF StopSignals, StopHandling, JoinSignals
<1>6. CASE AllStopped
  BY <1>6 DEF AllStopped
<1>7. CASE GracefulWait
  <2>1. ready = Subsystems
    BY <1>7 DEF GracefulWait
  <2>2. pc' = "force" => decision = "Requested"
    BY <1>7, <2>1 DEF GracefulWait, Reasons
  <2>. QED
    BY <1>7, <2>2 DEF GracefulWait
<1>8. CASE ForceWait \/ KillWait
  BY <1>8 DEF ForceWait, KillWait
<1>9. CASE IntervalElapsed
  BY <1>9 DEF IntervalElapsed, Coordinator!Abandon
<1>. QED
  BY <1>1, <1>2, <1>3, <1>4, <1>5, <1>6, <1>7, <1>8, <1>9 DEF MainTask

LEMMA NextIInv == IInv /\ [Next]_vars => IInv'
<1>. SUFFICES ASSUME IInv, [Next]_vars PROVE IInv'
  OBVIOUS
<1>1. CASE UNCHANGED vars
  BY <1>1 DEF vars, IInv, TypeOK, SignalTypeOK, TeardownNeedsShutdown, ReturnMeansEnded,
              AllReadyAtGraceful, SignalShutdownIsGraceful, SignalsProgress, StopsProgress,
              HandlerEnded, Runtime
<1>. QED
  BY <1>1, SignalIInv, ShutdownCallIInv, SubsystemIInv, StopCallIInv, MainIInv DEF Next

-----------------------------------------------------------------------------
(* The inductive invariant of the daemon, whichever of its builds runs,    *)
(* whatever subsystems and signals it has.                                 *)
THEOREM Invariance == Spec => []IInv
BY InitIInv, NextIInv, PTL DEF Spec

(* Daemon::run tears nothing down before a shutdown was initiated.         *)
THEOREM TeardownFollowsShutdown == Spec => []TeardownNeedsShutdown
<1>1. IInv => TeardownNeedsShutdown
  BY DEF IInv
<1>. QED
  BY <1>1, Invariance, PTL

(* Under tokio no subsystem is running when Daemon::run returns, although  *)
(* stop_subsystem gives each of them 500 ms only.                          *)
THEOREM NothingLeftRunning == Spec => []ReturnMeansEnded
<1>1. IInv => ReturnMeansEnded
  BY DEF IInv
<1>. QED
  BY <1>1, Invariance, PTL

(* stop_all has marked every subsystem ready when run comes to             *)
(* wait_for_shutdown.                                                      *)
THEOREM NothingToWaitFor == Spec => []AllReadyAtGraceful
<1>1. IInv => AllReadyAtGraceful
  BY DEF IInv
<1>. QED
  BY <1>1, Invariance, PTL

(* A shutdown by signal does not get to the force and kill waits: run has  *)
(* joined the handler task, which has stored the shutdown time.            *)
THEOREM SignalsAreGraceful == Spec => []SignalShutdownIsGraceful
<1>1. IInv => SignalShutdownIsGraceful
  BY DEF IInv
<1>. QED
  BY <1>1, Invariance, PTL

-----------------------------------------------------------------------------
(* The configuration that the application builds the daemon with, and the  *)
(* snapshot its watcher keeps: ConfigReload, for any documents, any        *)
(* environments and any number of edits.                                   *)

(* What is loaded has every field, with a value of its type. *)
LEMMA DefaultWhole == Whole(Default)
<1>1. \A f \in Amounts : Default[f] \in Nat
  <2>1. /\ Default.graceful \in Nat /\ Default.force \in Nat
        /\ Default.kill \in Nat
        /\ Default.pool \in Nat /\ Default.metrics_interval \in Nat
        /\ Default.health_interval \in Nat
    BY DEF Default
  <2>. QED
    BY <2>1 DEF Amounts
<1>2. \A f \in Switches : Default[f] \in BOOLEAN
  <2>1. /\ Default.metrics \in BOOLEAN /\ Default.health \in BOOLEAN
        /\ Default.hot_reload \in BOOLEAN
    BY DEF Default
  <2>. QED
    BY <2>1 DEF Switches
<1>3. \A f \in OptionFields : \A v, w \in Default[f] : v = w
  <2>1. /\ Default.log_file = {}
        /\ Default.max_size = {3} /\ Default.max_files = {5}
        /\ Default.work_dir = {} /\ Default.pid_file = {}
    BY DEF Default
  <2>. QED
    BY <2>1 DEF OptionFields
<1>. QED
  BY <1>1, <1>2, <1>3 DEF Whole, Typed

(* Figment::merge over a whole configuration gives a whole one.            *)
LEMMA MergedWhole ==
  ASSUME NEW later, NEW earlier, Typed(later), Whole(earlier)
  PROVE  Whole(MergedOver(later, earlier))
BY DEF Whole, Typed, MergedOver

(* What the fast path or the providers make of a text is whole: the        *)
(* defaults are at the bottom of every figment of load_from_file.          *)
LEMMA LoadedWhole ==
  ASSUME ReloadTypeOK, NEW doc \in Documents \cup {Absent, <<>>}
  PROVE  /\ \/ ProviderPath(doc, environment, extension, features) = Failure
            \/ Whole(ProviderPath(doc, environment, extension, features))
         /\ Whole(FromFullFile(doc, environment))
<1>1. Typed(environment) /\ Typed(<<>>)
  BY SetupAssumption DEF ReloadTypeOK, Typed
<1>2. Whole(MergedOver(environment, Default))
  BY <1>1, DefaultWhole, MergedWhole
<1>3. doc \notin {Absent, Malformed} => Typed(doc)
  BY <1>1, SetupAssumption
<1>4. Whole(FromProviders(<<>>, environment))
  BY <1>1, <1>2, MergedWhole DEF FromProviders
<1>5. doc \notin {Absent, Malformed}
        => Whole(FromProviders(doc, environment))
  BY <1>2, <1>3, MergedWhole DEF FromProviders
<1>6. Whole(FromFullFile(doc, environment))
  BY <1>2 DEF FromFullFile
<1>. QED
  BY <1>4, <1>5, <1>6 DEF ProviderPath

(* When the application starts, nothing is watched or loaded.              *)
LEMMA InitReload == ReloadInit => ReloadInv
<1>. SUFFICES ASSUME ReloadInit PROVE ReloadInv
  OBVIOUS
<1>1. ReloadTypeOK
  <2>1. 0 \in 0..MaxEdits
    BY SetupAssumption
  <2>2. /\ environment \in Environments
        /\ features \subseteq {"toml", "serde_json"} /\ extension \in {"toml", "json"}
        /\ editor \in {"in_place", "replace", "rename_away"}
        /\ path \in {"default", "absolute", "relative"}
        /\ app \in {"configures", "builds", "refused", "built", "runs", "returned"}
        /\ text \in Documents \cup {Absent, <<>>}
        /\ moved \in BOOLEAN /\ event \in BOOLEAN
        /\ watch \in {"none", "live", "lost"}
        /\ loader \in {"idle", "looks", "reads", "rereads", "stores"}
    BY DEF ReloadInit
  <2>3. /\ Whole(config) /\ Whole(snapshot)
        /\ loaded = Failure /\ edits \in 0..MaxEdits
    BY <2>1, DefaultWhole, Zenon DEF ReloadInit
  <2>. QED
    BY <2>2, <2>3 DEF ReloadTypeOK
<1>2. WatcherSound
  BY DEF ReloadInit, WatcherSound
<1>. QED
  BY <1>1, <1>2 DEF ReloadInv

(* What the documents are loaded as depends on the set-up only.            *)
LEMMA SameVersions ==
  ASSUME UNCHANGED setupVars
  PROVE  VersionsOfFile' = VersionsOfFile
BY DEF setupVars, VersionsOfFile, Versions

(* The application: a setter keeps the fields whole, load_from_file gives  *)
(* a whole configuration, and only build starts a watch, of a file that is *)
(* there.                                                                  *)
LEMMA ApplicationInv ==
  ASSUME ReloadInv, Application
  PROVE  ReloadInv'
<1>. USE DEF ReloadInv, ReloadTypeOK, WatcherSound, setupVars, fileVars,
             loadVars
<1>1. /\ UNCHANGED <<environment, features, extension, editor>>
      /\ VersionsOfFile' = VersionsOfFile
  BY SameVersions
     DEF Application, Set, FinishConfig, LoadConfig, WithConfigPath, Build, EnterRun, Return
<1>2. ASSUME NEW setting \in Settings, Set(setting[1], setting[2]) PROVE ReloadInv'
  <2>1. Whole([config EXCEPT ![setting[1]] = setting[2]])
    <3>1. Typed([f \in {setting[1]} |-> setting[2]])
      BY SetupAssumption
    <3>. QED
      BY <3>1 DEF Whole, Typed
  <2>. QED
    BY <1>1, <1>2, <2>1 DEF Set
<1>3. CASE FinishConfig
  BY <1>1, <1>3 DEF FinishConfig
<1>4. CASE LoadConfig
  <2>. DEFINE result == Load(text, environment, extension, features)
  <2>1. result = Failure \/ Whole(result)
    BY LoadedWhole DEF Load
  <2>2. Whole(config') /\ app' \in {"refused", "builds"}
    <3>. HIDE DEF result
    <3>. QED
      BY <1>4, <2>1 DEF LoadConfig, result
  <2>. QED
    BY <1>1, <1>4, <2>2 DEF LoadConfig
<1>5. CASE WithConfigPath
  BY <1>1, <1>5 DEF WithConfigPath
<1>6. CASE Build
  BY <1>1, <1>6 DEF Build
<1>7. CASE EnterRun
  BY <1>1, <1>7 DEF EnterRun, RelativePath
<1>8. CASE Return
  <2>1. event' \in BOOLEAN /\ (event' => event)
    <3>1. event' = event \/ event' = FALSE
      BY <1>8 DEF Return
    <3>2. event \in BOOLEAN
      OBVIOUS
    <3>3. CASE event' = event
      BY <3>2, <3>3, Zenon
    <3>4. CASE event' = FALSE
      BY <3>4, Zenon
    <3>. QED
      BY <3>1, <3>3, <3>4
  <2>. QED
    BY <1>1, <1>8, <2>1 DEF Return
<1>. QED
  BY <1>2, <1>3, <1>4, <1>5, <1>6, <1>7, <1>8 DEF Application

(* The editor touches the text and the watch only; an event is queued only *)
(* where there is a watch, and a replaced file is always there.            *)
LEMMA EditorInv ==
  ASSUME ReloadInv, Editor
  PROVE  ReloadInv'
<1>. USE DEF ReloadInv, ReloadTypeOK, WatcherSound, setupVars, fileVars,
             loadVars
<1>1. /\ UNCHANGED <<environment, features, extension, editor>>
      /\ VersionsOfFile' = VersionsOfFile
  BY SameVersions DEF Editor, Truncate, WriteAgain, Replace, RenameAway, Create, Edits
<1>2. /\ app \in {"built", "runs"}
      /\ UNCHANGED <<path, app, config, snapshot, moved, loader, loaded>>
  BY DEF Editor, Truncate, WriteAgain, Replace, RenameAway, Create, Edits
<1>3. watch' \in {"none", "live", "lost"} /\ event' \in BOOLEAN
      /\ (watch' # "none" => watch # "none") /\ (event' => event \/ watch # "none")
  <2>1. watch' = watch \/ LosesWatch
    BY DEF Editor, Truncate, WriteAgain, Replace, RenameAway, Create
  <2>2. Notifies \/ event' = event
    BY DEF Editor, Truncate, WriteAgain, Replace, RenameAway, Create
  <2>3. watch' \in {"none", "live", "lost"} /\ (watch' # "none" => watch # "none")
    BY <2>1 DEF LosesWatch
  <2>4. event' \in BOOLEAN /\ (event' => event \/ watch = "live")
    <3>1. event \in BOOLEAN /\ (event \/ watch = "live") \in BOOLEAN
      OBVIOUS
    <3>2. CASE Notifies
      BY <3>1, <3>2, Zenon DEF Notifies
    <3>3. CASE event' = event
      BY <3>1, <3>3, Zenon
    <3>. QED
      BY <2>2, <3>2, <3>3
  <2>. QED
    BY <2>3, <2>4
<1>4. edits' \in 0..MaxEdits
  BY SetupAssumption DEF Editor, Truncate, WriteAgain, Replace, RenameAway, Create
<1>5. /\ text' \in Documents \cup {Absent, <<>>}
      /\ editor = "replace" => text' \in Documents
  BY DEF Editor, Truncate, WriteAgain, Replace, RenameAway, Create, Edits
<1>6. ReloadTypeOK'
  BY <1>1, <1>2, <1>3, <1>4, <1>5
<1>7. WatcherSound'
  BY <1>1, <1>2, <1>3, <1>5
<1>. QED
  BY <1>6, <1>7

(* The watcher's thread holds a complete version or nothing.               *)
LEMMA WatcherInv ==
  ASSUME ReloadInv, Watcher
  PROVE  ReloadInv'
<1>. USE DEF ReloadInv, ReloadTypeOK, WatcherSound, setupVars, fileVars,
             loadVars
<1>1. /\ UNCHANGED <<environment, features, extension, editor>>
      /\ VersionsOfFile' = VersionsOfFile
      /\ UNCHANGED <<path, app, config, text, edits, moved, watch>>
  BY SameVersions DEF Watcher, TakeEvent, Look, Read, ReadAgain, Store, Loader
<1>2. /\ loader' \in {"idle", "looks", "reads", "rereads", "stores"} /\ event' \in BOOLEAN
      /\ loader # "idle" \/ event
  BY DEF Watcher, TakeEvent, Look, Read, ReadAgain, Store, Loader, OpensFile
<1>3. (loaded' = Failure \/ Whole(loaded')) /\ Whole(snapshot')
  <2>1. TextThere \in Documents \cup {Absent, <<>>}
    BY DEF TextThere
  <2>. DEFINE found == ProviderPath(TextThere, environment, extension, features)
  <2>2. /\ found = Failure \/ Whole(found)
        /\ Whole(FromFullFile(TextThere, environment))
    BY <2>1, LoadedWhole
  <2>3. CASE Look
    BY <2>2, <2>3 DEF Look
  <2>4. CASE TakeEvent \/ Read \/ ReadAgain \/ Store
    BY <2>2, <2>4 DEF TakeEvent, Read, ReadAgain, Store
  <2>. QED
    BY <2>3, <2>4 DEF Watcher
<1>4. editor = "replace" /\ ~moved => loaded' \in {Failure} \cup VersionsOfFile
  <2>. SUFFICES ASSUME editor = "replace", ~moved
                PROVE  loaded' \in {Failure} \cup VersionsOfFile
    OBVIOUS
  <2>1. text \in Documents /\ TextThere = text
    BY <1>2 DEF TextThere
  <2>2. /\ ProviderPath(text, environment, extension, features) \in VersionsOfFile
        /\ TakesFastPath(text, extension, features)
             => FromFullFile(text, environment) \in VersionsOfFile
    BY <2>1 DEF VersionsOfFile, Versions
  <2>. QED
    BY <2>1, <2>2 DEF Watcher, TakeEvent, Look, Read, ReadAgain, Store
<1>5. ReloadTypeOK'
  BY <1>1, <1>2, <1>3
<1>6. WatcherSound'
  BY <1>1, <1>2, <1>4
<1>. QED
  BY <1>5, <1>6

(* So in every reachable state, whatever is edited and loaded meanwhile.   *)
LEMMA ReloadInvariance == ReloadSpec => []ReloadInv
<1>1. ReloadInv /\ [ReloadNext]_reloadVars => ReloadInv'
  <2>. SUFFICES ASSUME ReloadInv, [ReloadNext]_reloadVars PROVE ReloadInv'
    OBVIOUS
  <2>1. CASE UNCHANGED reloadVars
    <3>1. VersionsOfFile' = VersionsOfFile
      BY <2>1, SameVersions DEF reloadVars, setupVars
    <3>. QED
      BY <2>1, <3>1
         DEF reloadVars, setupVars, fileVars, loadVars, ReloadInv, ReloadTypeOK,
             WatcherSound
  <2>. QED
    BY <2>1, ApplicationInv, EditorInv, WatcherInv DEF ReloadNext
<1>. QED
  BY <1>1, InitReload, PTL DEF ReloadSpec

(* With a file that is replaced as a whole, Daemon::config_snapshot gives  *)
(* the configuration of build or the load of a complete version.           *)
THEOREM NothingTorn == ReloadSpec => []NoTornSnapshot
<1>1. ReloadInit => NoTornSnapshot
  BY DEF ReloadInit, NoTornSnapshot
<1>2. ReloadInv /\ NoTornSnapshot /\ [ReloadNext]_reloadVars
        => NoTornSnapshot'
  <2>. SUFFICES ASSUME ReloadInv, NoTornSnapshot, [ReloadNext]_reloadVars
                PROVE  NoTornSnapshot'
    OBVIOUS
  <2>. USE DEF NoTornSnapshot, ReloadInv, WatcherSound, setupVars, fileVars, loadVars
  <2>1. CASE UNCHANGED reloadVars
    <3>1. VersionsOfFile' = VersionsOfFile
      BY <2>1, SameVersions DEF reloadVars
    <3>. QED
      BY <2>1, <3>1 DEF reloadVars
  <2>2. CASE Application
    <3>1. VersionsOfFile' = VersionsOfFile /\ UNCHANGED editor
      BY <2>2, SameVersions
         DEF Application, Set, FinishConfig, LoadConfig, WithConfigPath, Build, EnterRun,
             Return
    <3>. QED
      BY <2>2, <3>1
         DEF Application, Set, FinishConfig, LoadConfig, WithConfigPath, Build, EnterRun,
             Return
  <2>3. CASE Editor
    <3>1. /\ VersionsOfFile' = VersionsOfFile
          /\ UNCHANGED <<app, editor, moved, snapshot, config>>
      BY <2>3, SameVersions
         DEF Editor, Truncate, WriteAgain, Replace, RenameAway, Create, Edits
    <3>. QED
      BY <3>1
  <2>4. CASE Watcher
    <3>1. /\ VersionsOfFile' = VersionsOfFile
          /\ UNCHANGED <<app, editor, moved, config>>
      BY <2>4, SameVersions DEF Watcher, TakeEvent, Look, Read, ReadAgain, Store, Loader
    <3>2. snapshot' = snapshot \/ (loaded # Failure /\ snapshot' = loaded)
      BY <2>4 DEF Watcher, TakeEvent, Look, Read, ReadAgain, Store
    <3>. QED
      BY <3>1, <3>2
  <2>. QED
    BY <2>1, <2>2, <2>3, <2>4 DEF ReloadNext
<1>. QED
  BY <1>1, <1>2, ReloadInvariance, PTL DEF ReloadSpec

=============================================================================
