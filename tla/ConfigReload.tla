---------------------------- MODULE ConfigReload ----------------------------
(***************************************************************************)
(* A daemon with hot reload: src/src/config.rs and DaemonBuilder of        *)
(* src/src/daemon.rs.                                                      *)
(*                                                                         *)
(* The application makes a configuration, with ConfigBuilder or from the   *)
(* file, and builds and runs a daemon with it.  Somebody edits the file    *)
(* meanwhile.  The watcher's thread loads the file on every event of the   *)
(* file system, in several reads, and stores what it loads as the snapshot *)
(* that Daemon::config_snapshot returns.                                   *)
(***************************************************************************)
EXTENDS Configuration

CONSTANTS
    Documents,      \* the texts an editor writes
    Environments,   \* what the environment may set
    Settings,       \* the <<field, value>> pairs ConfigBuilder may be told
    MaxEdits        \* bound on the edits of the file

ASSUME SetupAssumption ==
    /\ MaxEdits \in Nat
    /\ \A fields \in Environments \cup (Documents \ {Malformed}) : Typed(fields)
    /\ \A setting \in Settings : Typed([f \in {setting[1]} |-> setting[2]])

VARIABLES
    environment,    \* the DAEMON_ variables
    features,       \* the parsers the crate is built with
    extension,      \* of the file
    editor,         \* how the file is edited
    path,           \* config_path of the builder, or "default"
    app,            \* what the application is at
    config,         \* the configuration it makes, then Daemon::config
    snapshot,       \* config_shared
    text,           \* the text of the file
    edits,          \* edits made
    moved,          \* the watcher's path does not lead to the file any more
    watch,          \* the watch on the file
    event,          \* events are queued for the watcher's thread
    loader,         \* what that thread does next
    loaded          \* what load_from_file returns to it

setupVars == <<environment, features, extension, editor>>
fileVars  == <<text, edits>>
loadVars  == <<loader, loaded>>
reloadVars == <<setupVars, path, app, config, snapshot, fileVars, moved, watch, event, loadVars>>

ReloadTypeOK ==
    /\ environment \in Environments
    /\ features \subseteq {"toml", "serde_json"} /\ extension \in {"toml", "json"}
    /\ editor \in {"in_place", "replace", "rename_away"}
    /\ path \in {"default", "absolute", "relative"}
    /\ app \in {"configures", "builds", "refused", "built", "runs", "returned"}
    /\ Whole(config) /\ Whole(snapshot)
    /\ text \in Documents \cup {Absent, <<>>}
    /\ edits \in 0..MaxEdits
    /\ moved \in BOOLEAN /\ event \in BOOLEAN
    /\ watch \in {"none", "live", "lost"}
    /\ loader \in {"idle", "looks", "reads", "rereads", "stores"}
    /\ loaded = Failure \/ Whole(loaded)

ReloadInit ==
    /\ environment \in Environments
    /\ features \in SUBSET {"toml", "serde_json"} /\ extension \in {"toml", "json"}
    /\ editor \in {"in_place", "replace", "rename_away"}
    /\ path = "default"
    /\ app = "configures"
    /\ config = Default /\ snapshot = Default
    /\ text \in Documents \cup {Absent}
    /\ edits = 0
    /\ moved = FALSE /\ event = FALSE
    /\ watch = "none"
    /\ loader = "idle" /\ loaded = Failure

-----------------------------------------------------------------------------
(* The application. *)

(* A setter of ConfigBuilder. *)
Set(field, value) ==
    /\ app = "configures"
    /\ config' = [config EXCEPT ![field] = value]
    /\ UNCHANGED <<setupVars, path, app, snapshot, fileVars, moved, watch, event, loadVars>>

(* ConfigBuilder::build validates. *)
FinishConfig ==
    /\ app = "configures"
    /\ app' = IF Valid(config) THEN "builds" ELSE "refused"
    /\ UNCHANGED <<setupVars, path, config, snapshot, fileVars, moved, watch, event, loadVars>>

(* Config::load_from_file does not. *)
LoadConfig ==
    /\ app = "configures"
    /\ LET result == Load(text, environment, extension, features) IN
       IF result = Failure
       THEN app' = "refused" /\ UNCHANGED config
       ELSE app' = "builds" /\ config' = result
    /\ UNCHANGED <<setupVars, path, snapshot, fileVars, moved, watch, event, loadVars>>

(* DaemonBuilder::with_config_path. *)
WithConfigPath ==
    /\ app = "builds"
    /\ path' \in {"absolute", "relative"}
    /\ UNCHANGED <<setupVars, app, config, snapshot, fileVars, moved, watch, event, loadVars>>

(* Faulty: the watch does not need the file. *)
BuildWatchesPath ==
    /\ app = "builds"
    /\ IF Valid(config)
       THEN /\ app' = "built" /\ snapshot' = config
            /\ watch' = IF config.hot_reload THEN "live" ELSE "none"
       ELSE app' = "refused" /\ UNCHANGED <<snapshot, watch>>
    /\ UNCHANGED <<setupVars, path, config, fileVars, moved, event, loadVars>>

(* DaemonBuilder::build.  Without a file to watch it only warns. *)
Build ==
    /\ app = "builds"
    /\ IF Valid(config)
       THEN /\ app' = "built" /\ snapshot' = config
            /\ watch' = IF config.hot_reload /\ text # Absent THEN "live" ELSE "none"
       ELSE app' = "refused" /\ UNCHANGED <<snapshot, watch>>
    /\ UNCHANGED <<setupVars, path, config, fileVars, moved, event, loadVars>>

(* The path of the watcher is given, or DEFAULT_CONFIG_FILE in work_dir. *)
RelativePath ==
    \/ path = "relative"
    \/ path = "default" /\ config.work_dir = {"relative"}

(* Daemon::run begins: it enters work_dir. *)
EnterRun ==
    /\ app = "built"
    /\ app' = "runs"
    /\ moved' = (RelativePath /\ config.work_dir # {})
    /\ UNCHANGED <<setupVars, path, config, snapshot, fileVars, watch, event, loadVars>>

(* run, which owns the daemon and its watcher, returns and drops them; its clones
   keep the snapshot.  Queued events may still reach the thread. *)
Return ==
    /\ app = "runs"
    /\ app' = "returned"
    /\ watch' = "none" /\ event' \in {event, FALSE}
    /\ UNCHANGED <<setupVars, path, config, snapshot, fileVars, moved, loadVars>>

Application ==
    \/ \E setting \in Settings : Set(setting[1], setting[2])
    \/ FinishConfig \/ LoadConfig \/ WithConfigPath \/ Build \/ EnterRun \/ Return

-----------------------------------------------------------------------------
(* The editor of the file and the file system (external). *)

Notifies == event' = (event \/ watch = "live")

Edits(after) ==
    /\ app \in {"built", "runs"}
    /\ text' = after
    /\ UNCHANGED <<setupVars, path, app, config, snapshot, moved, loadVars>>

(* The file is truncated and written again. *)
Truncate ==
    /\ editor = "in_place" /\ edits < MaxEdits /\ text \notin {<<>>, Absent}
    /\ Edits(<<>>)
    /\ Notifies
    /\ UNCHANGED <<edits, watch>>

WriteAgain(doc) ==
    /\ editor = "in_place" /\ edits < MaxEdits /\ text = <<>>
    /\ Edits(doc)
    /\ edits' = edits + 1
    /\ Notifies
    /\ UNCHANGED watch

(* The watch is on the file, not on its name: it goes with the old file.   *)
LosesWatch == watch' = IF watch = "live" THEN "lost" ELSE watch

(* A new file is renamed over the old one. *)
Replace(doc) ==
    /\ editor = "replace" /\ edits < MaxEdits /\ text # Absent
    /\ Edits(doc)
    /\ edits' = edits + 1
    /\ Notifies /\ LosesWatch

(* The old file is renamed, a new one is written. *)
RenameAway ==
    /\ editor = "rename_away" /\ edits < MaxEdits /\ text # Absent
    /\ Edits(Absent)
    /\ Notifies /\ LosesWatch
    /\ UNCHANGED edits

Create(doc) ==
    /\ editor = "rename_away" /\ edits < MaxEdits /\ text = Absent
    /\ Edits(doc)
    /\ edits' = edits + 1
    /\ UNCHANGED <<watch, event>>

Editor ==
    \/ Truncate \/ RenameAway
    \/ \E doc \in Documents : WriteAgain(doc) \/ Replace(doc) \/ Create(doc)

-----------------------------------------------------------------------------
(* The watcher's thread. *)

(* The text at the watcher's path. *)
TextThere == IF moved THEN Absent ELSE text

(* Opening the file may be an event as well, of a file that is watched.    *)
OpensFile == event' \in {event, event \/ (watch = "live" /\ ~moved)}

Loader(step, next) ==
    /\ loader = step
    /\ loader' = next
    /\ UNCHANGED <<setupVars, path, app, config, fileVars, moved, watch>>

TakeEvent ==
    /\ event
    /\ Loader("idle", "looks")
    /\ event' = FALSE
    /\ UNCHANGED <<loaded, snapshot>>

(* path.exists() *)
Look ==
    IF TextThere = Absent
    THEN /\ Loader("looks", "stores")
         /\ loaded' = ProviderPath(Absent, environment, extension, features)
         /\ UNCHANGED <<event, snapshot>>
    ELSE /\ Loader("looks", "reads")
         /\ UNCHANGED <<event, loaded, snapshot>>

(* fs::read, for TOML; if the fast path does not take the text, the        *)
(* providers read the file again.                                          *)
Read ==
    /\ IF TakesFastPath(TextThere, extension, features)
       THEN /\ Loader("reads", "stores")
            /\ loaded' = FromFullFile(TextThere, environment)
       ELSE /\ Loader("reads", "rereads")
            /\ UNCHANGED loaded
    /\ OpensFile
    /\ UNCHANGED snapshot

ReadAgain ==
    /\ Loader("rereads", "stores")
    /\ loaded' = ProviderPath(TextThere, environment, extension, features)
    /\ OpensFile
    /\ UNCHANGED snapshot

(* Faulty: events that arrived during the load are taken as served. *)
StoreServesAll ==
    /\ Loader("stores", "idle")
    /\ snapshot' = IF loaded = Failure THEN snapshot ELSE loaded
    /\ loaded' = Failure /\ event' = FALSE

(* Faulty: a file that cannot be loaded counts as an empty one. *)
StoreDefaults ==
    /\ Loader("stores", "idle")
    /\ snapshot' = IF loaded = Failure THEN Default ELSE loaded
    /\ loaded' = Failure
    /\ UNCHANGED event

(* The callback of build stores what was loaded and does not validate it.  *)
Store ==
    /\ Loader("stores", "idle")
    /\ snapshot' = IF loaded = Failure THEN snapshot ELSE loaded
    /\ loaded' = Failure
    /\ UNCHANGED event

Watcher == TakeEvent \/ Look \/ Read \/ ReadAgain \/ Store

-----------------------------------------------------------------------------
ReloadNext == Application \/ Editor \/ Watcher

ReloadSpec == ReloadInit /\ [][ReloadNext]_reloadVars

(* The watcher's thread runs; nobody has to edit the file. *)
ReloadFairSpec == ReloadSpec /\ WF_reloadVars(Watcher)

-----------------------------------------------------------------------------
(* Properties. *)

(* What a file with this text may be loaded as, read once or twice. *)
Versions(doc) ==
    (IF TakesFastPath(doc, extension, features) THEN {FromFullFile(doc, environment)} ELSE {})
    \cup {ProviderPath(doc, environment, extension, features)}

VersionsOfFile == UNION {Versions(doc) : doc \in Documents}

(* If the file is replaced as a whole and its path stays good, readers     *)
(* never see anything but the first configuration or the load of a         *)
(* complete version of the file: nothing torn, nothing for a file that     *)
(* cannot be loaded.                                                       *)
NoTornSnapshot ==
    app \in {"built", "runs", "returned"} /\ editor = "replace" /\ ~moved =>
        snapshot \in {config} \cup VersionsOfFile

(* The watcher's thread works for a daemon that was built only, and only   *)
(* with a file there when it was; if the file is replaced as a whole, what *)
(* the thread finds at a path that stays good is a complete version.       *)
WatcherSound ==
    /\ app \in {"configures", "builds", "refused"} => watch = "none" /\ ~event /\ loader = "idle"
    /\ app \notin {"runs", "returned"} => ~moved
    /\ editor = "replace" =>
           /\ text \in Documents \cup {Absent}
           /\ watch # "none" \/ event \/ loader # "idle" => text \in Documents
           /\ ~moved => loaded \in {Failure} \cup VersionsOfFile

(* And the variables keep their types. *)
ReloadInv == ReloadTypeOK /\ WatcherSound

(* The loader heeds what is in the file: a parser of the build takes it,   *)
(* and it is not full (a full one is shadowed by defaults and environment).*)
Heeded ==
    /\ text \notin {Absent, Malformed}
    /\ ~TakesFastPath(text, extension, features)
    /\ \/ extension = "toml" /\ "toml" \in features
       \/ extension = "json" /\ features = {"serde_json"} /\ text # <<>>

(* When the editing is over, a watcher that still has its watch and its    *)
(* path has brought the snapshot up to date with a file that is heeded:    *)
(* the fields the file sets have its values, the others those of the       *)
(* environment and the defaults, not those of an earlier text.             *)
EventuallyCurrent ==
    <>[](watch = "live" /\ ~moved /\ edits > 0 /\ Heeded =>
             snapshot = FromProviders(text, environment))

(* Properties the documentation states and the code does not have.         *)

(* The environment overrides what Config::load_from_file finds in a file.  *)
EnvironmentOverrides ==
    app = "builds" /\ config # Default
        => \A field \in DOMAIN environment : config[field] = environment[field]

=============================================================================
