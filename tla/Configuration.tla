--------------------------- MODULE Configuration ---------------------------
(***************************************************************************)
(* Configurations of src/src/config.rs as data: the defaults, what is      *)
(* loaded from a file and the environment, and Config::validate.           *)
(*                                                                         *)
(* A configuration is a record.  An Option field is a set of at most one   *)
(* element; a path is kept as what validate and the watcher can tell of    *)
(* it.  A document, the text of a configuration file, is a record of the   *)
(* fields it sets; so is what the environment sets.  Times are in units    *)
(* that keep the order of the defaults.                                    *)
(***************************************************************************)
EXTENDS Naturals

(* Texts that are no document: there is no such file, or no parser accepts *)
(* it.                                                                     *)
Absent    == [absent |-> TRUE]
Malformed == [malformed |-> TRUE]
Failure   == [error |-> TRUE]

Default ==
    [name |-> "proc-daemon",
     graceful |-> 2, force |-> 4, kill |-> 6,
     pool |-> 1,
     metrics |-> TRUE, metrics_interval |-> 1,
     health |-> TRUE, health_interval |-> 2,
     log_file |-> {}, max_size |-> {3}, max_files |-> {5},
     work_dir |-> {}, pid_file |-> {},
     hot_reload |-> FALSE]

OptionFields == {"log_file", "max_size", "max_files", "work_dir", "pid_file"}
Amounts      == {"graceful", "force", "kill", "pool", "metrics_interval", "health_interval"}
Switches     == {"metrics", "health", "hot_reload"}

(* Fields with values of their types.                                      *)
Typed(fields) ==
    /\ DOMAIN fields \subseteq DOMAIN Default
    /\ \A f \in DOMAIN fields :
           /\ f \in Amounts => fields[f] \in Nat
           /\ f \in Switches => fields[f] \in BOOLEAN
           /\ f \in OptionFields => \A v, w \in fields[f] : v = w

Whole(fields) == Typed(fields) /\ DOMAIN fields = DOMAIN Default

(* Figment::merge: later providers replace the fields of earlier ones.     *)
MergedOver(later, earlier) ==
    [f \in DOMAIN later \cup DOMAIN earlier |->
        IF f \in DOMAIN later THEN later[f] ELSE earlier[f]]

(* toml::from_str::<Config> wants every field that is not an Option.       *)
IsFull(doc) == DOMAIN Default \ OptionFields \subseteq DOMAIN doc

(* The fast path for a full file.  Serialized::from puts what the file     *)
(* says into the profile "file" of the figment; extract takes the profile  *)
(* that is selected, "default", with the defaults and the environment.     *)
FromFullFile(doc, environment) ==
    LET profiles == [file |-> doc, default |-> MergedOver(environment, Default)]
    IN  profiles["default"]

(* The provider path: what the file sets overrides the environment. *)
FromProviders(doc, environment) == MergedOver(doc, MergedOver(environment, Default))

(* The providers that look at the file are those of the features and, for  *)
(* JSON, of its extension; a provider that cannot parse it fails the load. *)
ProviderPath(text, environment, extension, features) ==
    CASE text = Absent -> FromProviders(<<>>, environment)
      [] extension = "toml" /\ "toml" \notin features -> FromProviders(<<>>, environment)
      [] extension = "json" /\ features = {} -> FromProviders(<<>>, environment)
      [] extension = "json" /\ "toml" \in features -> Failure
      [] text = Malformed \/ (extension = "json" /\ text = <<>>) -> Failure
      [] OTHER -> FromProviders(text, environment)

TakesFastPath(text, extension, features) ==
    /\ extension = "toml" /\ "toml" \in features
    /\ text \notin {Absent, Malformed}
    /\ IsFull(text)

(* Config::load_from_file when the file does not change meanwhile. *)
Load(text, environment, extension, features) ==
    IF TakesFastPath(text, extension, features)
    THEN FromFullFile(text, environment)
    ELSE ProviderPath(text, environment, extension, features)

(* A path in an Option field: the directory of a file is there or not; a   *)
(* working directory is one, is a file, or is missing.  A bare file name   *)
(* has the parent "", which does not exist.                                *)
Usable == {"absolute", "relative"}

Valid(c) ==
    /\ c.graceful # 0 /\ c.force > c.graceful /\ c.kill > c.force
    /\ c.pool # 0
    /\ c.metrics => c.metrics_interval # 0
    /\ c.health => c.health_interval # 0
    /\ c.name # ""
    /\ c.pid_file \subseteq Usable /\ c.work_dir \subseteq Usable
    /\ c.log_file \subseteq Usable
    /\ 0 \notin c.max_size

=============================================================================
