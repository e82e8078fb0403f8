--------------------------- MODULE SignalHandler ---------------------------
(***************************************************************************)
(* SignalHandler and ConfigurableSignalHandler of src/src/signal.rs: what  *)
(* the handler task of a daemon does with the signals (on Windows the      *)
(* console events) the process is sent, for each build of the crate.       *)
(*                                                                         *)
(* Module Daemon composes it with the daemon: an operator with parameter   *)
(* won is a step that calls initiate_shutdown, which returns won.          *)
(***************************************************************************)
EXTENDS FiniteSets

CONSTANTS
    Builds,     \* platform, runtime, kind of handler and enabled signals
    Arriving    \* the signals the process may be sent

UnixSignals   == {"TERM", "INT", "QUIT", "HUP", "USR1", "USR2"}
ConsoleEvents == {"CTRL_C", "CTRL_BREAK", "CTRL_CLOSE", "CTRL_SHUTDOWN"}
Signals == UnixSignals \cup ConsoleEvents

(* SignalConfig: its default, and what its methods turn off and on.        *)
SignalConfigs ==
    {({"TERM", "INT", "QUIT"} \ off) \cup on :
        off \in SUBSET {"TERM", "INT", "QUIT"}, on \in SUBSET {"HUP", "USR1", "USR2"}}

(* The builder makes the default handler, a configurable one if it was     *)
(* given a SignalConfig, or none.                                          *)
AllBuilds ==
    [platform : {"unix", "windows"}, runtime : {"tokio", "async_std"},
     handler : {"none", "default", "configurable"}, enabled : SignalConfigs]

ASSUME SignalAssumption == Builds \subseteq AllBuilds /\ Arriving \subseteq Signals

VARIABLES
    build,
    handling,   \* handling_signals
    spc,        \* what the handler task does next
    pending,    \* signals delivered to the process and not yet received
    killedBy    \* the signal whose default action ended the process

signalVars == <<handling, spc, pending, killedBy>>

Runtime == build.runtime
Handler == build.handler

SignalTypeOK ==
    /\ build \in Builds
    /\ handling \in BOOLEAN
    /\ spc \in {"none", "spawned", "registering", "waiting", "storing", "check",
                "flagged", "done"}
    /\ pending \subseteq Signals
    /\ killedBy \in Signals \cup {"nothing"}

SignalInit ==
    /\ build \in Builds
    /\ handling = FALSE
    /\ spc = "none"
    /\ pending = {}
    /\ killedBy = "nothing"

-----------------------------------------------------------------------------
(* Builds whose task waits for no stream but polls every 100 ms. *)
Polls ==
    /\ Runtime = "async_std"
    /\ Handler = "configurable" \/ build.platform = "windows"

(* Of these, the one with a Ctrl+C flag to look at. *)
HasFlag == Polls /\ Handler = "default"

(* A stream replaces the default action for good.  The configurable Unix   *)
(* handler makes two if either of them is enabled.                         *)
Streams ==
    CASE Handler = "none" -> {}
      [] Handler = "default" /\ build.platform = "unix" -> {"TERM", "INT", "QUIT", "HUP"}
      [] Handler = "default" /\ build.platform = "windows" -> ConsoleEvents
      [] Runtime = "async_std" -> {}
      [] build.platform = "windows" -> {"CTRL_C", "CTRL_BREAK"}
      [] build.enabled \cap {"TERM", "INT"} # {} -> {"TERM", "INT"}
      [] OTHER -> {}

(* The streams the handler's select! or loop listens to: only on Unix does *)
(* what was enabled count.                                                 *)
Listens ==
    IF Handler = "configurable" /\ build.platform = "unix"
    THEN Streams \cap build.enabled ELSE Streams

Registered == spc \in {"waiting", "storing", "check", "flagged", "done"}

Delivered(sig) ==
    /\ sig \in Arriving
    /\ sig \in IF build.platform = "unix" THEN UnixSignals ELSE ConsoleEvents
    /\ IF Registered /\ sig \in Streams
       THEN pending' = pending \cup {sig} /\ UNCHANGED killedBy
       ELSE killedBy' = sig /\ UNCHANGED pending
    /\ UNCHANGED <<build, handling, spc>>

-----------------------------------------------------------------------------
Spawned ==
    /\ spc' = IF Handler = "none" THEN "none" ELSE "spawned"
    /\ UNCHANGED <<build, handling, pending, killedBy>>

(* A step of the handler task from one place to another. *)
Goes(from, to) ==
    /\ spc = from
    /\ spc' = to
    /\ UNCHANGED <<build, killedBy>>

(* handle_signals: the compare-and-exchange of handling_signals ...        *)
BeginHandling ==
    /\ Goes("spawned", "registering")
    /\ handling' = TRUE
    /\ UNCHANGED pending

(* ... and the streams.  The tokio loops begin with the wait, the          *)
(* async-std loops with the test of handling_signals; with no stream the   *)
(* configurable tokio handler returns.                                     *)
Register ==
    /\ Goes("registering", IF Runtime = "async_std" THEN "check"
                           ELSE IF Streams = {} THEN "done" ELSE "waiting")
    /\ UNCHANGED <<handling, pending>>

(* Faulty: initiate_shutdown's answer is not looked at, the loop goes on.  *)
ReceiveIgnoringAnswer(won) ==
    /\ ~Polls
    /\ \E sig \in pending \cap Listens : pending' = pending \ {sig}
    /\ Goes("waiting", "check")
    /\ UNCHANGED handling

(* A stream delivers: the loop ends if this initiated the shutdown. *)
Receive(won) ==
    /\ ~Polls
    /\ \E sig \in pending \cap Listens : pending' = pending \ {sig}
    /\ Goes("waiting", IF won THEN "storing" ELSE "check")
    /\ UNCHANGED handling

(* The rest of initiate_shutdown. *)
FinishInitiating ==
    /\ Goes("storing", "done")
    /\ UNCHANGED <<handling, pending>>

(* The test of handling_signals, and of the flag where there is one. *)
CheckHandling ==
    /\ Goes("check", IF handling /\ ~(HasFlag /\ pending # {}) THEN "waiting"
                     ELSE IF HasFlag THEN "flagged" ELSE "done")
    /\ UNCHANGED <<handling, pending>>

(* The sleep of a polling handler ends. *)
PollAgain ==
    /\ Polls
    /\ Goes("waiting", "check")
    /\ UNCHANGED <<handling, pending>>

(* The flag is read once more behind the loop. *)
FlagUp(won) ==
    /\ pending # {}
    /\ Goes("flagged", IF won THEN "storing" ELSE "done")
    /\ UNCHANGED <<handling, pending>>

FlagDown ==
    /\ pending = {}
    /\ Goes("flagged", "done")
    /\ UNCHANGED <<handling, pending>>

(* Steps of the task that initiate nothing. *)
HandlerProceeds == BeginHandling \/ Register \/ CheckHandling \/ PollAgain \/ FlagDown

-----------------------------------------------------------------------------
(* Faulty: stop() of the wrong handler. *)
StopNothing == UNCHANGED <<build, signalVars>>

(* stop() only lowers the flag. *)
StopHandling ==
    /\ handling' = FALSE
    /\ UNCHANGED <<build, spc, pending, killedBy>>

HandlerEnded == spc \in {"none", "done"}

=============================================================================
