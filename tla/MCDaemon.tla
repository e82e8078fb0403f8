----------------------------- MODULE MCDaemon ------------------------------
(* Small instances of Daemon for TLC. *)
EXTENDS Daemon, TLC

CONSTANTS s1, s2

Unix(runtime, handler, enabled) ==
    [platform |-> "unix", runtime |-> runtime, handler |-> handler, enabled |-> enabled]
Windows(runtime, handler) ==
    [platform |-> "windows", runtime |-> runtime, handler |-> handler,
     enabled |-> {"TERM", "INT", "QUIT"}]

(* The default handler, which every build has, ... *)
DefaultTokio == {Unix("tokio", "default", {"TERM", "INT", "QUIT"})}

(* ... and one build for each kind of handler loop in signal.rs. *)
MCBuilds ==
    DefaultTokio \cup
    {Unix("async_std", "default", {"TERM", "INT", "QUIT"}),
     Unix("tokio", "configurable", {"TERM", "USR1"}), Unix("tokio", "configurable", {"HUP"}),
     Unix("async_std", "configurable", {"TERM"}),
     Windows("tokio", "configurable"), Windows("async_std", "default"),
     Windows("tokio", "none")}

=============================================================================
