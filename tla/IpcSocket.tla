----------------------------- MODULE IpcSocket -----------------------------
(***************************************************************************)
(* ipc::unix::bind and connect of src/src/ipc.rs: the socket file of the   *)
(* control channel.  A listener that ends leaves its file behind, so bind  *)
(* removes a socket it finds and binds again; look, removal and second     *)
(* bind are separated by awaits, and other programs use the path, too.     *)
(***************************************************************************)
EXTENDS Processes

VARIABLES
    sockPath,   \* what the path names: a file of one of Foreign, the socket
                \* bound by a process, or NoProc
    bind,       \* how far each process's bind has come
    late        \* history: the binds between look and removal that looked before
                \* another program put there what the path names now

sockVars == <<sockPath, bind, late>>

(* What a process may find that no process of the model has made: a socket
   without a listener, or a regular file, a symlink and the like. *)
Foreign == {"stale_socket", "other_file"}
Sockets == Procs \cup {"stale_socket"}

ASSUME ForeignAssumption == Foreign \cap (Procs \cup {NoProc}) = {}

SockTypeOK ==
    /\ sockPath \in Procs \cup Foreign \cup {NoProc}
    /\ bind \in [Procs -> {"none", "in_use", "is_socket", "removed", "bound", "failed"}]
    /\ late \subseteq Procs

SockInit ==
    /\ sockPath \in Foreign \cup {NoProc}
    /\ bind = [p \in Procs |-> "none"]
    /\ late = {}

(* Another program puts a file where there is none, or replaces or removes one
   of its own; it leaves the sockets of the daemons alone. *)
OtherProgram ==
    /\ sockPath \notin Procs
    /\ sockPath' \in (Foreign \cup {NoProc}) \ {sockPath}
    /\ late' = {p \in Procs : bind[p] = "is_socket"}
    /\ UNCHANGED bind

At(p, before, after) ==
    /\ bind[p] = before
    /\ bind' = [bind EXCEPT ![p] = after]

(* UnixListener::bind: creates the file, or fails with AddrInUse if the path
   names anything, dead or alive; other errors end the call at once. *)
FirstBind(p) ==
    /\ \/ sockPath = NoProc /\ At(p, "none", "bound") /\ sockPath' = p
       \/ sockPath # NoProc /\ At(p, "none", "in_use") /\ UNCHANGED sockPath
       \/ At(p, "none", "failed") /\ UNCHANGED sockPath

(* faulty: the file type is not looked at *)
InspectNothing(p) ==
    /\ At(p, "in_use", "is_socket")
    /\ UNCHANGED sockPath

(* symlink_metadata: only a socket is removed. *)
Inspect(p) ==
    /\ At(p, "in_use", IF sockPath \in Sockets THEN "is_socket" ELSE "failed")
    /\ UNCHANGED sockPath

(* remove_file: removes what the path names now; an error ends the call. *)
RemoveSocket(p) ==
    \/ sockPath # NoProc /\ At(p, "is_socket", "removed") /\ sockPath' = NoProc
    \/ At(p, "is_socket", "failed") /\ UNCHANGED sockPath

SecondBind(p) ==
    \/ sockPath = NoProc /\ At(p, "removed", "bound") /\ sockPath' = p
    \/ At(p, "removed", "failed") /\ UNCHANGED sockPath

Bind(p) ==
    /\ FirstBind(p) \/ Inspect(p) \/ RemoveSocket(p) \/ SecondBind(p)
    /\ late' = IF sockPath' = sockPath THEN late \ {p} ELSE {}

(* The task that serves is dropped, its listener closed, the file left.  A
   remove_file that was handed to a thread for blocking calls is not undone. *)
DropListener(p) ==
    /\ bind' = [bind EXCEPT ![p] = IF @ = "is_socket" THEN @ ELSE "none"]
    /\ UNCHANGED <<sockPath, late>>

(* The process ends. *)
CloseSocket(p) ==
    /\ bind' = [bind EXCEPT ![p] = "none"]
    /\ late' = late \ {p}
    /\ UNCHANGED sockPath

(* connect reaches the listener that made the file the path names. *)
Connects(p) == sockPath = p /\ bind[p] = "bound"

=============================================================================
