# Specifications of proc-daemon

TLA+ models of the daemon framework in `src/src`, their TLC configurations,
and TLAPS proofs. Paths below are relative to the repository's root directory
(`src/` here): `shutdown.rs` is `src/src/shutdown.rs`.

Run, in this directory:

    tlc -workers 2 -config Shutdown.cfg MCShutdown      # one run
    tlapm ShutdownProofs.tla                            # the proofs of one module
    for m in *Proofs.tla; do tlapm $m; done             # all of them

`PROJECT.json` lists every run with its module and properties, the mapping of
definitions to source lines, the faulty variants ("mutants") each property is
known to reject, the disagreements found between code and documentation, and
the hazards of the code with the properties that watch them.

## 1. The system

proc-daemon is a library: an application registers *subsystems* (async
functions) with a builder, and `Daemon::run` starts them, waits for a shutdown,
and tears them down. It is built for tokio or for async-std, for Unix or for
Windows, and the builds differ in behaviour.

| Component | State | Operations | What makes it correct |
|---|---|---|---|
| Shutdown coordinator (`shutdown.rs`) | flag, reason, time, broadcast channel, one ready flag per subsystem, three timeouts | `initiate_shutdown`, `cancelled`, `wait_initiated`, `ready`, `get_reason`, `get_stats`, `update_timeouts`, the three `wait_for_*` | one initiation wins; every waiter is woken; readers get the winner's reason; timed waits neither give up early nor overrun |
| Subsystem manager (`subsystem.rs`) | per subsystem: state, restart count, task handle; total restarts; event channel | `register`, `start_subsystem`, `stop_subsystem`, `restart_subsystem`, `start_all`, `stop_all`, `get_stats`, `run_health_checks`, events | a task has one handle; stopped means ended; stop returns; counters add up; events tell the state |
| Daemon (`daemon.rs`) | none of its own besides the handles it holds | `run`, `shutdown`, `get_stats` | a shutdown ends `run`; nothing is torn down before; nothing is left running |
| Signal handlers (`signal.rs`) | `handling_signals`, the signal streams or console events | `handle_signals`, `stop` | an enabled signal initiates a shutdown; `stop` ends the task |
| PID file (`daemon.rs`) | a file on disk | `create`, `Drop` | it names a daemon in run, or one that could not remove it |
| Log rotation (`daemon.rs`) | `path` and `path.1` to `path.n`, the open file, its size | `new`, `write`, `rotate_locked` | one log in order, the oldest end lost only, bounded |
| Instance lock (`lock.rs`) | lock file | `lock`, `unlock`, `Drop` | one holder, nobody refused by a dead one |
| Pools (`pool.rs`) | queue of free objects | `get`, return on drop | no object has two users, bounded |
| Metrics (`metrics.rs`) | maps of counters, gauges, histograms | record, snapshot, reset | no increment lost; a snapshot fits together |
| Resource tracker (`resources.rs`) | monitoring task, last sample, history | `start`, `stop`, `Drop`, readers | one sampler; an ordered history; the task ends with the tracker |
| Configuration (`config.rs`, builder in `daemon.rs`) | the configuration, the file, the environment, the hot-reloaded copy | load, set, validate, build, watch | the copy is never torn and catches up; sources have an order |
| IPC (`ipc.rs`) | socket file | `bind`, `connect` | a listener can be reached; other programs' files survive |

How they interact: the builder creates one coordinator, shared by the manager,
every subsystem's `ShutdownHandle`, the signal handler and the daemon. A signal
or `Daemon::shutdown` calls `initiate_shutdown`. Its flag and its channel wake
the main loop (`wait_initiated`) and the subsystems (`cancelled`). The main loop
stops the signal handler and joins its task, calls `stop_all`, which joins each
subsystem's task for 500 ms, aborts it and marks it ready, and then waits in
`wait_for_shutdown` for all ready flags and, if that fails, in the force and
kill waits. `run` holds the PID file guard for its whole length. An application
takes the instance lock around `run` if it wants one instance. The tracker
reports to the metrics collector, whose slow paths take names from the string pool.
The configuration's watcher runs on a thread of its own.

What is hard here: `initiate_shutdown` is four separate accesses seen by other
threads in any state in between; the waits must not miss a notification sent
between two of their steps; manager calls interleave with each other and with
tasks that end, fail, panic or never yield; timed waits are measured through
sleeps that end late; the order of the teardown steps decides whether anything
deadlocks; the two runtimes treat a dropped task handle in opposite ways;
several processes share three files without a common lock; a rotation is many
file system calls, each of which can fail or be the process's last; and a
configuration file is read twice while somebody writes it.

## 2. The modules

| Module | Role | Corresponds to |
|---|---|---|
| `ShutdownLatch` | abstract: opens once with one reason, lets every waiter through | the promise of the coordinator |
| `Shutdown` | detailed initiation protocol; refines `ShutdownLatch` | `initiate_shutdown`, `cancelled`, `wait_initiated`, `shutdown_reason`, `get_reason`, `get_stats` |
| `ShutdownProofs` | TLAPS proofs about `Shutdown` | |
| `ShutdownPhases` | the three timed waits with a clock | `wait_for_shutdown`, `wait_for_force_shutdown`, `wait_for_kill_shutdown`, `ready`, `update_timeouts` |
| `ShutdownPhasesProofs` | TLAPS proofs about `ShutdownPhases` | |
| `SubsystemManager` | threads calling the manager, tasks they spawn | `start_subsystem`, `stop_subsystem`, `stop_task_*`, `restart_subsystem`, `publish_event`, the spawned task body |
| `SubsystemManagerProofs` | TLAPS proofs about `SubsystemManager` | |
| `SignalHandler` | the handler task of every build | `SignalHandler`, `ConfigurableSignalHandler`, Unix and Windows |
| `Daemon` | the whole daemon, composed with `ShutdownLatch` and `SignalHandler` | `Daemon::run`, `Daemon::shutdown`, `start_all`, `stop_all` |
| `DaemonProofs` | TLAPS proofs about `Daemon` with `SignalHandler`, and about `ConfigReload` | |
| `Processes`, `InstanceLock`, `PidFile`, `IpcSocket` | one shared file each | `lock.rs`; `PidFileGuard`; `ipc::unix` |
| `Instances` | processes that use the three files | `run` as far as it touches them, applications, kills, other programs |
| `InstancesProofs` | TLAPS proofs about `Instances` | |
| `RetainedLog` | abstract: an ordered set of pieces that grows at one end and is shortened at the other | the promise of a rotating log |
| `LogRotation` | detailed; refines `RetainedLog` | `RotatingFileWriter` |
| `LogRotationProofs` | TLAPS proofs about `LogRotation`, the refinement among them | |
| `ObjectPool` | strings taken and given back | `ObjectPool`, `StringPool` (`VecPool` is the same queue) |
| `Metrics` | threads that report, callers that read, callers that reset; uses `ObjectPool` | `MetricsCollector` |
| `MetricsProofs` | TLAPS proofs about `Metrics` with `ObjectPool` | |
| `ResourceTracker` | owner, sampling tasks, readers | `start`, `stop`, `Drop`, the loop |
| `ResourceTrackerProofs` | TLAPS proofs about `ResourceTracker` | |
| `Configuration` | configurations as data | defaults, `load_from_file`, `load_with_provider`, `validate` |
| `ConfigReload` | application, editor of the file, watcher | `ConfigBuilder`, `DaemonBuilder::build`, `watch_file`, `config_snapshot` |
| `MC...` | instances for TLC | |

`Daemon` uses the abstract latch in place of the protocol, which is what the
refinement `Shutdown => ShutdownLatch` allows. The latch's actions are used as
they are, except that `Daemon` keeps one more fact of the protocol, `timeSet`:
the time is stored after the flag is raised, and `wait_for_shutdown` fails in
between.

### Granularity

One action is one access to shared state: an atomic operation, a critical
section under one lock, a channel operation, a system call on a shared file, or a
stretch of local code up to the next await. Locks of `parking_lot` are held for one
such section only and never across an await, so they are not modelled as variables;
the log's mutex is, because the process can be killed while it is held.

- `Shutdown`: each caller's program counter `cpc` steps through
  compare-and-exchange, reason, time, send. Each waiter's `wpc` steps through fast
  path, subscription, second look, parked. `rx` is the waiter's receiver. Two
  wait functions, `cancelled` and `wait_initiated`, have the same steps and are
  one process. `runtime` is chosen at the start; the async-std loop is `asleep`,
  left by `Poll` when the flag is up. `DropWait` is the `select!` of the main loop
  dropping the future.
- `ShutdownPhases`: `now` advances only while the daemon's task sleeps, and a
  sleep may end up to `Late` ticks late. The code between two sleeps takes no
  time. The initiator's two halves, and the three stores of `update_timeouts`,
  are separate actions.
- `SubsystemManager`: a call reserves an identity for the task it will spawn
  (`Tasks` bounds the number of starts). `SetState` and `Publish` are the two
  halves of `update_state_with_timestamp`: metadata under the lock, event
  after. A task goes from `running` over `returned_*` (the future is done) to
  `ok`/`err` (the result is recorded); a panic records nothing. `told` is the
  last event a listener who reads them all has seen. Two variables are history:
  `replaced`, the live tasks whose handle was overwritten by a later start, and `ownEnd`,
  the subsystems whose state was last written by their own task (`RecordEnd`), which is
  the one write that is not followed by an event.
- `SignalHandler` and `Daemon`: a *build* is a platform, a runtime, a kind of
  handler and the enabled signals; it is chosen at the start. An operator with
  parameter `won` is a step of the handler that calls `initiate_shutdown`, which
  returns `won`; `Daemon` joins it with the latch's `Open`. `task`, `stop` and
  `ready` are one subsystem's task, the `stop_subsystem` call of `stop_all`, and the
  ready flags. A process killed by a signal or past `run` takes no further step.
- `Instances`: a process is started once, a restart is another process. Files are
  named by the process that created them, so that a path taken over, removed or
  bound again is a different file. Creation of the PID file is open (and truncate),
  then write; `bind` is first bind, look, removal, second bind. `Kill` may come
  anywhere; `flock` then falls to nobody and the files stay. `RemovePid` may fail, as the
  guard ignores the error; `unremoved` remembers who failed. `OtherProgram` puts files
  that are no daemon's on the socket path and takes them away, between any two steps of a
  bind; `late` are the binds that have looked before that and have yet to remove.
  `StrayRemoval` is a `remove_file` that tokio had handed to its pool when its task
  was aborted; `stray` remembers that one has hit something.
- `LogRotation`: a record is the sequence of its *pieces*, each with its own
  identity. The log is what the files hold, `Kept`, and the order in which they are
  read, `Older` (from the highest index to `path`): a set and a relation instead of the
  concatenation of the files, so that a file can be reasoned about by itself.
  A write may take a part; `tracing`'s `write_all` calls again with the `rest`.
  `trouble` remembers that something has failed.
- `Metrics`: a thread reports as the tracker does: gauge, counter, histogram. Each
  caller of `get_metrics` or `reset` has its own place among the three maps, so they
  overlap each other and the reports. `added` is what a counter should read,
  `disturbed` that a reset overlapped a report, `cut` the readers between whose first
  and last map a reset cleared one.
- `ResourceTracker`: a sample is the clock at which it was measured; what was measured
  is left out. `StopAbandoned` drops the future of `stop()` while it waits, which
  `abandoned` remembers.
- `ConfigReload`: the watcher's load is `Look` (does the path exist), `Read` (fast
  path), `ReadAgain` (provider path) and `Store`; the editor truncates and writes in
  place, or replaces the file, or renames it away. A document is the set of fields
  it assigns, a path is what `validate` can tell of it, an Option a set of at most one.

Definitions marked *faulty* are variants of the definition next to them with
one plausible mistake. Nothing uses them; substituting one makes a property
fail.

## 3. The runs

| Run | Distinct states | Shows |
|---|---|---|
| `Shutdown` | 105 000 | three initiators (signal, request, forced), two waiters, one reader, both runtimes: the inductive invariant `IInv`, `NoLostWakeup`, `WinnerDecides`, `NoLoserReason`, `StatsCoherent`; the protocol implements the latch with its fairness, so every waiter leaves |
| `Phases` | 91 000 | the inductive invariant `IInv`, `TeardownBounded`, `NoEarlyTimeout`, and `TeardownEnds` although nobody need be ready |
| `ManagerSafety` | 1 710 000 | unsynchronised callers: the inductive invariant `IInv`, `StopNeverAbandons` |
| `ManagerTurns` | 971 000 | callers taking turns on a subsystem, two subsystems, one with backoff: `StoppedMeansEnded`, `ReadyWhenEnded`, `EventsTellState`, `RestartsAddUp`, and `StopReturns` for subsystems that reach an await |
| `DaemonSignals` | 556 000 | eight builds: the inductive invariant `IInv`, `SignalShutdownIsGraceful`; a shutdown by signal ends `run`; a polling handler that has begun ends with the daemon |
| `Instances` | 1 150 000 | three processes and another program: the inductive invariant `IInv`, `OneInstance`, `PidFileTells`, `ListenerReachable`, `ForeignFilesStay` |
| `LogRotation` | 244 000 | the inductive invariant `IInv`; the files implement one log that loses its oldest end (`ImplementsLog`); rotation keeps the newest piece and, without failures, drops only when the kept files are full |
| `Metrics` | 4 320 000 | the inductive invariant `IInv`, `CountersExact`, `SnapshotCoherent` |
| `ResourceTracker` | 394 000 | the inductive invariant `IInv`, `QuietWhenStopped`, and `TasksEnd` |
| `ConfigReload` | 176 000 | the inductive invariant `ReloadInv`, `NoTornSnapshot`, `EventuallyCurrent` |

Invariants called `IInv`, and `ReloadInv`, are conjunctions, with the type invariant in each.
They are inductive and proved (section 4); besides the strengthenings they state:

- `Shutdown`: `OneWinner`, `NoSpuriousReturn`;
- `ShutdownPhases`: `OkMeansReady` (a wait succeeds only when all are ready),
  `ReadyNoticed` (within one poll);
- `SubsystemManager`: `OneJoinHandle`;
- `Daemon`: `TeardownNeedsShutdown`, `ReturnMeansEnded` (tokio), `AllReadyAtGraceful`;
- `Instances`: `LockTells` (`is_locked` tells the truth, only a running process holds
  the lock), `PidFileNeverLies`;
- `LogRotation`: `SizeBound`, `NoPieceTwice`; `Metrics`: `OneUser`, `PoolBounded`;
- `ResourceTracker`: `OneSampler`, `HistoryOrdered`, `ReadersAgree`;
- `ConfigReload`: nothing but the strengthening of `NoTornSnapshot` (`WatcherSound`).

Two runs check a property the documentation states and the code violates (details
and quotations in `PROJECT.json`, "findings"):

| Run | What TLC shows |
|---|---|
| `DaemonProgrammatic` | `Daemon::shutdown` hangs on the default signal handler |
| `ReloadPrecedence` | a partial configuration file overrides the environment |

### Bounds

- `Shutdown`: three callers are the three places of the library that initiate;
  a fourth would be refused like the third. Waiters and readers do not interact
  with each other, two waiters show a message reaching more than one. The proofs
  below remove these bounds.
- `ShutdownPhases`: timeouts 5/6/7 ticks, updated to 3/8/4, so that an update
  shortens one limit and extends another; polls of 1, 2, 3, 3 ticks reach the cap;
  sleeps span a timeout. `now` is bounded because each wait ends.
- `SubsystemManager`: two threads are enough for any pair of calls on a
  subsystem; three tasks allow a restart of a restarted subsystem while two old
  tasks live; restarts are without delay there (`Backoff` is empty). With turns, two
  subsystems and two tasks; one of the two restarts with exponential backoff,
  initial 1 and capped at 3, so its first delay is 2 and its second is cut to 3, and the
  total of the restarts is a sum of two counts.
- `Daemon`: two subsystems (one aborted while the other ends), one build for every
  kind of handler loop in `signal.rs`, a terminating signal, one that only some
  builds listen to and a console event, at most one programmatic call, since the
  second is refused like a second signal. The number of health-check intervals and
  of signals is not bounded.
- `Instances`: three processes: one that runs, one that races it and one that finds
  what both have left. The other program changes the path as often as it likes. The
  proofs remove the bound.
- `LogRotation`: files of at most 2, two rotated files, records of 1, 2 and 3 (below,
  at and above the limit), four records: the chain is full after three, so that the
  fourth drops one. `Records` is the only counter that is capped.
- `Metrics`: two reporting threads with three reports between them race for the creation
  of every metric, while one caller reads and another resets, as often as they like and
  at once (a thread that does both is one of each); two samples at most let a
  histogram overflow; a pool of one object makes both the reuse of an object and the
  refusal of a returned one happen.
- `ResourceTracker`: three tasks (a start after a stop that was waited for, and one
  after a stop that was not), a history of two, a clock of two ticks besides the first:
  the history is trimmed, and a measurement can fall on the tick of its predecessor.
- `ConfigReload`: two edits (a save, and one that races the load of the first) of a
  full file, a partial one, one that parses and is invalid, and one that does not
  parse. `Settings` lets a check of `validate` that relates two fields fail, and the
  working directory be relative or missing.

`CHECK_DEADLOCK FALSE` is set where the system stops: the teardown returns, the
processes end, nobody logs, reports or edits any more.

### Fairness

Only for what the runtime or the operating system does, and weak except in one place:
a call of `initiate_shutdown` has no await, so the thread on it finishes; a task
that was woken is polled; timers fire and time passes; an aborted task that
reaches an await is dropped; the watcher's thread handles the events it is sent.
Strong fairness is needed for the abort of a sampling task (`Aborted`): the task
passes its await again and again and is there only in between; tokio looks at the abort
each time the task yields.
Nothing makes anybody call `initiate_shutdown`, a wait, the manager, `stop` or
`Daemon::shutdown`, nothing makes a signal arrive, a subsystem return or mark itself
ready, or an editor finish what it writes, and the health-check interval may win the
race in the main loop every time (`IntervalElapsed` is not fair, and the other branch
does not need strong fairness, because the loop looks at the flag).

## 4. The proofs

### The shutdown protocol

`ShutdownProofs` proves for arbitrary sets `Calls`, `Waiters` and `Readers`
(infinite ones included), any reasons and both runtimes, from `ReasonAssumption`
alone:

- `Invariance`: `Spec => []IInv`;
- `TypeCorrect`, `AtMostOneWinner`, `NoWakeupIsLost`, `ReturnsAfterInitiation`,
  `TheWinnerDecides`, `ReadersSeeTheWinner`, `StatisticsCohere`: the safety properties
  of run `Shutdown`;
- `Refinement`: `Spec => ImplementsLatchSafely`, the protocol implements the
  safety part of `ShutdownLatch`.

`IInv` is the conjunction of the properties with two strengthenings. `Seen`
records what program counters and receivers know: a message in a receiver means
the flag is up, a `get_stats` call that collected "shut down" still knows it, and
only the tokio build parks. `Stored` says how far the winner's writes have come, by
its program counter, and that the reason is the default or the winner's. Without
`Stored`, `WinnerDecides` is not inductive: nothing would tie the reason to the
call that is about to return true. Without `Seen`, a waiter could return on a
message from nobody.

`CallerIInv`, `WaiterIInv` and `ReaderIInv` show that a step of each kind of process
preserves `IInv`. The step that carries `NoLostWakeup` is `Recheck`: a waiter
parks only after subscribing and then seeing the flag down, so the message is
still to be sent to a receiver that exists. For the refinement, `Decision` is the
winner's reason (well defined by `OneWinner`) from the compare-and-exchange on,
and a waiter's place in the latch is a function of its program counter;
`Initiate` maps to `Open`, `Call` to `Enter`, the returning steps to `Leave`,
`DropWait` to `Abandon` and everything else to a stutter.

### Several instances

`InstancesProofs` proves for any set of processes, whichever of them use the lock,
from `ProcAssumption` and `ForeignAssumption` (names of processes, of foreign files
and of nothing differ):

- `Invariance`: `Spec => []IInv`;
- `AtMostOneInstance`, `PidFileIsMine`, `NoStalePid` (for `PidFileNeverLies`),
  `ReachesTheListener`;
- `ForeignFiles`: the action property `ForeignFilesStay`.

The argument has two layers. `LockTells` ties the lock to the processes that are
between `lock()` and its drop, and is inductive by itself; `HolderRuns` and `Alone`
follow: if everybody uses the lock, a process in run is the only one. What the PID
file and the socket promise rests on that: the step of a process leaves only its own
claim to be shown, because `Alone` refutes every other one. `OwnPidFile` is needed
between the two halves of the PID file's creation: the file the process has open is
still the one the path names. `PidFileNeverLies` and `ForeignFilesStay` need no lock:
the first because a run removes what it wrote before it ends, unless the file could not
be removed, which `unremoved` tells of whoever wrote last. The second rests on
`RemovesSocketsOnly`: while the path names something that is not a socket, a bind that is
about to remove it has looked before it was put there (`late`); every other bind
goes on only from a socket. That is the window the comment of `bind` admits
(`ipc.rs:16`), and the theorem says that it is the only one. `StrayStep` and `OtherStep`
are the lemmas for what happens outside of any process's run: a stray removal leaves
the lock and the PID file alone, another program never takes a daemon's socket away.

### The timed waits

`ShutdownPhasesProofs`, for any set of subsystems (infinite ones included), from
`TimeoutsAssumption`, `PollAssumption` (polls are positive, the backoff has a cap) and
`LateAssumption` (sleeps end at most `Late` late, whatever `Late` is): `Invariance`,
`ReadinessIsSeen`, `TeardownIsBounded`, `NotTooEarly`.

The bound is an account. `Budget` says of every program point by when it is reached: the
graceful phase ends by its limit plus one poll plus one late sleep (`GracefulOver`), the
force phase that much after it (`ForceOver`), and inside a phase the `wake` of a sleep
keeps to it. `LimitsConfigured` is needed because the limit is read once and
`update_timeouts` may store others meanwhile: each limit is the old or the new one, and a
bound exists for every mixture. `SleepsAreShort` carries `ReadyNoticed`: a sleep began
with somebody not ready, so it ends within a poll of the moment all are. `NotTooEarly`
follows from the guards of the returning steps and `LimitsConfigured`.

### The subsystem manager

`SubsystemManagerProofs`, for any subsystems, threads and tasks, both runtimes, callers
that take turns on a subsystem (`Exclusive`) or not, from `RuntimeAssumption`,
`PolicyAssumption` and `NullAssumption`: `Invariance`, `OneHolder`, `NothingAbandoned`
for all callers, and `StoppedIsTrue`, `EventsAreTrue`, `ReadyIsTrue` for callers that
take turns (without turns they are false, and so the properties say).

The invariant has layers, each proved from those above it. Who holds what:
`OneJoinHandle` with `CallsHold` and `HandlesHold`, which say at which program points a
call has a task and that it is one of its subsystem; without them a call could store
or join somebody else's task. `LiveAreHeld`: a live task is in an entry, with a call,
or was replaced by a restart. `TurnsTaken`: a call that has taken the handle finds none put
back. From these `StoppedHolds` and `EventsHold` say in which steps only the state and
the events may be wrong, which is what makes them right when nobody is in a step: a call
that has set a state keeps `told` behind only up to its `Publish`, whatever the state, and
only `RecordEnd` adds a subsystem to `ownEnd`.
`ReadyIsTrue` is the point where both runtimes differ: the step into `ready` needs the
task to be gone, which `LiveAreHeld` gives under tokio only.

`RestartsCounted` is `RestartsAddUp`: when no call is between the two increments, the total
of all restarts is the sum of the subsystems' counts, and no backoff is longer than the
policy's maximum. The sum is stated without a fold, because its value after a
step would need induction over data: every restart that was counted is a pair of a
subsystem and a number (`Restarted`), and the total is the number of those pairs, less
the calls (`Counting`) that are between the two increments. `Counted` adds that both sets
are finite: the increment of an entry adds one pair and one call (`RestartCounted`), that of
the total takes the call off again (`TotalCounted`), nothing else touches either.
`DelayBound` is about the backoff.

### The daemon

`DaemonProofs`, for any subsystems, any builds and any signals, with the abstract latch and
the signal handler as composed in `Daemon`, from `ConfigurationAssumption`: `Invariance`,
`TeardownFollowsShutdown`, `NothingLeftRunning`, `NothingToWaitFor`, `SignalsAreGraceful`.

`SignalsProgress` and `StopsProgress` are the strengthenings: the handler task that has won
is still storing or the time is set, and has ended when `run` comes to `stop_all`
(that is the join which makes `wait_for_shutdown` find the time); a stop that is done has
marked its subsystem ready and, under tokio, seen its task end. There is one lemma for the
steps of the handler, one for those of a subsystem and its stop, one for `run`.

### The configuration

`DaemonProofs` extends `ConfigReload` too, whose specification has names of its own
(`ReloadInit`, `ReloadNext`, `ReloadSpec`) beside those of `Daemon`. It proves for any
documents (full, partial, invalid), any environments and settings and any number of edits
`NothingTorn` (`[]NoTornSnapshot`), from the inductive invariant `ReloadInv` (lemma
`ReloadInvariance`) and `SetupAssumption`. That says no more than that what documents,
environments and setters assign are fields of a configuration with values of their types.

`Whole` says that a configuration has every field, with a value of its type. `MergedWhole` and `LoadedWhole` show that whatever a file leaves out comes from the
defaults at the bottom of each figment. (`MergedOver` spells the merge out, because
tlapm knows nothing of TLC's `@@`.) `WatcherSound` is the strengthening for
`NoTornSnapshot`: where the file is replaced as a whole, it is there as long as there is a
watch, an event or a load under way, and what the watcher holds between `Read` and `Store` is
a load of a complete version or nothing. Without it `Store` could store anything.

### Metrics and pool

`MetricsProofs`, for any finite set of threads (`PoolAssumption`: the snapshot is off by at
most one record per thread), any readers and resetters, any objects, reports and limits: `Invariance`, `PooledOnce`,
`NoIncrementLost`, `SnapshotsFit`.

The pool's `Get` and `Return` are lemmas of their own; that `Return` does not overfill
the queue and leaves it without duplicates needs `OneUser`, that an object in the queue is in
nobody's hand. `InHand` ties the string of a slow path to the metric it is to create, which is
what keeps an increment from another name. A snapshot is collected map by map, so
`SnapshotCoherent` is not inductive: `MetricsCoherent` states it of the maps themselves, at
any time, with the threads that have counted and not yet recorded (`Pending`) on account,
and `ReadingCoherent` what a half-finished snapshot or reset still knows. Readers and
resetters are any number and run at once; a reset that falls between the maps of a
snapshot does make it incoherent, so `SnapshotsFit` is about the readers that are not in
`cut`; once a reset has overlapped a report it claims nothing (`disturbed`).

### The resource tracker

`ResourceTrackerProofs`, for any tasks, history limit and clock, from `TrackerAssumption`:
`Invariance`, `AtMostOneSampler`, `SamplesInOrder`, `QuietAfterStop`.

`OwnerKnows` is the reason for one sampler: under tokio a live task is the one in
`task_handle` or has been aborted, and then it is the one `stop()` is joining, unless
some `stop()` was dropped while it waited (`abandoned`) or the tracker is gone.
`Joined` excludes the former, and async-std. `SamplesMoveOn` carries the order over the
gap between the two stores of a sample.

### The rotating log

`LogRotationProofs`, for any threads, any lengths of records, any limit and number of files,
any failures and kills, from `SizeAssumption`: `Invariance`, `Refinement` (the files
implement `RetainedLog`), `NewestSurvives`, `FullFilesKept`.

`WriterOnTop` (the writer is on the lowest file there is, and knows its length) and
`RotationSound` (the loop has a hole below its first turn) are what a failed rename, a
failed open and a restart could break, and what makes the bound and the order hold.
`NoPieceTwice` and `RestIsNew` make the pieces of a write new.
For the refinement the log is seen as places: `Sits(F, i, k, p)` says that `p` is the
k-th piece of file i, and `InKept` and `InOlder` turn `Kept` and `Older` into statements about
places. `Ordered` shows that they are an order; `Places` and `Shortened` that a shift or
a removal keeps the places of all other files in order; `OldestDropped` that the
overwritten file was the oldest; `Extended` that a write only adds above the newest
place. With these, `Write` maps to `AppendPieces`, the turn of the loop that overwrites
`path.n` to `DropOldest` (or to a stutter, if that file is empty, as it is in every later
turn), and all else to a stutter. `NewestSurvives` takes the last piece of the file that
exceeds the limit: `WriterOnTop` says that it is the newest and not in the file overwritten.

`FullFilesKept` is `KeepsFullFiles`: without failures a rotation drops pieces only if every
file it keeps was closed by a record that did not fit. The strengthening is `RotatedFull`:
each rotated file had no room for some record that would fit in an empty one, because that
is when it was rotated (`RotationSound` remembers it while the loop runs), and the chain of
files has no gap but the one the loop is moving down. `ShiftFull` and `WriteFull` carry it over the two kinds of step;
`ManyPieces` adds up the pieces of the files with cardinalities of disjoint sets in place of a
sum.

### Only model-checked

- Liveness (fairness is beyond the prover): `ImplementsLatch`, `TeardownEnds`,
  `StopReturns`, `SignalShutdownReturns`, `PollingHandlerStops`, `TasksEnd`,
  `EventuallyCurrent`.

Every other property of the passing runs, that is every invariant and every action property,
and the safety part of each refinement, is stated by a theorem.

## 5. What is left out

- Memory ordering: accesses are sequentially consistent in the models. The fast
  paths of the waits load the flag relaxed; a stale `false` there is what the
  second look (acquire) is for, a stale `true` cannot be read.
- The async-std runtime ends the process when a joined task has panicked; in the
  model a panic is an end like another.
- Windows named pipes (`ipc.rs`), which leave no file behind; the platforms' sampling
  of memory and CPU, and so every number in a sample but its time; the health checks
  (their result is only logged); statistics and clones of the manager; what a `Timer`
  measures (that it records once or twice is in `Metrics`).
- `coord.rs` and `profiling.rs` are thin wrappers, `error.rs` and `lib.rs` have no
  state. Parsing is left to the libraries.

Behaviours of the code that are at odds with a sentence of the documentation, or
surprising enough to note. The models have them unless the item says otherwise, and
the properties are stated so that they allow for them.

Shutdown and subsystems:

- A graceful timeout never turns the reason into `Forced`: the promotion calls
  `initiate_shutdown`, which refuses every call after the first (`shutdown.rs:421`).
- Readers are told the default reason between the exchange and the store of
  the winner's (`shutdown.rs:209`).
- `wait_for_shutdown` fails at once with "Shutdown time not set" between those two
  halves (`shutdown.rs:364`), which costs the kill timeout.
- Its last sleep spans the timeout, and the elapsed time is tested before the
  readiness (`shutdown.rs:388`): all ready, yet a timeout.
- The kill timeout is waited for after a force phase that succeeded
  (`daemon.rs:398`).
- `stop_all` gives each task a fixed 500 ms and aborts it (`subsystem.rs:586`), before
  the graceful wait and whatever `graceful_timeout_ms` is.
- After the abort the task is awaited without a limit (`subsystem.rs:587`): a subsystem
  that never reaches an await blocks the teardown. `ManagerTurns` has `MayBlock` off.
- Under async-std a task whose join timed out is detached and runs on
  (`subsystem.rs:610`).
- A task that ends before `start_subsystem`'s last line has its Stopped or Failed
  overwritten by Running (`subsystem.rs:456`), and one that panics records nothing.
- `restart_subsystem` starts a task without stopping the old one
  (`subsystem.rs:717`), and the first delay is twice the initial one
  (`subsystem.rs:692`, `955`).
- `stop_subsystem` without a handle leaves the state at Stopping (`subsystem.rs:564`).
- A subsystem started again is still marked ready (`shutdown.rs:244`).
- A task's own end changes the state and publishes no event (`subsystem.rs:399`). That
  is against `subsystem.rs:214`, "Subsequent state changes will emit `SubsystemEvent`s",
  and `docs/API.md:475`, "Push-based notifications". `EventsTellState` is what
  remains true: it excepts the states that the task wrote last (`ownEnd`), and no state,
  Stopped and Failed included, that a call of the manager wrote.
- A failed subsystem is not restarted (`daemon.rs:324`), and a daemon whose
  subsystems have all completed goes on (`daemon.rs:307`).

Signals:

- `stop()` before the handler task has begun is lost (`signal.rs:644`).
- The configurable handler listens to SIGTERM and SIGINT only, whatever else is
  enabled (`signal.rs:562`); a signal without a stream ends the process.

Files:

- The PID file guard ignores the error of its `remove_file` (`daemon.rs:73`), so the PID
  of a run that has ended may stay until the next run overwrites it.
  `PidFileNeverLies` names this case.
- Between the look of `bind` at the path and its removal another program may put a file
  there, which is then removed (`ipc.rs:55`); the comment at `ipc.rs:16` admits it.
- The removal runs on a thread for blocking calls. If the subsystem that binds is
  aborted there, the removal is carried out all the same, maybe after `run` has returned
  and the lock was dropped, and may hit the socket of the next instance.
  `ListenerReachable` excludes such histories (`stray`).
- Relative paths of the PID file and of the log are validated by `build` against one
  directory and opened after `run` has entered another (`daemon.rs:261`): what was
  validated need not be what is opened. Not modelled; no property claims that a
  configuration which was built can be run.

Log, resources, metrics:

- A record larger than the limit rotates a file that may be empty (`daemon.rs:149`).
- A failed rename or open loses the record that caused the rotation, and after a
  failed open the writer goes on with the file that is now `path.1` (`daemon.rs:125`).
- CPU percentages can be far above 100, against the "0-100" of `resources.rs:121` and
  `166`: the first of a task counts the CPU time since the start of the process
  (`resources.rs:341`), a child's whole CPU time arrives when it is reaped
  (`resources.rs:662`), and whole jiffies of 10 ms are divided by an interval that late
  ticks make short (`resources.rs:632`). Not modelled: there is no bound to state.
- `stop()` takes the handle before it awaits the task (`resources.rs:495`). If its future
  is dropped there, the tracker can be started again while the old task has its
  abort still to come, and two tasks publish. `OneSampler` and its like exclude such
  histories (`abandoned`).
- A reset by one thread between two maps of another's `get_metrics`
  (`metrics.rs:173`, `207`) yields counters without their gauges: `SnapshotCoherent`
  excludes the readers it cuts (`cut`).
- A panic in the alert callback ends the sampling task; the handle is kept, and
  `start()` then does nothing (`resources.rs:327`).
- Under async-std `stop()` and `Drop` detach the task, although the comments say that
  dropping the handle cancels it (`resources.rs:507`, `878`).
- `Timer::stop` records the duration, and the `Drop` it runs into records it again
  (`metrics.rs:260`); `BeginReport` chooses between the two.

Configuration:

- A full TOML file has no effect: its values go into the profile "file" and `extract`
  takes the profile "default" (`config.rs:244`). A reload of such a file stores defaults
  and environment, against `daemon.rs:542` ("reflects the most recent loaded
  configuration"), `docs/API.md:737` and `README.md:526` ("Edit `daemon.toml` to see the
  daemon pick up changes"). `EventuallyCurrent` is about files that set a part of the
  fields, or are JSON (`Heeded`), for which it asks for the file's own values.
- A reloaded configuration is stored without validation (`daemon.rs:797`), and the
  running daemon keeps its first one.
- `run` changes the working directory, after which a relative path of the watcher
  names another file, usually none: the next event stores the defaults
  (`daemon.rs:261`). `NoTornSnapshot` and `EventuallyCurrent` exclude it by `moved`.
- A watch belongs to the file: after a rename nothing is reported any more
  (`config.rs:597`). `EventuallyCurrent` excludes it by `watch`, and is therefore about
  files that are edited in place; of the editors that save by renaming, the first save
  is reported and no other.
- A file that is saved in place can be loaded while it is empty, which yields the
  defaults; `NoTornSnapshot` is about files that are replaced.
- Opening the file to load it is an event on Linux, which loads it again
  (`config.rs:578`).

## 6. Plan

Done: the models, in the order `ShutdownLatch`, `Shutdown`, `ShutdownPhases`,
`SubsystemManager`, `Daemon`, `SignalHandler`, `Instances` and its parts, `LogRotation`,
`ObjectPool`, `Metrics`, `ResourceTracker`, `ConfigReload`; the proofs of section 4.

Left: the liveness properties, which only TLC checks, and the parts of section 5. If the
results of the health checks come to act on a subsystem, `SubsystemManager` is where they
belong.
