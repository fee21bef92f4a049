# A TLA+ model of the AL language server and daemon

This directory holds a TLA+ model of the concurrent core of the AL tooling for
Zed (the Rust workspace under `crates/`), the TLC configurations that check it
on small instances, and TLAPS proofs of its safety properties for every
instance. `PROJECT.json` maps every definition to the source lines it stands
for and lists runs, mutants, findings, hazards and theorems.

## 1. The system

The repository builds one server binary, `al-lsp`, which runs as a language
server (stdio), as a per-project daemon (local socket) or as an MCP server
(stdio), and `al-explorer`, a command line and terminal client of the daemon.
All of them share the crates below.

| Part | State it keeps | Operations | Why it is hard |
|---|---|---|---|
| Workspace graph caches (`al-workspace/src/lib.rs`) | five optional caches behind five RwLocks, two revision counters, a build mutex, a dependency source index, build progress | `get_or_build_call_graph`, `complete_workspace_call_edges`, `invalidate_insight_graph`, `invalidate_call_graph_only`, the edit handlers that call them | a build takes up to 86 s and reads the indexes without a lock while edits run; the caches are published under five locks and reset one at a time |
| Semantic bridge (`al-semantic/src/bridge.rs`, `al-workspace/src/semantic_lifecycle.rs`) | the installed bridge generation, its timeout stamp, a process-wide call gate, a lifecycle mutex, the restart counter | `get_or_init_bridge`, `restart_bridge_if_current`, `shutdown_bridge`, `call_with_timeout`, `cooldown_gate` | a call into the CLR cannot be cancelled and may hang; failures of an old generation arrive late; init, restart and shutdown interleave |
| Daemon lifecycle (`al-lsp/src/server/daemon/mod.rs`) | activity clock, in-flight counter, loading flag, connection permits, shutdown notification, the bound socket | accept, per-connection reading, dispatch, idle reaper, project load, drain | a request may arrive between two reads of the reaper; every permit must come back; a drain may wait for an idle connection |
| Daemon endpoint and client (`daemon/mod.rs`, `al-protocol/src/client/mod.rs`) | the socket path, the spawn lock file, listening daemons | connect, spawn lock, spawn, wait, handshake, replace, `clear_endpoint`, bind, `cleanup_socket` | separate processes race on file names; a process may die anywhere |
| Language server publication (`al-lsp/src/server/lsp`, `server/workspace`, `server/commands.rs`) | the generation (file index, symbol index, project, package list, configuration), its lock, two revisions, staged generations, running tasks | startup, `al.reindex`, downloads, configurations, did_open/change/close, watched files, shutdown, read requests | a generation is staged for seconds without the lock and published in several swaps; tasks are aborted; requests read without the lock |
| Diagnostics publication (`al-lsp/src/server/diagnostics.rs`, `server/lsp`) | the list each file shows, compiler and transaction caches, the set of published files, debounced tasks per file and for the project | `publish_diagnostics`, transaction refresh, project pass, project compiler pass, clear on close | every list replaces the last one, and results arrive after a newer text, an abort or a close |
| Debug adapter (`al-dap`) | session state, pending requests, event queue | DAP requests, server events, reconnect | two peers and a server that answer in any order |
| Document store and file index (`al-source`) | texts, trees, positions | open, change, close, scan | sequential data structures, incremental edits |
| Source summary cache (`al-workspace/src/source_cache.rs`) | files on disk | load, store, evict | several daemons share the directory |
| Symbols, insight graphs, analysis, emission, interpreter, compiler driver, publishing, BC client, parser, UI | pure data or external I/O | | large sequential code, no shared mutable state of their own |

How the parts interact. A front end (language server task, daemon request, MCP
call) reads and edits the shared `Workspace`. An edit changes the document store
and the file index first and then calls one of the two invalidators of the graph
caches; a query asks `get_or_build_call_graph` for the pair of graphs and keeps
the returned read guard while it walks them. Hover, completion and diagnostics
take a read guard of `Workspace.semantic` through `get_or_init_bridge`, call the
bridge, drop the guard and, when the call failed, ask for a restart of the
generation they used. The daemon starts a warm-up query after its load, refreshes
the workspace from disk before each request and stops when it is idle.

What makes the parts correct:

- graph caches: an answer contains every edit acknowledged before the request;
  the cached graphs belong together; one build per cause; progress is honest; no
  request and no edit waits for ever;
- bridge: one call at a time inside the CLR over all generations; nobody loses
  its bridge during a call; a late failure does not take down a healthy bridge;
  failed starts are capped; every caller returns although calls hang;
- daemon: work that lasts is not cut off by the idle reaper; nothing is served
  from a half loaded project; the daemon eventually stops; every request that
  was read is answered before its connection closes;
- endpoint: a daemon that listens is reachable; at most one daemon serves a
  project once the clients have settled;
- generation: what is published belongs together; open texts are never hidden by
  a scan; an accepted answer was read from the current generation; a task that
  staged for long publishes nothing older; every task ends however fast the user
  types;
- diagnostics: an open document never gets the findings of an older text, a
  closed one keeps none of a discarded text, and the last text is published.

## 2. Modules

| Module | Models | Kind |
|---|---|---|
| `GraphCache` | the graph caches of `Workspace` | component |
| `GraphService` | what a caller of `get_or_build_call_graph` may rely on | abstract specification |
| `GraphCacheProofs` | the invariant of `GraphCache` and what follows from it | proofs |
| `GraphServiceProofs` | `GraphCache` implements `GraphService`, builds once per cause and does not deadlock | proofs |
| `MCGraphCache` | thread sets and symmetry for TLC | instance |
| `SemanticBridge` | bridge calls and bridge lifecycle | component |
| `BridgeService` | what a user of the bridge may rely on | abstract specification |
| `SemanticBridgeProofs` | theorems about `SemanticBridge`, that it implements `BridgeService` included | proofs |
| `MCSemanticBridge` | caller sets and symmetry for TLC | instance |
| `Generation` | the published generation of the language server and its tasks | component |
| `GenerationProofs` | theorems about `Generation` | proofs |
| `MCGeneration` | file, task, request and path sets for TLC | instance |
| `Diagnostics` | the diagnostics the editor shows and the tasks that send them | component |
| `DiagnosticsProofs` | theorems about `Diagnostics` | proofs |
| `MCDiagnostics` | file, task and finding sets and symmetry for TLC | instance |
| `DaemonEndpoint` | clients and daemons that find, start, replace and stop one another | component |
| `DaemonEndpointProofs` | theorems about `DaemonEndpoint` | proofs |
| `MCDaemonEndpoint` | client, daemon and build sets and symmetry for TLC | instance |
| `DaemonLifecycle` | one daemon from its accept loop to its end, with its connections | component |
| `DaemonLifecycleProofs` | theorems about `DaemonLifecycle` | proofs |
| `MCDaemonLifecycle` | connection and request sets and symmetry for TLC | instance |

### GraphCache

Threads are `Queries` and `Editors`. One step is one atomic access of the code:
an acquisition of the build lock, `insight_graph` or `call_graph`, a load or
store of a revision, or one read of the indexes by a build. The fingerprint lock
and the two revision locks are innermost, so taking and using them is part of
the step that needs them.

| Code | Actions |
|---|---|
| `get_or_build_dependency_source_generation` | `ReadFingerprint`, `LoadSources`, `SourcesFail` |
| fast path and re-check of `get_or_build_call_graph` | `ReadRevision`, `CloneInsight`, `LockCalls`, `Check` (with `IsHit`), `AcquireBuildLock` |
| the build | `TagBuild`, `BuildNodes`, `BuildEdges`, `BuildFails` |
| the publication | `PublishInsight`, `PublishCalls`, `PublishAll`, `MarkReady`, `Reread` |
| the caller's use of the guard | `DropGuard` |
| `complete_workspace_call_edges` | `Begin(q, "complete")`, then the query, then `FillLock`, `FillInsight`, `FillCalls`, `Fill`, `FillFails` |
| `on_document_change`, `on_document_close`, `refresh_workspace_files`, `apply_disk_changes`, `refresh_package_folders` | `EditBody`, `EditTopology`, then `BumpRevisions`, `ResetInsight`, `ResetCalls`, `ResetCallsRev`, `ResetFingerprint` |
| a package replaced by another program | `ReplacePackage` |

Data: a content is its version number; a graph remembers the version it was read
from, its build number and its revision tag. Several files are read during
`BuildNodes` and `BuildEdges`; the model reads them in one step, which is the
last moment at which any of them could have been read too early, because a read
that happens later sees a newer version. Poisoning of `call_graph_build_lock` (a
panic during a build) and of `call_graph` (a panic while edges are completed) is
modelled, and so is its repair by `reset_optional_cache`. A panic while the
packages are read poisons `dependency_source_index`, in the re-check
`call_graph_build_lock` too, after which every query returns an error
(`SourcesFail`). Under the other locks caches are only cloned, compared and
assigned.

`need`, `needTopo`, `needPkgs`, `ackAt`, `ackTopo` and `causes` are history
variables: what had been acknowledged when a request started, which edits a
revision covers, and how many events there were after which a rebuild is
legitimate. No action reads them in a guard.

### GraphService

The contract: versions grow, edits are acknowledged, a caller is answered with a
version between the one acknowledged when it asked and the current one, or with
nothing; the answer does not change while it is held. `ImplementsService` states
that `GraphCache` implements it, with `files` for the version, the acknowledged
edit of the current revision for `acked`, and `CallState` for the callers.

### SemanticBridge

| Code | Actions |
|---|---|
| `get_or_init_bridge` | `UseBridge`, `FastRead`, `LockLifecycle`, `Reread`, `InitSucceeded`, `InitFailed` |
| `init_bridge_inner` | `CreateBridge`, `Install` |
| `cooldown_gate` | `PassGate`, `Probe` |
| `call_with_timeout` | `EnterClr`, `GiveUpQueue`, `ClrReturns`, `TimeOut` |
| the callers' error handling | `Done`, `Failed` |
| `restart_bridge_if_current` / `restart_bridge_inner` | `LockLifecycle`, `RestartCheck`, `RestartTake`, `RestartCount`, then the init, then `RestartSettled` |
| `shutdown_bridge` | `Shutdown`, `LockLifecycle`, `ShutdownTake` |
| a caller aborted by `schedule_diagnostics`, at any await of the above | `Abort`, `AbortSettling` |
| the blocking init of a caller that was aborted | `OrphanEnds` |
| project load, the clock | `FindToolchain`, `Tick` |

A stamp is kept as its age in cooldown ticks, saturating at `Cooldown`: the gate
compares nothing else. A call may be given up at any moment and its blocking
task goes on, possibly for ever.

Cancellation. A debounced run is aborted by the keystroke that replaces it, and
its future is dropped at the await where it stands (`AwaitSteps`): read guard and
lifecycle lock are released, a bridge it created and did not install is dropped.
The blocking init it awaited runs on (`orphans`), possibly beside the init of the
next caller; its bridge is dropped with the result of the task, and its failure is
counted by nobody. A restart that is aborted after it took its slot keeps the slot
used. In the code only debounced runs are aborted; in the model any caller may be,
a shutdown too. `failedInits`, `newest` (the newest generation that was installed)
and `lost` (the inits whose caller was aborted before it could count their result)
are history variables.

### BridgeService

The contract: at most one generation is installed and each is newer than all
before it; a caller that uses one keeps it until it leaves, since a stop waits for
all users; one call at a time runs in the CLR, begun by a user of its generation
and possibly outliving that use. `ImplementsBridge` states that `SemanticBridge`
implements it. A caller uses the generation its read guard protects (`Using`), and
a generation counts from its installation on (`newest`). The contract does not say
that inits exclude one another or that every runtime that is started is installed,
because an aborted initializer breaks both: `Start` may leave a gap in the
generations. `OneClrCall` and `GuardPinsBridge`, which say part of the contract of
the states of `SemanticBridge`, are theorems; the run checks the contract.

### Generation

| Code | Actions |
|---|---|
| `did_open`, `did_change`, `did_close` | `DidOpen`, `DidChange` (both `Edit`), `DidClose`, `RestoreClosed` |
| `did_change_watched_files`, `refresh_manifest_files` | `WatchedSource`, `WatchedManifest`, `ReadManifest` |
| `al.reindex`, `al.downloadSymbols`, `did_change_configuration` | `StartReindex`, `StartDownload`, `StartConfigure`, `ConfigureOther` |
| `initialize_workspace`, staging | `Discover`, `Scan`, `Load`, `StagingFails` |
| `refresh_current_symbol_generation`, staging | `Fetch`, `Snapshot`, `Stage` |
| the publications | `TakeLock`, `TakeProjectLock`, `ClearFiles`, `SwapFiles`, `ClearSymbols`, `SwapSymbols`, `SwapProject`, `Revise` |
| `offload_after_ready` | `Ask`, `GiveUp`, `ReadRevision`, `ReadSymbols`, `ReadFiles`, `CheckRevision` |
| an aborted task, shutdown | `Cancel`, `Shutdown` |
| other programs | `ChangeSource`, `ChangePackages`, `ChangeManifest` |

A handler of the editor holds the write lock from its first to its last change
and is one step; `did_close`, which lets go of the lock to read the saved source,
is two. A publication is a sequence of swaps, because a request holds no lock and
may read between any two of them. A task that was aborted ends where it awaits,
and it awaits nowhere between the swaps: that is a fact about the code, and
`AwaitPoints` is where it enters the model.

Data: versions of what is on disk; a list of packages is the folder it was found
in and the folder's version. A revision is only ever compared with an earlier
reading, so the model keeps the set `current` of actors whose reading is up to
date: a move of the revision takes actors out of it. The editor's texts alternate
between two, so that typing never ends and the state space does. Left out: the
trust decision, settings other than the package path (they only move the
revision, `ConfigureOther`), roots that are no files, a manifest that is deleted,
worker panics, and the symbols that graph builds add for the project's own
objects.

### Diagnostics

| Code | Actions |
|---|---|
| `did_open`, `did_change` | `DidOpen`, `DidChange` (both `Store`), `Indexed`, `IndexFails`, `Arm` |
| `did_save`, `al.lintFile` | `DidSave`, `AfterSave`, `LintFile` |
| `did_close` | `DidClose`, `CloseRead`, `CloseRestore` |
| `did_change_watched_files` | `DidChangeWatchedFile`; `DiskChange` is the other program |
| `publish_diagnostics` | `Wake`, `Check`, `Record1`, `Phase1`, `Bridge`, `Record2`, `Phase2` |
| `schedule_transaction_refresh` | `TxWake`, `TxRecord`, `TxPublish` |
| `publish_workspace_diagnostics_parts` | `PassWakes`, `Stage`, `StageFails`, `Merge`, `Send` |
| `run_project_semantic_analysis` | `AnalyzeProject`, `AnalyzeProjectFails`, `InsertResults` |
| an aborted task | `CancelRun`, `CancelPass` |

A run publishes one file, a pass the project. A handler holds the generation lock
in write mode for one step, with one exception: `did_open` and `did_change` store
the document in one step and index it in the next, and `did_change` awaits its
index worker in between. The lock is held all the time (`NoWriter`), so the checks
before a send, the passes and the other handlers wait; but a save, a debounced
wake, `al.lintFile` and the native pass of a run take no lock and may meet the new
text with the old index. Writers wait while a pass holds the lock in read mode
(`NoReader`).

A text is a stamp, the version the editor gave it and the kinds of findings it
has: native ones of its own syntax, project ones of the rules that read the index,
transaction and compiler findings. A list names for each kind the text its
findings are about. `unmoved` stands for the revision a pass compares: the passes
that staged since the generation last moved. `settings` are fixed for a behaviour
and say what may fail in it (`Faults`): the read of a closed file, the read behind
a file event, a project pass, the worker that indexes an edit, a native worker. A
native worker that fails leaves an empty list, which is published; an index worker
that fails ends `did_change` with the index old or new and nothing armed. A task
that has been aborted may still run to its next await, so here it may go on or end
at any step.

History variables, which no guard reads: `onDisk`, the texts a file has had on
disk; `failed`, the documents on whose text of now a worker failed; `ahead`, the
documents whose text of now was linted before the index had it. The last two are
the exceptions of `FreshWhenSent` and `OpenTextIsShown`: in these two cases the code
sends, and may leave, a list that is not that of the text.

Left out: startup and `al.reindex`, which replace the file index under native
passes that take no lock, clear the compiler cache and end with a pass of their
own (`server/workspace/mod.rs:469-491`; how they publish the index is in
`Generation`); texts the document store rejects, a configuration that changes the
scope, trust decisions, pull diagnostics, the lists that tests and `al.compile`
send, and the end of the session.

### DaemonEndpoint

The processes share the endpoint path and the spawn lock file and nothing else.
Each system call on them is a step; a socket is named after the daemon that
bound it, so `path` is at once the file and its inode.

| Code | Actions |
|---|---|
| `clear_endpoint` | `Probe`, `Clear` |
| bind and listen in `run_daemon`, `BoundSocket::at` | `Bind`, `Listen`, `Record` |
| the accept loop, seen from outside | `Accept`, `StopServing` |
| `still_ours`, `cleanup_socket`, the end of the process | `CheckOwn`, `RemoveOwn`, `Close` |
| `DaemonClient::connect`, `connect_existing` | `Begin`, `Connect` |
| `try_acquire_spawn_lock` | `CheckLockAge`, `DropOldLock`, `CreateLock` |
| `connect_or_spawn` under and beside the lock | `Recheck`, `Unlock`, `WaitForOther` |
| `start_daemon`, `wait_for_daemon` | `Spawn`, `SpawnFails`, `WaitConnect`, `WaitChild`, `GiveUpWait` |
| `connect_checked_within`, the build check and the replacement | `Handshake`, `AskStop`, `WaitClosed`, `Rehandshake` |
| `cmd_daemon_shutdown` | the same steps taken by a client of `Stoppers` |
| a killed process, a lock that grows old | `KillDaemon`, `KillClient`, `AgeLock` |

Time. A wait may end by its limit at any moment at which it could still be
waiting. The lock grows stale only when nobody holds it any more and no daemon
is starting: `STALE_LOCK_AGE` is six times the longest wait under the lock. A
daemon that needs longer than `wait_for_daemon` waits is a slow start and counts
against `MaxSlowStarts`. A system clock that jumps while the lock is held, the
environment switch that allows a build mismatch, and the Windows pipe are left
out.

### DaemonLifecycle

What `DaemonEndpoint` sees as `serving` and `drain`, in detail. The accept loop,
the load task, the reaper, one task per connection and one per request run
concurrently; a step is one access to what they share.

| Code | Actions |
|---|---|
| the select of `run_daemon` | `Accept`, `SeeLoadFailure`, `SeeNotify`, `Terminate` |
| the drain after it | `Drained`, `GraceOver`, both with `EndProcess` |
| the load task | `LoadSucceeds`, `LoadFails` |
| the reaper | `Poll`, `ReadActivity`, `ReadInFlight`, `TryDebugLock`, `Fire` |
| `handle_connection` | `Read`, `Admit`, `StopReading`, `CloseConnection`, `ReadError` |
| a request task | `Dispatch`, `Complete`, `Answer` |
| the `shutdown` method, the debug methods | `RequestShutdown`, `TakeDebugLock`, `EndDebugCall` |
| clients, the clock, the file system | `OpenConnection`, `Send`, `HangUp`, `IdleWindowPasses`, `RootChanges` |

Data. A permit is not a counter of its own: the permits taken are the tasks that
hold one (`Permits`, `Tasks`). Of `last_activity` only the comparison with the
idle window is kept (`stale`). The debug session is open or not. Dropping a
`JoinSet` aborts its tasks and drops their guards (`Abort`). `busyRound` and
`openRound` are history variables. Errors of `accept`, lines that are no
requests (they are answered by the read loop itself), and a daemon with its idle
exit switched off are left out.

## 3. Runs

| Run | Instance | Properties | Result |
|---|---|---|---|
| `graph` | 2 queries, 1 editor, 1 change (an edit or a package), 2 requests, 1 failure, fair threads | `ServedCallGraphIsFresh`, `CacheIsOneBuild`, `FilledFromItsInsight`, `ServedSourcesAreFresh`, `SingleFlight`, `ProgressIsHonest`, `WaitsFollowLockOrder`, `ImplementsService`, `EveryCallReturns` | pass |
| `graph_served_insight` | 1 change, 3 requests | `ServedInsightIsFresh` | violated |
| `bridge` | 3 callers, 3 requests, cap 2, cooldown 2, any caller aborted at any await, fair callers | `LateFailureSparesNewBridge`, `FailedInitsAreCapped`, `NoCircularWait`, `ImplementsBridge`, `EveryCallerReturns` | pass |
| `endpoint_one_client` | 1 connecting client, daemon-shutdown, 3 daemons, 4 commands, 1 daemon killed | `ListenerKeepsPath`, `CleanupSparesOthers` | pass |
| `endpoint_two_clients` | 2 clients of different builds, 2 daemons, 2 commands, 1 slow start, 1 kill of any process, fair processes | `TypeOK`, `LeftoverMeansKill`, `OneSpawner`, `EveryCommandEnds` | pass |
| `endpoint_orphan` | 2 clients, 3 daemons, 4 commands, nobody killed | `ListenerKeepsPath` | violated |
| `lifecycle_faults` | 2 connections with a limit of 1, 2 requests, 1 read error, a root that goes | `TypeOK`, `CountMatchesWork`, `ServedFromLoadedProject`, `LongWorkKeepsDaemon` | pass |
| `lifecycle_live` | 1 connection, 2 requests on 1 permit, 1 read error, a root that goes and comes back, fair daemon | `AnswersBeforeClose`, `GoneRootEndsDaemon`, `IdleDaemonEnds`, `ShutdownComes` | pass |
| `lifecycle_dropped_answers` | 1 connection, 2 requests, 1 read error | `OwedAnswers` | violated |
| `diagnostics` | 1 file, 2 runs and 2 passes of which 3 at a time, 3 texts, 1 save or `al.lintFile`, three settings, each with its faults | `TypeOK`, `NoGhost`, `OpenTextIsShown`, `FreshWhenSent` | pass |
| `diagnostics_fixed_findings` | 1 file, passes only, project scope | `FixedFindingsLeave` | violated |
| `generation` | 1 file, 2 tasks, 1 request, 2 package folders, 1 change on disk, 1 command after startup, 2 attempts, fair tasks | `TypeOK`, `OneGeneration`, `OverlayWins`, `AnswersAreCurrent`, `NothingGoesBack`, `EveryTaskEnds` | pass |

Why the bounds are enough. Two queries are needed for a race on the build lock
and for a reader between a publication and a reset; one change, an edit of either
kind or a replaced package, lands before, during and after a build, and each of
its resets may meet a publication. One failure reaches every poisoned state, since
a lock is poisoned once. The bridge needs three callers so that one can restart
while a second still holds the old generation and a third starts an init; a cap of
two is passed by a second failure that follows a restart.
For the generation, two tasks are a publication and what overtakes it: startup
goes on with a download of its own while a reindex, a download or a configuration
runs; one change on disk tells what was read before from what was read after it.
A request repeats its work; two attempts reach the retry and the answer that is
accepted because no attempt is left (the code has three, and the theorems hold for
any number). For the diagnostics one file is enough, because the lists of two files share
only the set of published files and a pass that is cut off between them, which
`CancelPass` covers with a pass that sent nothing; three texts are one that is on
disk, one that is typed over and the one that must be shown. The run has
three settings: project scope on the keystroke with failing passes and index
workers, document scope on the keystroke with failing file events, index and
native workers, and document scope on save with failing file events and native
workers. The combinations that are left out, failing reads of `did_close` among
them, are covered by the theorems, which hold for any settings. One save suffices
for the window between the store of an edit and its indexing: the save falls into
it and the two phases of its publication into any later moment.
`TypeOK` of the graph caches and of the bridge is not checked by a run; it is part
of the invariants that are proved.
At the endpoint every race is between two clients, or between a client and a
stopping daemon; three daemons are one that stops, its successor and the
successor's rival. With one connecting client `ListenerKeepsPath` holds,
daemon-shutdown and kills included: a second client is what it takes to violate
it in `endpoint_orphan`. Two commands of clients of different builds are a start
and a replacement. In the daemon two requests put one between the reaper's reads
while the other ends, and on one permit they make the read loop wait for it
while the client hangs up; `MISSING_ROOT_POLLS` has the value of the code, 2.
Beyond these sizes the proofs take over for the safety properties.

`CHECK_DEADLOCK FALSE`: when the bounds on requests and edits are used up every
thread is idle and nothing is left to do, which is not a deadlock of the code;
and a daemon that has ended takes no step. That nobody is stuck anywhere else is
what the liveness runs check, and for the locks of the graph caches and of the
bridge `WaitsFollowLockOrder` and `NoCircularWait`.
Symmetry is used only in runs without liveness: processes of one kind are
interchangeable and no property names one.

Fairness. `FairSpec` of `GraphCache` is weak fairness of each thread: the
operating system schedules a runnable thread and grants a lock that stays free.
Requests, edits and failures are not fair: nothing has to happen. `FairSpec` of
`SemanticBridge` is weak fairness of each caller; its time limits fire (tokio's
timer) and tokio's mutex and RwLock queue their waiters. `ClrReturns` and `Tick`
are not fair: a call into the CLR may hang for ever, which is exactly the case in
which every caller must still return.

`FairSpec` of `DaemonEndpoint` is weak fairness of each client and of each
daemon's start and end, and strong fairness of `GiveUpWait`: the wait alternates
between the endpoint and the child, so the end of the wait is enabled again and
again and never for ever, and the code counts its polls. `StopServing`, kills and
new commands owe nothing. `FairSpec` of `DaemonLifecycle` is weak fairness of the
reaper's timer and of the accept loop with its drain. Clients, requests, the
debug session and the load owe nothing: a request may run for ever and a client
may keep its connection open for ever.

`FairSpec` of `Generation` is weak fairness of each task: tokio polls a task that
can run, the workers it waits for finish, and `generation_lock` queues its waiters.
The editor, other programs, requests and the abort of a task owe nothing, and
typing never stops: that the revision a task compares does not move with every
keystroke is what `EveryTaskEnds` shows.

Every property of a passing run has a mutant in `PROJECT.json`: an operator that
changes one definition the way a plausible bug would (a hit that does not compare
the tag, a tag read after the build, a restart that does not compare the
generation, a lock file that is overwritten, a counter decremented by hand, a
drain without a time limit, a scan published
without the open texts, a closed document that counts as current), after which TLC finds the property
violated.

## 4. Proofs

`GraphCacheProofs` proves, for every set of query and editor threads that do not
overlap (`ThreadsAssumption`) and every bound (`BoundsAssumption`), that
`GraphInv` is an invariant, and from it `TypeOK`, `ServedCallGraphIsFresh`,
`ServedSourcesAreFresh`, `CacheIsOneBuild`, `FilledFromItsInsight` and
`ProgressIsHonest`. None of them is inductive by itself. The invariant is built
in layers, each proved from the ones before:

1. `TypeOK`;
2. `LocksMatchSteps`: who holds a lock follows from where the threads are, so
   the build lock really excludes a second builder or completer and a read guard
   excludes a publication;
3. `VersionsInOrder`, `SourcesInOrder`, `RevisionsCoverNeeds`: the fingerprint is
   taken before the packages are read, the revision before the indexes, so a
   graph always contains at least what its tag covers;
4. `CacheCoversItsTag`, `BuildLockPinsCache`, `CacheIsOneBuild`,
   `FilledFromItsInsight`, the two freshness properties: a hit compares the tag
   with a revision that covers what the request needs, and while a guard is held
   nothing replaces the graph;
5. `ProgressIsHonest`: the build mark follows the builder.

`GraphServiceProofs` goes on from there, under the same assumptions:

- `CacheImplementsService`, the refinement. Each step is shown to be one step of
  one caller of the service, an edit, an acknowledgement or invisible
  (`Invisible`, `Answers`, `Releases`). The mapping needs that an answer is new
  enough (`ServedCallGraphIsFresh`), that none comes from the future
  (`FilesInOrder`, the one strengthening) and that the cached graph is not replaced,
  filled or reset while somebody holds a guard (`LocksMatchSteps`);
- `OneBuildPerCause`: `SingleFlight`. Builds and causes are counted over the whole
  behaviour, so the invariant `FlightInv` is an account: the first build is free,
  every other is paid for by an invalidation step, a replaced package or a failed
  build, and where the account is empty the cached pair is a hit for every lookup
  that starts now (`CacheIsCurrent`) and for the one the holder of the build lock
  is in the middle of (`WillHit`). A cause that strikes in the middle of a lookup
  may spoil it, and pays for it (`CauseFrame`);
- `LockOrderHolds`: `WaitsFollowLockOrder`. Whoever a thread waits for is at work and
  waits, if at all, for a lock later in the order build lock, `insight_graph`,
  `call_graph`. What is added to `LocksMatchSteps` is `HoldersAtWork`: nobody returns
  with the build lock, and nobody holds `insight_graph` for writing but on the way
  to a publication. That a thread that does not wait can run was checked with TLC
  (`ENABLED` is out of the prover's reach).

`SemanticBridgeProofs` proves, for every set of callers and every positive cap
and cooldown (`BridgeAssumption`), that `BridgeInv` is an invariant, and from it
`TypeOK`, `OneClrCall`, `GuardPinsBridge`, `LateFailureSparesNewBridge`
and `FailedInitsAreCapped`, with callers that may be aborted at every await. Its core is `LocksMatchSteps`
again: what a task under the lifecycle lock knows of the installed bridge stays
true until its own next step. `FailuresAreCounted` ties the failed inits to what pays
for them, a restart slot or a lost init; an orphaned init counts as a failure to
come. From the same invariant follow

- `WaitsAreNotCircular`: `NoCircularWait`. Callers wait for the holder of the
  lifecycle lock, the holder for the users of the bridge, those for nobody: their
  wait for the call gate ends by its time limit. A caller that asked for a restart with its guard
  still in hand would close the circle;
- `LifecycleImplementsService`: `ImplementsBridge`. A step is a start, a stop, a step
  of one user or invisible (`Hidden`, `Enters`, `Leaves`, `Stops`). The one
  strengthening is `CreatedIsNewer`: what is about to be installed is newer than all
  that was ever installed, because numbers are handed out once and only the holder
  of the lifecycle lock installs.

`DaemonEndpointProofs` proves, for any number of clients and daemons and any
builds (`EndpointAssumption`):

- `Typed`: `TypeOK`, strengthened by `StoppersDoNotSpawn`, since only a connector
  may reach the steps that need a build;
- `OnlyKillsLeaveSockets`: `LeftoverMeansKill`. It is not inductive, because a
  daemon that stops removes the path only if it still takes it for its own;
  `OwnerIsAlive` adds that the daemon the path names has recorded its socket by
  the time it serves;
- `SpawnLockExcludes`: `OneSpawner`, which speaks of the time until a process is
  killed. `LockMatchesHolder` says that the lock file exists exactly while some
  client is under it, that this client created it, and that a replacement never
  passes through the locked steps; `KillsGrow` keeps it apart from what happens
  after a kill;
- `OneClientKeepsPath` and `OneClientCleanup`: `ListenerKeepsPath` and
  `CleanupSparesOthers` for one client at a time (`OneClient`), with any number of
  daemons, of `stop` commands and of kills of daemons. The hypothesis excludes what
  makes two daemons come up at once, which the code does not prevent: a second
  client (finding 2), a client killed after it spawned, and a daemon so slow that
  its client gives up and spawns another. With any one of the three allowed TLC
  finds `ListenerKeepsPath` violated. `PathOwned` says that a daemon owns the path from its bind to its removal, that one which is not open
  yet has the client waiting for it, and that the client spawns only when nobody
  answers.

`DaemonLifecycleProofs` proves, for any number of connections, requests, permits
and polls (`LifecycleAssumption`), with `Typing` (the types in three parts, and
the count) as the common invariant:

- `CountIsExact` and `Typed`: the counter is the cardinality of the set of
  requests under dispatch, which is also why it is never negative; that a broken
  connection gives back exactly the requests it drops is the law for the
  cardinality of a difference;
- `OnlyLoadedProjectsServe`, from `ClearedBySuccess`: only a load that succeeded
  clears the flag;
- `LastingWorkIsSpared`, from `RoundIsLive`: what the history of a round names is
  still served, and past each look of the reaper there is none of it. It rests
  on `CountIsExact`, because the reaper looks at the counter and not at the
  requests;
- `AnswersAreOwed`: `AnswersBeforeClose`, as long as every line could be read (after
  a read error `OwedAnswers` fails, finding 3), from `NoneDropped`: a request that
  waits for a permit keeps its connection reading.

`GenerationProofs` proves, for any number of files, tasks, requests and folders
(`ActorsAssumption`) and any number of attempts (`BoundsAssumption`), that `GenInv`
is an invariant. Its parts:

- `Typing`, with `PathOK` for what a task's folder may be at each step, and
  attempts left whenever a request may read the revision: `Typed`;
- `LocksMatchSteps`: the task that holds the lock is the one that swaps, so one
  task publishes at a time;
- `StagedTogether` and `PublishedTogether`: what a task carries from its staging on
  belongs together, and the published parts differ only between two swaps of the
  task that holds the lock: `GenerationIsOne`;
- `OverlaysArePublished`: the texts are in the index, or in what is about to fill
  it: `OverlaysWin`;
- `ReadingsHold`: while no task swaps, a request whose revision did not move has
  read what is published; one that read between two swaps has lost its revision
  when the last of them is done: `RequestsAreCurrent`;
- `NothingAhead` and `NothingOlder`: what a task staged is no newer than the disk,
  and what an optimistic task is about to publish is no older than what is
  published, at the lock as long as its revision is up to date, under it always.
  From them `DownloadsKeepNews`, the action property `NothingGoesBack`: of all steps
  only `SwapProject` could publish something older, and it does so for a full
  generation only.

The steps are first sorted by who takes them (`KindsOfSteps`), and a frame lemma for
each kind says what it leaves alone, so that each part of the invariant is
proved against the few steps that can disturb it.

`DiagnosticsProofs` proves, for any number of files, publications and passes
(`TasksAssumption`) and any settings, texts and failures (`BoundsAssumption`):

- `Typed`, with `StagedOK`: a pass that may stage has an attempt left, and what a
  pass has staged for a file are the findings of the text it read;
- `Inv`: without the project scope there is no pass (`ProjectOnly`); a handler
  between its store and its indexing excludes a pass that sends (`Locked`); the
  index has the text of every open document once the handler that stored it is
  done, unless its worker failed (`IdxGood`); a list made for the text the editor
  still has was made of that text, or the text is marked in `failed` or `ahead`, a
  close restores a text that was on disk, and only tasks behind a timer are
  aborted, while they run (`RunsGood`). The argument is that stamps are not used
  twice (`DocStamps`): a document that moved has a stamp no task holds, so the check
  before the send catches every older list;
- `SentIsFresh`, the action property `FreshWhenSent`, from `Sends`: what each step
  may send. The marks are made when a list is made and taken away only with the
  text, so a list that is sent for the text of now carries its exception with it;
- `NoGhosts`, from `FromDisk`, which strengthens `NoGhost` by the index: a pass
  sends what it read there. A close ends only with the restore (`CloseEnds`);
- `TextsAreShown`, from `ShownOrOnItsWay`: the text is shown, or a publication of it
  is under way that nobody aborted.

What a step does to one publication (`Fates`), to documents and index (`Indexes`) and
to what is shown (`Sendings`) is proved once for each action, and the parts of the
invariant are proved from these facts.

Every safety property of a passing run, and both refinements, are theorems. Only
model-checked: the liveness properties `EveryCallReturns`, `EveryCallerReturns`,
`EveryTaskEnds`, `EveryCommandEnds`, `GoneRootEndsDaemon`, `IdleDaemonEnds` and
`ShutdownComes`, which need fairness and `ENABLED` and are outside the prover's
reach. The properties of the four runs that end in a violation are false of the
code.

## 5. Findings

1. `graph_served_insight`: the fast path clones the insight graph before it locks
   the call graph, and the hit test compares the call graph's tag only. After a
   publication in between the caller gets an insight graph of one build, which
   may miss a topology edit acknowledged before the request started, and a call
   graph of the next, although node numbers are only meaningful within one build.
2. `endpoint_orphan`: `connect_checked_within` spawns a replacement without the
   spawn lock. A second daemon that starts then probes the first one's socket
   between its bind and its listen, takes the refusal for a leftover file and
   removes it: the first daemon serves with no path. In the same race
   `cleanup_socket`, which checks that the socket is its own and removes it by
   name in a second call, removes the socket of another daemon.
3. `lifecycle_dropped_answers`: a line over the size limit or not in UTF-8 leaves
   `handle_connection` before the join loop, and the requests of that connection
   that are being served are dropped unanswered.
4. `diagnostics_fixed_findings`: the project pass stages a file as reported when
   the compiler cache has an entry for it, and the project-wide compiler pass
   leaves an empty entry for every clean file. When the native finding of a
   closed file is fixed on disk the list is empty and the file should be cleared,
   but a reported file has no staged clear: the editor keeps the finding, in every
   later pass too.

More of the kind, visible in the models and without a run of their own:

- `get_or_build_call_graph` publishes, drops its write guards and reads
  `call_graph` again (`al-workspace/src/lib.rs:1309`, `Reread`). An invalidation in
  between empties it and the function returns `Ok` with a guard over `None`.
- A restart installs the new bridge and seeds the timeout stamp afterwards
  (`semantic_lifecycle.rs:353`): a caller in between passes the cooldown gate.
- `semantic_lifecycle.rs:194` says of the lifecycle lock "Held across the CLR init
  below, so concurrent callers start one bridge". The debounced run that holds it
  may be aborted at the init (`lsp/mod.rs:188`): the lock is released while the init
  goes on, and the next caller starts another beside it. The bridge of the first is
  thrown away, and a failure of it is not counted: `FailedInitsAreCapped` therefore
  adds the lost inits to `MAX_RESTARTS`.
- A restart that is aborted at the await before the seed
  (`semantic_lifecycle.rs:353`) leaves a bridge without the timeout stamp and the
  restart slot used.
- `lsp/mod.rs:1487` says of `did_change` "The generation write guard still spans the
  whole mutation, so the document store and the file index stay in step". Readers
  that take no lock see them apart: a save while the index worker runs lints the
  new text with the old index, its list passes `publish_if_current`, and its second
  phase may be the last list that is sent for the text. `file_index/mod.rs:266`
  asks for the write lock "so readers cannot observe the brief clear-and-move
  window", which the same readers can.
- A native worker that fails publishes an empty list for the current text
  (`diagnostics.rs:234`).
- Startup and `al.reindex` publish without comparing a revision. A watched-file
  event, a project file, packages or a configuration that was published while
  they scanned is overwritten by what they staged, although the comment on
  `mark_generation_changed` says that staged work publishes only when the revision
  still matches. `NothingGoesBack` therefore excepts full generations.
- `run_project_semantic_analysis` compares the version number of a document; after a
  close and a reopen the numbers start again, so findings of the closed text may
  be cached for the new one. The next compiler pass replaces them.
- A project pass merges the compiler's findings from the cache without asking which
  text they are about, and both phases record a publication before it happens.
- The last attempt of `offload_after_ready` is returned although the generation moved,
  where its comment says that such a result is never returned as current.
- Two configurations in quick succession may be installed in reverse order, and a
  startup task that is past its last look at the cancellation sets `Ready` after a
  shutdown.

Two more races. The age of an
old spawn lock is read in one call and the file removed in another, so of two
clients that find the lock of a killed spawner old the second removes the one the
first has just created, and both spawn: `OneSpawner` therefore ends with the first
kill. And a request that starts after the reaper has read the counter is in flight
when the reaper fires, although the comment on `in_flight` says that it never
fires then: `LongWorkKeepsDaemon` therefore speaks of work that lasts from the
reaper's first read on. The drain gives such a request the grace period.

Smaller disagreements between comments and code, met while modelling: the field
comment at `al-workspace/src/lib.rs:472` gives the lock order `call_graph` before
`insight_graph`, the publication takes them the other way round; the comment on
`TIMEOUT_COOLDOWN` says callers get `Poisoned` during the cooldown, `cooldown_gate`
returns `Cooldown`.

## 6. Not modelled, and the plan

Left out of the modelled parts: `get_or_build_insight_graph` (called by tests and
benchmarks only), `memory_stats`, the built-ins and error-code caches filled
after a successful bridge call, the early return of `get_or_init_bridge` when
code analysis is switched off (no state changes), startup and `al.reindex` in
`Diagnostics`, windows-only paths.

Out of reach: parser, symbol packages, analysis, emission and interpreter are
large sequential programs over unbounded data; compiler driver, publishing and
the Business Central client are I/O against external programs. They are most of
the quarter of a million lines of the repository, which is why the share of lines
the map covers is small: the model covers the parts where steps of several
actors meet, not the parts where one function transforms one value.

Of the daemon: the answers of its methods are payload and not modelled; see the
sections on `DaemonEndpoint` and `DaemonLifecycle` for the cases they leave out.

What is left, in this order:

1. startup and `al.reindex` in `Diagnostics`: the index that is emptied and filled under
   running native passes, the cleared compiler cache and the pass that follows;
2. the client's request protocol (`al-protocol/src/client/mod.rs`): framing and
   partial frames, identifiers of abandoned requests, a stream out of step, the
   retry while the daemon loads;
3. the summary cache on disk, which several daemons share; debug adapter sessions;
   the document store;
4. composition: the serving part of `DaemonEndpoint` as an abstraction of
   `DaemonLifecycle`, with its refinement theorem; the graph caches under the edits
   of `Generation`.
