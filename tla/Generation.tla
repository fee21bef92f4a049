----------------------------- MODULE Generation -----------------------------
(***************************************************************************)
(* The published generation of the language server: file index, symbol     *)
(* index, project, package list and configuration, replaced by long tasks  *)
(* while the editor types and requests read                                *)
(* (al-lsp/src/server/workspace/mod.rs, lsp/mod.rs, commands.rs).          *)
(*                                                                         *)
(* A task stages without a lock what it will publish.  Startup and         *)
(* al.reindex stage everything; a symbol download and a configuration that *)
(* moves the package folders stage the packages, from the project as it is *)
(* published, and start again when another task published packages in the  *)
(* meantime.  The publication is a sequence of swaps under the write lock. *)
(* A request reads the generation without a lock and checks the revision   *)
(* afterwards.                                                             *)
(*                                                                         *)
(* Steps.  The swaps are steps of their own, since a request that holds no *)
(* lock sees what lies between them; the handlers of the editor, which     *)
(* hold the write lock from their first to their last change, are one step *)
(* each.  A task that was aborted ends at an await, and an await is where  *)
(* it waits for a worker or a lock, never between two swaps.               *)
(*                                                                         *)
(* Data.  What is on disk is a version number for each source, for the     *)
(* package folders and for the project files.  A revision is compared with *)
(* one read earlier and never read otherwise: instead of counters the      *)
(* model keeps the set of actors that hold a reading which is up to date,  *)
(* of package_revision for a task and generation_revision for a request.   *)
(* The symbols are those of packages, not the entries that graph builds    *)
(* add for the project's own objects.  The trust decision and the settings *)
(* other than the package path are left out.                               *)
(***************************************************************************)
EXTENDS Naturals

CONSTANTS Files,      \* the source files of the project
          Tasks,      \* bound: publishing tasks at one time
          Requests,   \* read requests at one time
          StartupTask,
          Paths,      \* the package folders a configuration may name
          DefaultPath,
          NoOne,      \* nobody holds the write lock
          MAX_OFFLOAD_ATTEMPTS,  \* how often a request works; 3 in the code
          MaxDisk,    \* bound: changes on disk
          MaxStarts   \* bound: reindexes, downloads and configurations

ASSUME BoundsAssumption ==
    MaxDisk \in Nat /\ MaxStarts \in Nat /\ MAX_OFFLOAD_ATTEMPTS \in Nat \ {0}

ASSUME ActorsAssumption ==
    /\ NoOne \notin Tasks
    /\ Tasks \cap Requests = {}
    /\ StartupTask \in Tasks
    /\ DefaultPath \in Paths
    /\ Paths \subseteq Nat \ {0}

VARIABLES
    disk,      \* the versions on disk
    changes,   \* how often the disk was changed
    starts,    \* how many tasks were started after startup
    doc,       \* the editor's text of each file, 0 when it is closed
    closing,   \* the version on disk when did_close let go of the lock, 0 when
               \* no close of the file is under way
    index,     \* file_index
    symbols,   \* the symbol index
    project,   \* the loaded project
    info,      \* package_info
    config,    \* the package path of the configuration
    stamp,     \* project_file_stamps: the project files read last
    state,     \* WorkspaceInitState
    writer,    \* the task that holds generation_lock in write mode
    task,      \* the publishing tasks
    aborted,   \* tasks that were aborted and have not ended
    request,   \* the read requests
    current    \* the actors whose reading of their revision is up to date

world     == <<disk, changes>>
published == <<index, symbols, project, info, config, stamp>>
editor    == <<doc, closing>>

vars == <<world, starts, editor, published, state, writer, task, aborted,
          request, current>>

-----------------------------------------------------------------------------
Actors == Tasks \cup Requests

\* The text of a file: a saved version or the editor's.
Saved(v)  == [edited |-> FALSE, n |-> v]
Edited(n) == [edited |-> TRUE, n |-> n]

NoFiles == [f \in Files |-> Saved(0)]

IndexEntries == [edited : BOOLEAN, n : Nat]

\* The packages found in the folder of the configuration, and a symbol index:
\* the list it was loaded for and the version it read.
NoPackages == [path |-> 0, dir |-> 0]
NoSymbols  == [list |-> NoPackages, seen |-> 0]

PackageLists == [path : Nat, dir : Nat]
SymbolSets   == [list : PackageLists, seen : Nat]

NoProject == [manifest |-> 0, packages |-> NoPackages]
Projects  == [manifest : Nat, packages : PackageLists]

TaskKinds == {"init", "reindex", "download", "configure"}

StagingSteps == {"discover", "scan", "load", "fetch", "snapshot", "stage"}
SwapSteps    == {"clear_files", "files", "clear_symbols", "symbols", "project",
                 "revise"}
TaskSteps    == {"idle", "lock", "project_lock"} \cup StagingSteps \cup SwapSteps

\* Mutant of AwaitPoints: the project lock is taken after the index swaps.
AwaitBeforeProject ==
    {"lock", "project_lock", "project"} \cup StagingSteps

\* Where a task awaits: between the swaps there is no await.
AwaitPoints == {"lock", "project_lock"} \cup StagingSteps

NoTask == [pc |-> "idle", kind |-> "init", files |-> NoFiles,
           symbols |-> NoSymbols, project |-> NoProject, path |-> 0]

TaskStates == [pc : TaskSteps, kind : TaskKinds, files : [Files -> IndexEntries],
               symbols : SymbolSets, project : Projects, path : Nat]

RequestSteps == {"idle", "revision", "symbols", "files", "check"}

NoRequest == [pc |-> "idle", attempt |-> 0, symbols |-> NoSymbols,
              files |-> NoFiles]

RequestStates == [pc : RequestSteps, attempt : 0..MAX_OFFLOAD_ATTEMPTS,
                  symbols : SymbolSets, files : [Files -> IndexEntries]]

\* Nobody publishes: the write lock, and with it the read lock, is free.
Unlocked == writer = NoOne

\* The session has not been shut down.
Connected == state # "shutdown"

\* Mutant of MoveGeneration: the tasks compare the source revision, too.
MoveForEveryone == current' = {}

\* mark_generation_changed: the revision that requests compare moves.
MoveGeneration == current' = current \ Requests

-----------------------------------------------------------------------------
\* `initialized` has spawned the startup task; the folder may hold a project.
Init ==
    /\ \E m \in {0, 1} :
          disk = [source |-> [f \in Files |-> 1], packages |-> 1, manifest |-> m]
    /\ changes = 0 /\ starts = 0
    /\ doc = [f \in Files |-> 0]
    /\ closing = [f \in Files |-> 0]
    /\ index = NoFiles
    /\ symbols = NoSymbols /\ project = NoProject /\ info = NoSymbols
    /\ config = DefaultPath
    /\ stamp = 0
    /\ state = "initializing"
    /\ writer = NoOne
    /\ task = [t \in Tasks |-> IF t = StartupTask
                              THEN [NoTask EXCEPT !.pc = "discover"] ELSE NoTask]
    /\ aborted = {}
    /\ request = [r \in Requests |-> NoRequest]
    /\ current = {}

-----------------------------------------------------------------------------
(* The world outside: other programs change files.                         *)

ChangeSource(f) ==
    /\ Connected /\ changes < MaxDisk
    /\ changes' = changes + 1
    /\ disk' = [disk EXCEPT !.source[f] = @ + 1]
    /\ UNCHANGED <<starts, editor, published, state, writer, task, aborted,
                   request, current>>

ChangePackages ==
    /\ Connected /\ changes < MaxDisk
    /\ changes' = changes + 1
    /\ disk' = [disk EXCEPT !.packages = @ + 1]
    /\ UNCHANGED <<starts, editor, published, state, writer, task,
                   aborted, request, current>>

\* A change of app.json or of a debug configuration; its notification may be
\* missed, since a command reads the files too.
ChangeManifest ==
    /\ Connected /\ changes < MaxDisk
    /\ changes' = changes + 1
    /\ disk' = [disk EXCEPT !.manifest = @ + 1]
    /\ UNCHANGED <<starts, editor, published, state, writer, task,
                   aborted, request, current>>

-----------------------------------------------------------------------------
(* The editor.                                                             *)

Edit(f, n) ==
    /\ doc' = [doc EXCEPT ![f] = n]
    /\ index' = [index EXCEPT ![f] = Edited(n)]
    /\ MoveGeneration
    /\ UNCHANGED <<world, starts, closing, symbols, project, info, config,
                   stamp, state, writer, task, aborted, request>>

\* After a shutdown the editor sends no more.
DidOpen(f) == Connected /\ Unlocked /\ doc[f] = 0 /\ Edit(f, 1)

\* The user types without end, between two texts.
DidChange(f) == Connected /\ Unlocked /\ doc[f] # 0 /\ Edit(f, 3 - doc[f])

\* did_close until it drops the lock to read the saved source; one close of a
\* file at a time.
DidClose(f) ==
    /\ Connected /\ Unlocked
    /\ doc[f] # 0 /\ closing[f] = 0
    /\ doc' = [doc EXCEPT ![f] = 0]
    /\ closing' = [closing EXCEPT ![f] = disk.source[f]]
    /\ MoveGeneration
    /\ UNCHANGED <<world, starts, published, state, writer, task, aborted,
                   request>>

\* The index takes the source, unless the file was opened again.  It was read
\* without the lock, at some moment since the close; one that could not be read
\* leaves the index.
RestoreClosed(f) ==
    /\ Unlocked
    /\ closing[f] # 0
    /\ closing' = [closing EXCEPT ![f] = 0]
    /\ \/ /\ doc[f] = 0
          /\ \E v \in {0} \cup closing[f]..disk.source[f] :
                index' = [index EXCEPT ![f] = Saved(v)]
          /\ MoveGeneration
       \/ /\ doc[f] # 0
          /\ UNCHANGED <<index, current>>
    /\ UNCHANGED <<world, starts, doc, symbols, project, info, config, stamp,
                   state, writer, task, aborted, request>>

\* did_change_watched_files, for a source: an open one belongs to the editor.
\* A notification may come late, twice or for a file that did not change.
WatchedSource(f) ==
    /\ state = "ready" /\ Unlocked
    /\ doc[f] = 0
    /\ index' = [index EXCEPT ![f] = Saved(disk.source[f])]
    /\ MoveGeneration
    /\ UNCHANGED <<world, starts, editor, symbols, project, info, config,
                   stamp, state, writer, task, aborted, request>>

\* refresh_manifest_files: the project files are read when their stamp moved.
ReadManifest ==
    \/ /\ project # NoProject /\ stamp # disk.manifest
       /\ project' = [project EXCEPT !.manifest = disk.manifest]
       /\ stamp' = disk.manifest
       /\ MoveGeneration
    \/ /\ project = NoProject \/ stamp = disk.manifest
       /\ UNCHANGED <<project, stamp, current>>

\* did_change_watched_files, for a project file.
WatchedManifest ==
    /\ state = "ready" /\ Unlocked
    /\ ReadManifest
    /\ UNCHANGED <<world, starts, editor, index, symbols, info, config, state,
                   writer, task, aborted, request>>

-----------------------------------------------------------------------------
(* Tasks: start and end.                                                   *)

Goto(t, pc) == task' = [task EXCEPT ![t].pc = pc]

End(t) ==
    /\ task' = [task EXCEPT ![t] = NoTask]
    /\ aborted' = aborted \ {t}

Reindexing == {t \in Tasks : task[t].kind = "reindex" /\ task[t].pc # "idle"}

\* execute_command reads the project files and starts the command; al.reindex
\* aborts the one before.
StartReindex(t) ==
    /\ state = "ready" /\ Unlocked
    /\ task[t].pc = "idle" /\ starts < MaxStarts
    /\ starts' = starts + 1
    /\ ReadManifest
    /\ task' = [task EXCEPT ![t] = [NoTask EXCEPT !.pc = "discover",
                                                  !.kind = "reindex"]]
    /\ aborted' = aborted \cup Reindexing
    /\ UNCHANGED <<world, editor, index, symbols, info, config, state, writer,
                   request>>

\* download_symbols_command, which does nothing without a project.
StartDownload(t) ==
    /\ state = "ready" /\ Unlocked
    /\ task[t].pc = "idle" /\ starts < MaxStarts
    /\ starts' = starts + 1
    /\ ReadManifest
    /\ task' = [task EXCEPT ![t] = [NoTask EXCEPT !.kind = "download",
                   !.pc = IF project = NoProject THEN "idle" ELSE "fetch"]]
    /\ UNCHANGED <<world, editor, index, symbols, info, config, state, writer,
                   aborted, request>>

\* did_change_configuration with another package path.
StartConfigure(t, path) ==
    /\ state = "ready" /\ Unlocked
    /\ task[t].pc = "idle" /\ starts < MaxStarts
    /\ path # config
    /\ starts' = starts + 1
    /\ task' = [task EXCEPT ![t] = [NoTask EXCEPT !.pc = "snapshot",
                                       !.kind = "configure", !.path = path]]
    /\ UNCHANGED <<world, editor, published, state, writer, aborted, request,
                   current>>

\* did_change_configuration with other settings: installed under the lock.
ConfigureOther ==
    /\ state = "ready" /\ Unlocked
    /\ starts < MaxStarts
    /\ starts' = starts + 1
    /\ MoveGeneration
    /\ UNCHANGED <<world, editor, published, state, writer, task, aborted,
                   request>>

\* An aborted task ends at an await and lets go of the lock.
Cancel(t) ==
    /\ t \in aborted
    /\ task[t].pc \in AwaitPoints
    /\ End(t)
    /\ current' = current \ {t}
    /\ writer' = IF writer = t THEN NoOne ELSE writer
    /\ UNCHANGED <<world, starts, editor, published, state, request>>

\* shutdown: the state is a failed one, and the startup task and the reindex are aborted.
Shutdown ==
    /\ Connected
    /\ state' = "shutdown"
    /\ aborted' = aborted \cup Reindexing \cup
                    {t \in Tasks : task[t].kind = "init" /\ task[t].pc # "idle"}
    /\ UNCHANGED <<world, starts, editor, published, writer, task, request,
                   current>>

-----------------------------------------------------------------------------
(* initialize_workspace: staging.                                          *)

\* find_project and apply_symbol_settings.
Discover(t) ==
    /\ task[t].pc = "discover"
    /\ task' = [task EXCEPT ![t].pc = "scan", ![t].project =
          IF disk.manifest = 0 THEN NoProject
          ELSE [manifest |-> disk.manifest,
                packages |-> [path |-> config, dir |-> disk.packages]]]
    /\ UNCHANGED <<world, starts, editor, published, state, writer, aborted,
                   request, current>>

Scan(t) ==
    /\ task[t].pc = "scan"
    /\ task' = [task EXCEPT ![t].pc = "load",
                   ![t].files = [f \in Files |-> Saved(disk.source[f])]]
    /\ UNCHANGED <<world, starts, editor, published, state, writer, aborted,
                   request, current>>

\* The symbols of the listed packages.
LoadedFor(list) ==
    IF list = NoPackages THEN NoSymbols
    ELSE [list |-> list, seen |-> disk.packages]

Load(t) ==
    /\ task[t].pc = "load"
    /\ task' = [task EXCEPT ![t].pc = "lock",
                   ![t].symbols = LoadedFor(task[t].project.packages)]
    /\ UNCHANGED <<world, starts, editor, published, state, writer, aborted,
                   request, current>>

\* Discovery, a scan, a package or a download fails, or the user declines the
\* download: nothing is published, and a startup that fails says so.
StagingFails(t) ==
    /\ task[t].pc \in StagingSteps \ {"snapshot"}
    /\ End(t)
    /\ current' = current \ {t}
    /\ state' = IF task[t].kind = "init" /\ state = "initializing"
                THEN "failed" ELSE state
    /\ UNCHANGED <<world, starts, editor, published, writer, request>>

-----------------------------------------------------------------------------
(* download_dependency_closure and refresh_current_symbol_generation, or    *)
(* the loop of did_change_configuration: staging of the packages.           *)

\* Packages are written into the folder.
Fetch(t) ==
    /\ task[t].pc = "fetch"
    /\ changes < MaxDisk
    /\ changes' = changes + 1
    /\ disk' = [disk EXCEPT !.packages = @ + 1]
    /\ Goto(t, "snapshot")
    /\ UNCHANGED <<starts, editor, published, state, writer, aborted,
                   request, current>>

\* The package revision, the project and, for a download, the configuration
\* are read under the read lock.  Without a project a download ends, and a
\* configuration is installed alone.
Snapshot(t) ==
    /\ task[t].pc = "snapshot"
    /\ Unlocked
    /\ LET path == IF task[t].kind = "configure" THEN task[t].path ELSE config
       IN \/ /\ project # NoProject
             /\ task' = [task EXCEPT ![t].pc = "stage", ![t].path = path,
                                     ![t].project = project]
             /\ current' = current \cup {t}
             /\ UNCHANGED aborted
          \/ /\ project = NoProject /\ task[t].kind = "configure"
             /\ task' = [task EXCEPT ![t].pc = "lock", ![t].project = NoProject]
             /\ current' = current \cup {t}
             /\ UNCHANGED aborted
          \/ /\ project = NoProject /\ task[t].kind # "configure"
             /\ End(t)
             /\ UNCHANGED current
    /\ UNCHANGED <<world, starts, editor, published, state, writer, request>>

\* apply_symbol_settings and load_packages_cached, on the blocking pool.
Stage(t) ==
    LET list == [path |-> task[t].path, dir |-> disk.packages] IN
    /\ task[t].pc = "stage"
    /\ task' = [task EXCEPT ![t].pc = "lock", ![t].project.packages = list,
                            ![t].symbols = LoadedFor(list)]
    /\ UNCHANGED <<world, starts, editor, published, state, writer, aborted,
                   request, current>>

-----------------------------------------------------------------------------
(* Publication.                                                            *)

Full(t) == task[t].kind \in {"init", "reindex"} /\ task[t].path = 0

\* Another task published packages since the snapshot; a full generation does
\* not ask.
Overtaken(t) == ~Full(t) /\ t \notin current

TakeLock(t) ==
    /\ task[t].pc = "lock"
    /\ Unlocked
    /\ \/ /\ Overtaken(t)
          /\ Goto(t, "snapshot")
          /\ UNCHANGED <<config, writer, aborted, current>>
       \/ /\ ~Overtaken(t)
          /\ Full(t) \/ task[t].project # NoProject
          /\ writer' = t
          /\ Goto(t, "project_lock")
          /\ UNCHANGED <<config, aborted, current>>
       \/ /\ ~Overtaken(t)
          /\ ~Full(t) /\ task[t].project = NoProject
          /\ config' = task[t].path
          /\ current' = current \ (Requests \cup {t})
          /\ End(t)
          /\ UNCHANGED writer
    /\ UNCHANGED <<world, starts, editor, index, symbols, project, info, stamp,
                   state, request>>

\* Mutant of WithOverlays: the scan of the disk is published as it is.
WithoutOverlays(t) == task[t].files

\* What the editor has open replaces what the scan read.
WithOverlays(t) ==
    [f \in Files |-> IF doc[f] # 0 THEN Edited(doc[f]) ELSE task[t].files[f]]

\* Mutant of Keeping: the manifest staged with the packages.
KeepingNothing(t) == task[t].project

\* keep_published_project_files
Keeping(t) ==
    IF project = NoProject THEN task[t].project
    ELSE [task[t].project EXCEPT !.manifest = project.manifest]

\* The project lock is there too; from here on the task does not await.
TakeProjectLock(t) ==
    /\ task[t].pc = "project_lock"
    /\ \/ /\ Full(t)
          /\ task' = [task EXCEPT ![t].pc = "clear_files",
                                  ![t].files = WithOverlays(t)]
       \/ /\ ~Full(t)
          /\ task' = [task EXCEPT ![t].pc = "clear_symbols",
                                  ![t].project = Keeping(t)]
    /\ UNCHANGED <<world, starts, editor, published, state, writer, aborted,
                   request, current>>

\* FileIndex::replace_with: the maps are emptied, then filled.
ClearFiles(t) ==
    /\ task[t].pc = "clear_files"
    /\ index' = NoFiles
    /\ Goto(t, "files")
    /\ UNCHANGED <<world, starts, editor, symbols, project, info, config, stamp,
                   state, writer, aborted, request, current>>

SwapFiles(t) ==
    /\ task[t].pc = "files"
    /\ index' = task[t].files
    /\ task' = [task EXCEPT ![t].pc = "clear_symbols", ![t].files = NoFiles]
    /\ UNCHANGED <<world, starts, editor, symbols, project, info, config, stamp,
                   state, writer, aborted, request, current>>

\* SymbolIndex::replace_with
ClearSymbols(t) ==
    /\ task[t].pc = "clear_symbols"
    /\ symbols' = NoSymbols
    /\ Goto(t, "symbols")
    /\ UNCHANGED <<world, starts, editor, index, project, info, config, stamp,
                   state, writer, aborted, request, current>>

SwapSymbols(t) ==
    /\ task[t].pc = "symbols"
    /\ symbols' = task[t].symbols
    /\ Goto(t, "project")
    /\ UNCHANGED <<world, starts, editor, index, project, info, config, stamp,
                   state, writer, aborted, request, current>>

\* The project, the configuration and set_package_info, which are read under
\* their own locks or generation_lock.
SwapProject(t) ==
    /\ task[t].pc = "project"
    /\ project' = task[t].project
    /\ config' = IF task[t].kind = "configure" THEN task[t].path ELSE config
    /\ info' = task[t].symbols
    /\ Goto(t, "revise")
    /\ UNCHANGED <<world, starts, editor, index, symbols, stamp, state, writer,
                   aborted, request, current>>

\* Mutant of MoveBoth: only the package revision moves.
MovePackagesOnly == current' = current \ Tasks

MoveBoth == current' = {}

\* The revisions move and the locks are released.  Startup lets requests in;
\* a full generation whose project lacks packages may go on with a download.
Revise(t) ==
    /\ task[t].pc = "revise"
    /\ MoveBoth
    /\ writer' = NoOne
    /\ state' = IF task[t].kind = "init" /\ Full(t) THEN "ready" ELSE state
    /\ \/ End(t)
       \/ /\ Full(t) /\ task[t].project # NoProject
          /\ task' = [task EXCEPT ![t] = [NoTask EXCEPT !.pc = "fetch",
                                                        !.kind = task[t].kind]]
          /\ UNCHANGED aborted
    /\ UNCHANGED <<world, starts, editor, published, request>>

-----------------------------------------------------------------------------
(* offload_after_ready: a request that reads without the lock.             *)

Ask(r) ==
    /\ Connected
    /\ request[r].pc = "idle"
    /\ request' = [request EXCEPT ![r].pc = "revision"]
    /\ UNCHANGED <<world, starts, editor, published, state, writer, task,
                   aborted, current>>

\* await_ready gives up after 30 seconds and on a failed startup.
GiveUp(r) ==
    /\ request[r].pc = "revision"
    /\ state # "ready"
    /\ request' = [request EXCEPT ![r] = NoRequest]
    /\ UNCHANGED <<world, starts, editor, published, state, writer, task,
                   aborted, current>>

ReadRevision(r) ==
    /\ request[r].pc = "revision"
    /\ state = "ready" /\ Unlocked
    /\ current' = current \cup {r}
    /\ request' = [request EXCEPT ![r].pc = "symbols", ![r].attempt = @ + 1]
    /\ UNCHANGED <<world, starts, editor, published, state, writer, task,
                   aborted>>

\* The work, find_implementations for one: the symbols, then the files.
ReadSymbols(r) ==
    /\ request[r].pc = "symbols"
    /\ request' = [request EXCEPT ![r].pc = "files", ![r].symbols = symbols]
    /\ UNCHANGED <<world, starts, editor, published, state, writer, task,
                   aborted, current>>

ReadFiles(r) ==
    /\ request[r].pc = "files"
    /\ request' = [request EXCEPT ![r].pc = "check", ![r].files = index]
    /\ UNCHANGED <<world, starts, editor, published, state, writer, task,
                   aborted, current>>

\* Mutant of Settled: the attempts are not counted.
SettledWhenCurrent(r) == r \in current

\* The answer stands if the generation did not move, or after the last attempt.
Settled(r) == r \in current \/ request[r].attempt = MAX_OFFLOAD_ATTEMPTS

CheckRevision(r) ==
    /\ request[r].pc = "check"
    /\ Unlocked
    /\ current' = current \ {r}
    /\ request' = IF Settled(r) THEN [request EXCEPT ![r] = NoRequest]
                  ELSE [request EXCEPT ![r] = [NoRequest EXCEPT
                           !.pc = "revision", !.attempt = request[r].attempt]]
    /\ UNCHANGED <<world, starts, editor, published, state, writer, task,
                   aborted>>

-----------------------------------------------------------------------------
TaskStep(t) ==
    \/ Discover(t) \/ Scan(t) \/ Load(t) \/ StagingFails(t)
    \/ Fetch(t) \/ Snapshot(t) \/ Stage(t)
    \/ TakeLock(t) \/ TakeProjectLock(t)
    \/ ClearFiles(t) \/ SwapFiles(t) \/ ClearSymbols(t) \/ SwapSymbols(t)
    \/ SwapProject(t) \/ Revise(t) \/ Cancel(t)

RequestStep(r) ==
    \/ GiveUp(r) \/ ReadRevision(r) \/ ReadSymbols(r) \/ ReadFiles(r)
    \/ CheckRevision(r)

Next ==
    \/ ChangePackages \/ ChangeManifest
    \/ \E f \in Files :
          \/ ChangeSource(f) \/ DidOpen(f) \/ DidChange(f) \/ DidClose(f)
          \/ RestoreClosed(f) \/ WatchedSource(f)
    \/ WatchedManifest \/ ConfigureOther \/ Shutdown
    \/ \E t \in Tasks :
          \/ StartReindex(t) \/ StartDownload(t)
          \/ \E path \in Paths : StartConfigure(t, path)
          \/ TaskStep(t)
    \/ \E r \in Requests : Ask(r) \/ RequestStep(r)

Spec == Init /\ [][Next]_vars

\* A task that can run is polled, blocking workers finish, and generation_lock
\* serves its waiters in turn.
FairSpec == Spec /\ \A t \in Tasks : WF_vars(TaskStep(t))

-----------------------------------------------------------------------------
TypeOK ==
    /\ disk \in [source : [Files -> Nat], packages : Nat, manifest : Nat]
    /\ changes \in 0..MaxDisk /\ starts \in 0..MaxStarts
    /\ doc \in [Files -> 0..2]
    /\ closing \in [Files -> Nat]
    /\ index \in [Files -> IndexEntries]
    /\ symbols \in SymbolSets /\ info \in SymbolSets
    /\ project \in Projects
    /\ config \in Paths /\ stamp \in Nat
    /\ state \in {"initializing", "ready", "failed", "shutdown"}
    /\ writer \in Tasks \cup {NoOne}
    /\ task \in [Tasks -> TaskStates]
    /\ aborted \subseteq Tasks
    /\ request \in [Requests -> RequestStates]
    /\ current \subseteq Actors

\* Whenever the lock is free the symbol index, the package list and the
\* project are those of one publication: no abort, of a reindex by the next
\* one or at shutdown, leaves a part of it behind.
OneGeneration == Unlocked => symbols = info /\ symbols.list = project.packages

\* Whenever the lock is free the index holds the editor's text of every open
\* document, also when a scan of the disk was published meanwhile.
OverlayWins ==
    Unlocked => \A f \in Files : doc[f] # 0 => index[f] = Edited(doc[f])

\* A request that finds the revision unmoved answers from what is published:
\* although it read without the lock while the user typed and tasks published,
\* its symbols and its files are of one generation, and that is the current one.
AnswersAreCurrent ==
    \A r \in Requests :
        request[r].pc = "check" /\ Unlocked /\ r \in current =>
            request[r].symbols = symbols /\ request[r].files = index

\* Only a full generation puts older packages or an older manifest back: a
\* download or a configuration that staged for seconds never hides what was
\* published or read while it did.
NothingGoesBack ==
    [][(info'.seen < info.seen \/ project'.manifest < project.manifest) =>
           writer \in Tasks /\ Full(writer)]_vars

\* A publishing task ends, however fast the user types: staging takes longer
\* than the pauses between two keystrokes, and is not begun again for them.
EveryTaskEnds == \A t \in Tasks : []<>(task[t].pc = "idle")

=============================================================================
