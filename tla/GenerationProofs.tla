-------------------------- MODULE GenerationProofs --------------------------
(***************************************************************************)
(* Generation for any number of files, tasks, requests and package folders *)
(* and any bounds: what is published belongs together, the editor's texts  *)
(* win, an answer that is accepted is of the current generation, and only  *)
(* a full generation publishes anything older.                             *)
(***************************************************************************)
EXTENDS Generation, TLAPS

-----------------------------------------------------------------------------
(* Kinds of steps.                                                         *)

WorldStep ==
    ChangePackages \/ ChangeManifest \/ \E f \in Files : ChangeSource(f)

EditorStep ==
    \/ WatchedManifest \/ ConfigureOther
    \/ \E f \in Files : \/ DidOpen(f) \/ DidChange(f) \/ DidClose(f)
                        \/ RestoreClosed(f) \/ WatchedSource(f)

Start(t) ==
    \/ StartReindex(t) \/ StartDownload(t)
    \/ \E path \in Paths : StartConfigure(t, path)

LEMMA KindsOfSteps ==
    Next => \/ WorldStep \/ EditorStep \/ Shutdown
            \/ \E t \in Tasks : Start(t) \/ TaskStep(t)
            \/ \E r \in Requests : Ask(r) \/ RequestStep(r)
BY Zenon DEF Next, WorldStep, EditorStep, Start

-----------------------------------------------------------------------------
(* Types.                                                                  *)

WorldOK ==
    /\ disk \in [source : [Files -> Nat], packages : Nat, manifest : Nat]
    /\ changes \in 0..MaxDisk /\ starts \in 0..MaxStarts

EditorOK ==
    /\ doc \in [Files -> 0..2]
    /\ closing \in [Files -> Nat]
    /\ index \in [Files -> IndexEntries]

PublishedOK ==
    /\ symbols \in SymbolSets /\ info \in SymbolSets
    /\ project \in Projects
    /\ config \in Paths /\ stamp \in Nat

\* Which package folder a task works for: a full generation none, a
\* configuration its own, and any other task the one of its snapshot.
PathOK(x) ==
    /\ x.kind = "configure" => x.path \in Paths
    /\ x.pc = "stage" => x.path \in Paths
    /\ x.pc = "lock" => \/ x.path \in Paths
                        \/ x.path = 0 /\ x.kind \in {"init", "reindex"}
    /\ x.pc \in {"discover", "scan", "load"} =>
          x.path = 0 /\ x.kind \in {"init", "reindex"}

TasksOK ==
    /\ task \in [Tasks -> TaskStates]
    /\ \A t \in Tasks : PathOK(task[t])

ControlOK ==
    /\ state \in {"initializing", "ready", "failed", "shutdown"}
    /\ writer \in Tasks \cup {NoOne}
    /\ aborted \subseteq Tasks
    /\ current \subseteq Actors

\* A request that may read the revision once more has an attempt left.
RequestsOK ==
    /\ request \in [Requests -> RequestStates]
    /\ \A r \in Requests : request[r].pc \in {"idle", "revision"} =>
                              request[r].attempt < MAX_OFFLOAD_ATTEMPTS

Typing ==
    WorldOK /\ EditorOK /\ PublishedOK /\ TasksOK /\ ControlOK /\ RequestsOK

LEMMA NoFilesType == NoFiles \in [Files -> IndexEntries]
BY DEF NoFiles, Saved, IndexEntries

LEMMA NothingType == NoSymbols \in SymbolSets /\ NoProject \in Projects
BY DEF NoSymbols, NoPackages, NoProject, SymbolSets, PackageLists, Projects

LEMMA NoTaskType ==
    /\ NoTask \in TaskStates /\ PathOK(NoTask)
    /\ NoTask.kind = "init" /\ NoTask.pc = "idle" /\ NoTask.path = 0
BY NoFilesType, NothingType DEF NoTask, TaskStates, TaskSteps, TaskKinds, PathOK

LEMMA NoRequestType ==
    NoRequest \in RequestStates /\ NoRequest.attempt = 0 /\ NoRequest.pc = "idle"
BY NoFilesType, BoundsAssumption DEF NoRequest, RequestStates, RequestSteps,
    NoSymbols, NoPackages,
   SymbolSets, PackageLists

LEMMA TypingInit == Init => Typing
<1> SUFFICES ASSUME Init PROVE Typing OBVIOUS
<1> USE BoundsAssumption, ActorsAssumption DEF Init
<1>1. WorldOK BY DEF WorldOK
<1>2. EditorOK BY NoFilesType DEF EditorOK
<1>3. PublishedOK BY NothingType DEF PublishedOK
<1>4. TasksOK
  <2>1. [NoTask EXCEPT !.pc = "discover"] \in TaskStates
    BY NoTaskType DEF TaskStates, TaskSteps, StagingSteps
  <2>2. task \in [Tasks -> TaskStates] BY <2>1, NoTaskType
  <2>3. PathOK([NoTask EXCEPT !.pc = "discover"])
    BY DEF NoTask, PathOK
  <2> QED BY <2>2, <2>3, NoTaskType DEF TasksOK
<1>5. ControlOK BY DEF ControlOK
<1>6. RequestsOK BY NoRequestType DEF RequestsOK
<1> QED BY <1>1, <1>2, <1>3, <1>4, <1>5, <1>6 DEF Typing

\* What packages were loaded, and the project with other files.
LEMMA LoadedType ==
    ASSUME WorldOK, NEW list \in PackageLists
    PROVE  LoadedFor(list) \in SymbolSets /\ LoadedFor(list).list = list
BY NothingType DEF WorldOK, LoadedFor, SymbolSets, NoSymbols

LEMMA ManifestType ==
    ASSUME NEW p \in Projects, NEW n \in Nat
    PROVE  /\ [p EXCEPT !.manifest = n] \in Projects
           /\ [p EXCEPT !.manifest = n].manifest = n
           /\ [p EXCEPT !.manifest = n].packages = p.packages
BY DEF Projects

\* One task moves on.
LEMMA TaskMoves ==
    ASSUME TasksOK, NEW t \in Tasks, NEW x \in TaskStates,
           PathOK(x),
           task' = [task EXCEPT ![t] = x]
    PROVE  TasksOK'
BY DEF TasksOK

LEMMA TypingImplies == Typing => TypeOK
BY DEF Typing, WorldOK, EditorOK, PublishedOK, TasksOK, ControlOK, RequestsOK,
    TypeOK

LEMMA WorldNext == Typing /\ [Next]_vars => WorldOK'
<1> SUFFICES ASSUME Typing, [Next]_vars PROVE WorldOK'
  OBVIOUS
<1> USE DEF Typing, WorldOK, world, published, editor
<1> USE BoundsAssumption
<1>1. CASE WorldStep
  <2>1. CASE ChangePackages BY <2>1 DEF ChangePackages
  <2>2. CASE ChangeManifest BY <2>2 DEF ChangeManifest
  <2>3. ASSUME NEW f \in Files, ChangeSource(f) PROVE WorldOK'
    BY <2>3 DEF ChangeSource
  <2> QED BY <1>1, <2>1, <2>2, <2>3 DEF WorldStep
<1>2. CASE EditorStep
  <2>1. CASE WatchedManifest BY <2>1 DEF WatchedManifest, ReadManifest,
      MoveGeneration
  <2>2. CASE ConfigureOther BY <2>2 DEF ConfigureOther, MoveGeneration
  <2>3. ASSUME NEW f \in Files, \/ DidOpen(f) \/ DidChange(f) \/ DidClose(f)
                               \/ RestoreClosed(f) \/ WatchedSource(f)
        PROVE WorldOK'
    <3>1. CASE DidOpen(f) BY <3>1 DEF DidOpen, Edit, MoveGeneration
    <3>2. CASE DidChange(f) BY <3>2 DEF DidChange, Edit, MoveGeneration
    <3>3. CASE DidClose(f) BY <3>3 DEF DidClose, MoveGeneration
    <3>4. CASE RestoreClosed(f) BY <3>4 DEF RestoreClosed, MoveGeneration
    <3>5. CASE WatchedSource(f) BY <3>5 DEF WatchedSource, MoveGeneration
    <3> QED BY <2>3, <3>1, <3>2, <3>3, <3>4, <3>5
  <2> QED BY <1>2, <2>1, <2>2, <2>3 DEF EditorStep
<1>3. CASE Shutdown BY <1>3 DEF Shutdown
<1>4. ASSUME NEW t \in Tasks, Start(t) PROVE WorldOK'
  <2>1. CASE StartReindex(t) BY <2>1 DEF StartReindex, ReadManifest, MoveGeneration
  <2>2. CASE StartDownload(t) BY <2>2 DEF StartDownload, ReadManifest,
      MoveGeneration
  <2>3. ASSUME NEW path \in Paths, StartConfigure(t, path) PROVE WorldOK'
    BY <2>3 DEF StartConfigure
  <2> QED BY <1>4, <2>1, <2>2, <2>3 DEF Start
<1>5. ASSUME NEW t \in Tasks, TaskStep(t) PROVE WorldOK'
  <2>1. CASE Discover(t) BY <2>1 DEF Discover
  <2>2. CASE Scan(t) BY <2>2 DEF Scan
  <2>3. CASE Load(t) BY <2>3 DEF Load
  <2>4. CASE StagingFails(t) BY <2>4 DEF StagingFails, End
  <2>5. CASE Fetch(t) BY <2>5 DEF Fetch, Goto
  <2>6. CASE Snapshot(t) BY <2>6 DEF Snapshot, End
  <2>7. CASE Stage(t) BY <2>7 DEF Stage
  <2>8. CASE TakeLock(t) BY <2>8 DEF TakeLock, Goto, End
  <2>9. CASE TakeProjectLock(t) BY <2>9 DEF TakeProjectLock
  <2>10. CASE ClearFiles(t) BY <2>10 DEF ClearFiles, Goto
  <2>11. CASE SwapFiles(t) BY <2>11 DEF SwapFiles
  <2>12. CASE ClearSymbols(t) BY <2>12 DEF ClearSymbols, Goto
  <2>13. CASE SwapSymbols(t) BY <2>13 DEF SwapSymbols, Goto
  <2>14. CASE SwapProject(t) BY <2>14 DEF SwapProject, Goto
  <2>15. CASE Revise(t) BY <2>15 DEF Revise, MoveBoth, End
  <2>16. CASE Cancel(t) BY <2>16 DEF Cancel, End
  <2> QED BY <1>5, <2>1, <2>2, <2>3, <2>4, <2>5, <2>6, <2>7, <2>8, <2>9, <2>10,
      <2>11, <2>12, <2>13, <2>14, <2>15, <2>16 DEF TaskStep
<1>6. ASSUME NEW r \in Requests, Ask(r) \/ RequestStep(r) PROVE WorldOK'
  <2>1. CASE Ask(r) BY <2>1 DEF Ask
  <2>2. CASE GiveUp(r) BY <2>2 DEF GiveUp
  <2>3. CASE ReadRevision(r) BY <2>3 DEF ReadRevision
  <2>4. CASE ReadSymbols(r) BY <2>4 DEF ReadSymbols
  <2>5. CASE ReadFiles(r) BY <2>5 DEF ReadFiles
  <2>6. CASE CheckRevision(r) BY <2>6 DEF CheckRevision
  <2> QED BY <1>6, <2>1, <2>2, <2>3, <2>4, <2>5, <2>6 DEF RequestStep
<1>7. CASE UNCHANGED vars BY <1>7 DEF vars
<1> QED BY <1>1, <1>2, <1>3, <1>4, <1>5, <1>6, <1>7, KindsOfSteps

LEMMA EditorNext == Typing /\ [Next]_vars => EditorOK'
<1> SUFFICES ASSUME Typing, [Next]_vars PROVE EditorOK'
  OBVIOUS
<1> USE DEF Typing, EditorOK, world, published, editor, IndexEntries, Saved, Edited
<1>1. CASE WorldStep
  <2>1. CASE ChangePackages BY <2>1 DEF ChangePackages
  <2>2. CASE ChangeManifest BY <2>2 DEF ChangeManifest
  <2>3. ASSUME NEW f \in Files, ChangeSource(f) PROVE EditorOK'
    BY <2>3 DEF ChangeSource
  <2> QED BY <1>1, <2>1, <2>2, <2>3 DEF WorldStep
<1>2. CASE EditorStep
  <2>1. CASE WatchedManifest BY <2>1 DEF WatchedManifest, ReadManifest,
      MoveGeneration
  <2>2. CASE ConfigureOther BY <2>2 DEF ConfigureOther, MoveGeneration
  <2>3. ASSUME NEW f \in Files, \/ DidOpen(f) \/ DidChange(f) \/ DidClose(f)
                               \/ RestoreClosed(f) \/ WatchedSource(f)
        PROVE EditorOK'
    <3>1. CASE DidOpen(f) BY <3>1 DEF DidOpen, Edit, MoveGeneration
    <3>2. CASE DidChange(f) BY <3>2 DEF DidChange, Edit, MoveGeneration
    <3>3. CASE DidClose(f) BY <3>3 DEF DidClose, MoveGeneration, WorldOK
    <3>4. CASE RestoreClosed(f)
      <4>1. disk.source[f] \in Nat BY DEF WorldOK
      <4>2. CASE doc[f] # 0 BY <3>4, <4>2 DEF RestoreClosed
      <4>3. CASE doc[f] = 0
        <5>1. PICK v \in {0} \cup closing[f]..disk.source[f] :
                index' = [index EXCEPT ![f] = Saved(v)]
          BY <3>4, <4>3 DEF RestoreClosed
        <5>2. v \in Nat BY <4>1
        <5> QED BY <3>4, <5>1, <5>2 DEF RestoreClosed
      <4> QED BY <4>2, <4>3
    <3>5. CASE WatchedSource(f) BY <3>5 DEF WatchedSource, MoveGeneration, WorldOK
    <3> QED BY <2>3, <3>1, <3>2, <3>3, <3>4, <3>5
  <2> QED BY <1>2, <2>1, <2>2, <2>3 DEF EditorStep
<1>3. CASE Shutdown BY <1>3 DEF Shutdown
<1>4. ASSUME NEW t \in Tasks, Start(t) PROVE EditorOK'
  <2>1. CASE StartReindex(t) BY <2>1 DEF StartReindex, ReadManifest, MoveGeneration
  <2>2. CASE StartDownload(t) BY <2>2 DEF StartDownload, ReadManifest,
      MoveGeneration
  <2>3. ASSUME NEW path \in Paths, StartConfigure(t, path) PROVE EditorOK'
    BY <2>3 DEF StartConfigure
  <2> QED BY <1>4, <2>1, <2>2, <2>3 DEF Start
<1>5. ASSUME NEW t \in Tasks, TaskStep(t) PROVE EditorOK'
  <2>1. CASE Discover(t) BY <2>1 DEF Discover
  <2>2. CASE Scan(t) BY <2>2 DEF Scan
  <2>3. CASE Load(t) BY <2>3 DEF Load
  <2>4. CASE StagingFails(t) BY <2>4 DEF StagingFails, End
  <2>5. CASE Fetch(t) BY <2>5 DEF Fetch, Goto
  <2>6. CASE Snapshot(t) BY <2>6 DEF Snapshot, End
  <2>7. CASE Stage(t) BY <2>7 DEF Stage
  <2>8. CASE TakeLock(t) BY <2>8 DEF TakeLock, Goto, End
  <2>9. CASE TakeProjectLock(t) BY <2>9 DEF TakeProjectLock
  <2>10. CASE ClearFiles(t) BY <2>10, NoFilesType DEF ClearFiles, Goto
  <2>11. CASE SwapFiles(t) BY <2>11 DEF SwapFiles, TasksOK, TaskStates
  <2>12. CASE ClearSymbols(t) BY <2>12 DEF ClearSymbols, Goto
  <2>13. CASE SwapSymbols(t) BY <2>13 DEF SwapSymbols, Goto
  <2>14. CASE SwapProject(t) BY <2>14 DEF SwapProject, Goto
  <2>15. CASE Revise(t) BY <2>15 DEF Revise, MoveBoth, End
  <2>16. CASE Cancel(t) BY <2>16 DEF Cancel, End
  <2> QED BY <1>5, <2>1, <2>2, <2>3, <2>4, <2>5, <2>6, <2>7, <2>8, <2>9, <2>10,
      <2>11, <2>12, <2>13, <2>14, <2>15, <2>16 DEF TaskStep
<1>6. ASSUME NEW r \in Requests, Ask(r) \/ RequestStep(r) PROVE EditorOK'
  <2>1. CASE Ask(r) BY <2>1 DEF Ask
  <2>2. CASE GiveUp(r) BY <2>2 DEF GiveUp
  <2>3. CASE ReadRevision(r) BY <2>3 DEF ReadRevision
  <2>4. CASE ReadSymbols(r) BY <2>4 DEF ReadSymbols
  <2>5. CASE ReadFiles(r) BY <2>5 DEF ReadFiles
  <2>6. CASE CheckRevision(r) BY <2>6 DEF CheckRevision
  <2> QED BY <1>6, <2>1, <2>2, <2>3, <2>4, <2>5, <2>6 DEF RequestStep
<1>7. CASE UNCHANGED vars BY <1>7 DEF vars
<1> QED BY <1>1, <1>2, <1>3, <1>4, <1>5, <1>6, <1>7, KindsOfSteps

LEMMA PublishedNext == Typing /\ [Next]_vars => PublishedOK'
<1> SUFFICES ASSUME Typing, [Next]_vars PROVE PublishedOK'
  OBVIOUS
<1> USE DEF Typing, PublishedOK, world, published, editor
<1>1. CASE WorldStep
  <2>1. CASE ChangePackages BY <2>1 DEF ChangePackages
  <2>2. CASE ChangeManifest BY <2>2 DEF ChangeManifest
  <2>3. ASSUME NEW f \in Files, ChangeSource(f) PROVE PublishedOK'
    BY <2>3 DEF ChangeSource
  <2> QED BY <1>1, <2>1, <2>2, <2>3 DEF WorldStep
<1>2. CASE EditorStep
  <2>1. CASE WatchedManifest BY <2>1, ManifestType DEF WatchedManifest,
      ReadManifest, MoveGeneration, WorldOK
  <2>2. CASE ConfigureOther BY <2>2 DEF ConfigureOther, MoveGeneration
  <2>3. ASSUME NEW f \in Files, \/ DidOpen(f) \/ DidChange(f) \/ DidClose(f)
                               \/ RestoreClosed(f) \/ WatchedSource(f)
        PROVE PublishedOK'
    <3>1. CASE DidOpen(f) BY <3>1 DEF DidOpen, Edit, MoveGeneration
    <3>2. CASE DidChange(f) BY <3>2 DEF DidChange, Edit, MoveGeneration
    <3>3. CASE DidClose(f) BY <3>3 DEF DidClose, MoveGeneration
    <3>4. CASE RestoreClosed(f) BY <3>4 DEF RestoreClosed, MoveGeneration
    <3>5. CASE WatchedSource(f) BY <3>5 DEF WatchedSource, MoveGeneration
    <3> QED BY <2>3, <3>1, <3>2, <3>3, <3>4, <3>5
  <2> QED BY <1>2, <2>1, <2>2, <2>3 DEF EditorStep
<1>3. CASE Shutdown BY <1>3 DEF Shutdown
<1>4. ASSUME NEW t \in Tasks, Start(t) PROVE PublishedOK'
  <2>1. CASE StartReindex(t) BY <2>1, ManifestType DEF StartReindex,
      ReadManifest, MoveGeneration, WorldOK
  <2>2. CASE StartDownload(t) BY <2>2, ManifestType DEF StartDownload,
      ReadManifest, MoveGeneration, WorldOK
  <2>3. ASSUME NEW path \in Paths, StartConfigure(t, path) PROVE PublishedOK'
    BY <2>3 DEF StartConfigure
  <2> QED BY <1>4, <2>1, <2>2, <2>3 DEF Start
<1>5. ASSUME NEW t \in Tasks, TaskStep(t) PROVE PublishedOK'
  <2>1. CASE Discover(t) BY <2>1 DEF Discover
  <2>2. CASE Scan(t) BY <2>2 DEF Scan
  <2>3. CASE Load(t) BY <2>3 DEF Load
  <2>4. CASE StagingFails(t) BY <2>4 DEF StagingFails, End
  <2>5. CASE Fetch(t) BY <2>5 DEF Fetch, Goto
  <2>6. CASE Snapshot(t) BY <2>6 DEF Snapshot, End
  <2>7. CASE Stage(t) BY <2>7 DEF Stage
  <2>8. CASE TakeLock(t)
    <3>1. PathOK(task[t]) /\ task[t].pc = "lock" BY <2>8 DEF TakeLock, TasksOK
    <3>2. ~Full(t) => task[t].path \in Paths BY <3>1 DEF Full, PathOK
    <3>3. config' \in Paths BY <2>8, <3>2 DEF TakeLock, Goto, End
    <3> QED BY <2>8, <3>3 DEF TakeLock
  <2>9. CASE TakeProjectLock(t) BY <2>9 DEF TakeProjectLock
  <2>10. CASE ClearFiles(t) BY <2>10 DEF ClearFiles, Goto
  <2>11. CASE SwapFiles(t) BY <2>11 DEF SwapFiles
  <2>12. CASE ClearSymbols(t) BY <2>12, NothingType DEF ClearSymbols, Goto
  <2>13. CASE SwapSymbols(t) BY <2>13 DEF SwapSymbols, Goto, TasksOK, TaskStates
  <2>14. CASE SwapProject(t) BY <2>14 DEF SwapProject, Goto, TasksOK, TaskStates,
      PathOK
  <2>15. CASE Revise(t) BY <2>15 DEF Revise, MoveBoth, End
  <2>16. CASE Cancel(t) BY <2>16 DEF Cancel, End
  <2> QED BY <1>5, <2>1, <2>2, <2>3, <2>4, <2>5, <2>6, <2>7, <2>8, <2>9, <2>10,
      <2>11, <2>12, <2>13, <2>14, <2>15, <2>16 DEF TaskStep
<1>6. ASSUME NEW r \in Requests, Ask(r) \/ RequestStep(r) PROVE PublishedOK'
  <2>1. CASE Ask(r) BY <2>1 DEF Ask
  <2>2. CASE GiveUp(r) BY <2>2 DEF GiveUp
  <2>3. CASE ReadRevision(r) BY <2>3 DEF ReadRevision
  <2>4. CASE ReadSymbols(r) BY <2>4 DEF ReadSymbols
  <2>5. CASE ReadFiles(r) BY <2>5 DEF ReadFiles
  <2>6. CASE CheckRevision(r) BY <2>6 DEF CheckRevision
  <2> QED BY <1>6, <2>1, <2>2, <2>3, <2>4, <2>5, <2>6 DEF RequestStep
<1>7. CASE UNCHANGED vars BY <1>7 DEF vars
<1> QED BY <1>1, <1>2, <1>3, <1>4, <1>5, <1>6, <1>7, KindsOfSteps

LEMMA ControlNext == Typing /\ [Next]_vars => ControlOK'
<1> SUFFICES ASSUME Typing, [Next]_vars PROVE ControlOK'
  OBVIOUS
<1> USE DEF Typing, ControlOK, world, published, editor, Actors
<1>1. CASE WorldStep
  <2>1. CASE ChangePackages BY <2>1 DEF ChangePackages
  <2>2. CASE ChangeManifest BY <2>2 DEF ChangeManifest
  <2>3. ASSUME NEW f \in Files, ChangeSource(f) PROVE ControlOK'
    BY <2>3 DEF ChangeSource
  <2> QED BY <1>1, <2>1, <2>2, <2>3 DEF WorldStep
<1>2. CASE EditorStep
  <2>1. CASE WatchedManifest BY <2>1 DEF WatchedManifest, ReadManifest,
      MoveGeneration
  <2>2. CASE ConfigureOther BY <2>2 DEF ConfigureOther, MoveGeneration
  <2>3. ASSUME NEW f \in Files, \/ DidOpen(f) \/ DidChange(f) \/ DidClose(f)
                               \/ RestoreClosed(f) \/ WatchedSource(f)
        PROVE ControlOK'
    <3>1. CASE DidOpen(f) BY <3>1 DEF DidOpen, Edit, MoveGeneration
    <3>2. CASE DidChange(f) BY <3>2 DEF DidChange, Edit, MoveGeneration
    <3>3. CASE DidClose(f) BY <3>3 DEF DidClose, MoveGeneration
    <3>4. CASE RestoreClosed(f) BY <3>4 DEF RestoreClosed, MoveGeneration
    <3>5. CASE WatchedSource(f) BY <3>5 DEF WatchedSource, MoveGeneration
    <3> QED BY <2>3, <3>1, <3>2, <3>3, <3>4, <3>5
  <2> QED BY <1>2, <2>1, <2>2, <2>3 DEF EditorStep
<1>3. CASE Shutdown BY <1>3 DEF Shutdown, Reindexing
<1>4. ASSUME NEW t \in Tasks, Start(t) PROVE ControlOK'
  <2>1. CASE StartReindex(t) BY <2>1 DEF StartReindex, ReadManifest,
      MoveGeneration, Reindexing
  <2>2. CASE StartDownload(t) BY <2>2 DEF StartDownload, ReadManifest,
      MoveGeneration
  <2>3. ASSUME NEW path \in Paths, StartConfigure(t, path) PROVE ControlOK'
    BY <2>3 DEF StartConfigure
  <2> QED BY <1>4, <2>1, <2>2, <2>3 DEF Start
<1>5. ASSUME NEW t \in Tasks, TaskStep(t) PROVE ControlOK'
  <2>1. CASE Discover(t) BY <2>1 DEF Discover
  <2>2. CASE Scan(t) BY <2>2 DEF Scan
  <2>3. CASE Load(t) BY <2>3 DEF Load
  <2>4. CASE StagingFails(t) BY <2>4 DEF StagingFails, End
  <2>5. CASE Fetch(t) BY <2>5 DEF Fetch, Goto
  <2>6. CASE Snapshot(t) BY <2>6 DEF Snapshot, End
  <2>7. CASE Stage(t) BY <2>7 DEF Stage
  <2>8. CASE TakeLock(t) BY <2>8 DEF TakeLock, Goto, End
  <2>9. CASE TakeProjectLock(t) BY <2>9 DEF TakeProjectLock
  <2>10. CASE ClearFiles(t) BY <2>10 DEF ClearFiles, Goto
  <2>11. CASE SwapFiles(t) BY <2>11 DEF SwapFiles
  <2>12. CASE ClearSymbols(t) BY <2>12 DEF ClearSymbols, Goto
  <2>13. CASE SwapSymbols(t) BY <2>13 DEF SwapSymbols, Goto
  <2>14. CASE SwapProject(t) BY <2>14 DEF SwapProject, Goto
  <2>15. CASE Revise(t) BY <2>15 DEF Revise, MoveBoth, End
  <2>16. CASE Cancel(t) BY <2>16 DEF Cancel, End
  <2> QED BY <1>5, <2>1, <2>2, <2>3, <2>4, <2>5, <2>6, <2>7, <2>8, <2>9, <2>10,
      <2>11, <2>12, <2>13, <2>14, <2>15, <2>16 DEF TaskStep
<1>6. ASSUME NEW r \in Requests, Ask(r) \/ RequestStep(r) PROVE ControlOK'
  <2>1. CASE Ask(r) BY <2>1 DEF Ask
  <2>2. CASE GiveUp(r) BY <2>2 DEF GiveUp
  <2>3. CASE ReadRevision(r) BY <2>3 DEF ReadRevision
  <2>4. CASE ReadSymbols(r) BY <2>4 DEF ReadSymbols
  <2>5. CASE ReadFiles(r) BY <2>5 DEF ReadFiles
  <2>6. CASE CheckRevision(r) BY <2>6 DEF CheckRevision
  <2> QED BY <1>6, <2>1, <2>2, <2>3, <2>4, <2>5, <2>6 DEF RequestStep
<1>7. CASE UNCHANGED vars BY <1>7 DEF vars
<1> QED BY <1>1, <1>2, <1>3, <1>4, <1>5, <1>6, <1>7, KindsOfSteps

LEMMA RequestsNext == Typing /\ [Next]_vars => RequestsOK'
<1> SUFFICES ASSUME Typing, [Next]_vars PROVE RequestsOK'
  OBVIOUS
<1> USE DEF Typing, RequestsOK, world, published, editor
<1>1. CASE WorldStep
  <2>1. CASE ChangePackages BY <2>1 DEF ChangePackages
  <2>2. CASE ChangeManifest BY <2>2 DEF ChangeManifest
  <2>3. ASSUME NEW f \in Files, ChangeSource(f) PROVE RequestsOK'
    BY <2>3 DEF ChangeSource
  <2> QED BY <1>1, <2>1, <2>2, <2>3 DEF WorldStep
<1>2. CASE EditorStep
  <2>1. CASE WatchedManifest BY <2>1 DEF WatchedManifest, ReadManifest,
      MoveGeneration
  <2>2. CASE ConfigureOther BY <2>2 DEF ConfigureOther, MoveGeneration
  <2>3. ASSUME NEW f \in Files, \/ DidOpen(f) \/ DidChange(f) \/ DidClose(f)
                               \/ RestoreClosed(f) \/ WatchedSource(f)
        PROVE RequestsOK'
    <3>1. CASE DidOpen(f) BY <3>1 DEF DidOpen, Edit, MoveGeneration
    <3>2. CASE DidChange(f) BY <3>2 DEF DidChange, Edit, MoveGeneration
    <3>3. CASE DidClose(f) BY <3>3 DEF DidClose, MoveGeneration
    <3>4. CASE RestoreClosed(f) BY <3>4 DEF RestoreClosed, MoveGeneration
    <3>5. CASE WatchedSource(f) BY <3>5 DEF WatchedSource, MoveGeneration
    <3> QED BY <2>3, <3>1, <3>2, <3>3, <3>4, <3>5
  <2> QED BY <1>2, <2>1, <2>2, <2>3 DEF EditorStep
<1>3. CASE Shutdown BY <1>3 DEF Shutdown
<1>4. ASSUME NEW t \in Tasks, Start(t) PROVE RequestsOK'
  <2>1. CASE StartReindex(t) BY <2>1 DEF StartReindex, ReadManifest, MoveGeneration
  <2>2. CASE StartDownload(t) BY <2>2 DEF StartDownload, ReadManifest,
      MoveGeneration
  <2>3. ASSUME NEW path \in Paths, StartConfigure(t, path) PROVE RequestsOK'
    BY <2>3 DEF StartConfigure
  <2> QED BY <1>4, <2>1, <2>2, <2>3 DEF Start
<1>5. ASSUME NEW t \in Tasks, TaskStep(t) PROVE RequestsOK'
  <2>1. CASE Discover(t) BY <2>1 DEF Discover
  <2>2. CASE Scan(t) BY <2>2 DEF Scan
  <2>3. CASE Load(t) BY <2>3 DEF Load
  <2>4. CASE StagingFails(t) BY <2>4 DEF StagingFails, End
  <2>5. CASE Fetch(t) BY <2>5 DEF Fetch, Goto
  <2>6. CASE Snapshot(t) BY <2>6 DEF Snapshot, End
  <2>7. CASE Stage(t) BY <2>7 DEF Stage
  <2>8. CASE TakeLock(t) BY <2>8 DEF TakeLock, Goto, End
  <2>9. CASE TakeProjectLock(t) BY <2>9 DEF TakeProjectLock
  <2>10. CASE ClearFiles(t) BY <2>10 DEF ClearFiles, Goto
  <2>11. CASE SwapFiles(t) BY <2>11 DEF SwapFiles
  <2>12. CASE ClearSymbols(t) BY <2>12 DEF ClearSymbols, Goto
  <2>13. CASE SwapSymbols(t) BY <2>13 DEF SwapSymbols, Goto
  <2>14. CASE SwapProject(t) BY <2>14 DEF SwapProject, Goto
  <2>15. CASE Revise(t) BY <2>15 DEF Revise, MoveBoth, End
  <2>16. CASE Cancel(t) BY <2>16 DEF Cancel, End
  <2> QED BY <1>5, <2>1, <2>2, <2>3, <2>4, <2>5, <2>6, <2>7, <2>8, <2>9, <2>10,
      <2>11, <2>12, <2>13, <2>14, <2>15, <2>16 DEF TaskStep
<1>6. ASSUME NEW r \in Requests, Ask(r) \/ RequestStep(r) PROVE RequestsOK'
  <2>1. CASE Ask(r) BY <2>1 DEF Ask, RequestStates, RequestSteps
  <2>2. CASE GiveUp(r) BY <2>2, NoRequestType, BoundsAssumption DEF GiveUp,
      RequestStates, RequestSteps
  <2>3. CASE ReadRevision(r) BY <2>3 DEF ReadRevision, RequestStates, RequestSteps
  <2>4. CASE ReadSymbols(r) BY <2>4 DEF ReadSymbols, RequestStates, RequestSteps,
      PublishedOK
  <2>5. CASE ReadFiles(r) BY <2>5 DEF ReadFiles, RequestStates, RequestSteps,
      EditorOK
  <2>6. CASE CheckRevision(r)
    <3>1. CASE Settled(r) BY <2>6, <3>1, NoRequestType, BoundsAssumption
        DEF CheckRevision
    <3>2. CASE ~Settled(r)
      <4>1. /\ request[r].attempt \in 0..MAX_OFFLOAD_ATTEMPTS
            /\ request[r].attempt < MAX_OFFLOAD_ATTEMPTS
        BY <3>2, BoundsAssumption DEF Settled, RequestStates
      <4>2. [NoRequest EXCEPT !.pc = "revision", !.attempt = request[r].attempt]
               \in RequestStates
        BY <4>1, NoRequestType DEF RequestStates, RequestSteps
      <4>3. [NoRequest EXCEPT !.pc = "revision", !.attempt = request[r].attempt].attempt
               = request[r].attempt
        BY NoRequestType DEF RequestStates
      <4> QED BY <2>6, <3>2, <4>1, <4>2, <4>3, BoundsAssumption DEF CheckRevision
    <3> QED BY <3>1, <3>2
  <2> QED BY <1>6, <2>1, <2>2, <2>3, <2>4, <2>5, <2>6 DEF RequestStep
<1>7. CASE UNCHANGED vars BY <1>7 DEF vars
<1> QED BY <1>1, <1>2, <1>3, <1>4, <1>5, <1>6, <1>7, KindsOfSteps

LEMMA TasksNext == Typing /\ [Next]_vars => TasksOK'
<1> SUFFICES ASSUME Typing, [Next]_vars PROVE TasksOK'
  OBVIOUS
<1> USE DEF Typing, world, published, editor
<1>1. CASE WorldStep
  <2>1. CASE ChangePackages BY <2>1 DEF ChangePackages, TasksOK
  <2>2. CASE ChangeManifest BY <2>2 DEF ChangeManifest, TasksOK
  <2>3. ASSUME NEW f \in Files, ChangeSource(f) PROVE TasksOK'
    BY <2>3 DEF ChangeSource, TasksOK
  <2> QED BY <1>1, <2>1, <2>2, <2>3 DEF WorldStep
<1>2. CASE EditorStep
  <2>1. CASE WatchedManifest BY <2>1 DEF WatchedManifest, ReadManifest,
      MoveGeneration, TasksOK
  <2>2. CASE ConfigureOther BY <2>2 DEF ConfigureOther, MoveGeneration, TasksOK
  <2>3. ASSUME NEW f \in Files, \/ DidOpen(f) \/ DidChange(f) \/ DidClose(f)
                               \/ RestoreClosed(f) \/ WatchedSource(f)
        PROVE TasksOK'
    <3>1. CASE DidOpen(f) BY <3>1 DEF DidOpen, Edit, MoveGeneration, TasksOK
    <3>2. CASE DidChange(f) BY <3>2 DEF DidChange, Edit, MoveGeneration, TasksOK
    <3>3. CASE DidClose(f) BY <3>3 DEF DidClose, MoveGeneration, TasksOK
    <3>4. CASE RestoreClosed(f) BY <3>4 DEF RestoreClosed, MoveGeneration, TasksOK
    <3>5. CASE WatchedSource(f) BY <3>5 DEF WatchedSource, MoveGeneration, TasksOK
    <3> QED BY <2>3, <3>1, <3>2, <3>3, <3>4, <3>5
  <2> QED BY <1>2, <2>1, <2>2, <2>3 DEF EditorStep
<1>3. CASE Shutdown BY <1>3 DEF Shutdown, TasksOK
<1>4. ASSUME NEW t \in Tasks, Start(t) PROVE TasksOK'
  <2>1. CASE StartReindex(t)
    <3> DEFINE x == [NoTask EXCEPT !.pc = "discover", !.kind = "reindex"]
    <3>1. x \in TaskStates /\ PathOK(x)
      BY NoTaskType DEF TaskStates, TaskSteps, StagingSteps, SwapSteps,
          TaskKinds, PathOK
    <3>2. task' = [task EXCEPT ![t] = x] BY <2>1 DEF StartReindex, ReadManifest,
        MoveGeneration
    <3> HIDE DEF x
    <3> QED BY <3>1, <3>2, TaskMoves
  <2>2. CASE StartDownload(t)
    <3> DEFINE x == [NoTask EXCEPT !.kind = "download",
              !.pc = IF project = NoProject THEN "idle" ELSE "fetch"]
    <3>1. x \in TaskStates /\ PathOK(x)
      BY NoTaskType DEF TaskStates, TaskSteps, StagingSteps, SwapSteps,
          TaskKinds, PathOK
    <3>2. task' = [task EXCEPT ![t] = x] BY <2>2 DEF StartDownload, ReadManifest,
        MoveGeneration
    <3> HIDE DEF x
    <3> QED BY <3>1, <3>2, TaskMoves
  <2>3. ASSUME NEW path \in Paths, StartConfigure(t, path) PROVE TasksOK'
    <3> DEFINE x == [NoTask EXCEPT !.pc = "snapshot", !.kind = "configure",
                                   !.path = path]
    <3>1. x \in TaskStates /\ PathOK(x)
      BY NoTaskType, ActorsAssumption DEF TaskStates, TaskSteps, StagingSteps,
          SwapSteps, TaskKinds, PathOK
    <3>2. task' = [task EXCEPT ![t] = x] BY <2>3 DEF StartConfigure
    <3> HIDE DEF x
    <3> QED BY <3>1, <3>2, TaskMoves
  <2> QED BY <1>4, <2>1, <2>2, <2>3 DEF Start
<1>5. ASSUME NEW t \in Tasks, TaskStep(t) PROVE TasksOK'
  <2>1. CASE Discover(t)
    <3> DEFINE p == IF disk.manifest = 0 THEN NoProject
                   ELSE [manifest |-> disk.manifest,
                         packages |-> [path |-> config, dir |-> disk.packages]]
    <3> DEFINE x == [task[t] EXCEPT !.pc = "scan", !.project = p]
    <3>1. p \in Projects
      BY NothingType, ActorsAssumption DEF WorldOK, PublishedOK, Projects,
          PackageLists
    <3>2. task' = [task EXCEPT ![t] = x] BY <2>1 DEF Discover
    <3> HIDE DEF p
    <3>3. x \in TaskStates /\ PathOK(x)
      BY <2>1, <3>1 DEF Discover, TasksOK, TaskStates, TaskSteps, StagingSteps,
          PathOK
    <3> HIDE DEF x
    <3> QED BY <3>2, <3>3, TaskMoves
  <2>2. CASE Scan(t)
    <3> DEFINE fs == [f \in Files |-> Saved(disk.source[f])]
    <3> DEFINE x == [task[t] EXCEPT !.pc = "load", !.files = fs]
    <3>1. fs \in [Files -> IndexEntries] BY DEF WorldOK, Saved, IndexEntries
    <3>2. task' = [task EXCEPT ![t] = x] BY <2>2 DEF Scan
    <3> HIDE DEF fs
    <3>3. x \in TaskStates /\ PathOK(x)
      BY <2>2, <3>1 DEF Scan, TasksOK, TaskStates, TaskSteps, StagingSteps, PathOK
    <3> HIDE DEF x
    <3> QED BY <3>2, <3>3, TaskMoves
  <2>3. CASE Load(t)
    <3> DEFINE loaded == LoadedFor(task[t].project.packages)
    <3> DEFINE x == [task[t] EXCEPT !.pc = "lock", !.symbols = loaded]
    <3>1. task[t].project.packages \in PackageLists
      BY DEF TasksOK, TaskStates, Projects
    <3>2. loaded \in SymbolSets BY <3>1, LoadedType
    <3>3. task' = [task EXCEPT ![t] = x] BY <2>3 DEF Load
    <3> HIDE DEF loaded
    <3>4. x \in TaskStates /\ PathOK(x)
      BY <2>3, <3>2 DEF Load, TasksOK, TaskStates, TaskSteps, PathOK
    <3> HIDE DEF x
    <3> QED BY <3>3, <3>4, TaskMoves
  <2>4. CASE StagingFails(t)
    <3>1. task' = [task EXCEPT ![t] = NoTask] BY <2>4 DEF StagingFails, End
    <3> QED BY <3>1, TaskMoves, NoTaskType
  <2>5. CASE Fetch(t)
    <3> DEFINE x == [task[t] EXCEPT !.pc = "snapshot"]
    <3>1. task[t] \in TaskStates /\ PathOK(task[t]) BY DEF TasksOK
    <3>2. x \in TaskStates /\ PathOK(x)
      BY <3>1 DEF TaskStates, TaskSteps, StagingSteps, SwapSteps, PathOK
    <3>3. task' = [task EXCEPT ![t] = x] BY <2>5 DEF Fetch, Goto
    <3> HIDE DEF x
    <3> QED BY <3>2, <3>3, TaskMoves
  <2>6. CASE Snapshot(t)
    <3> DEFINE path == IF task[t].kind = "configure" THEN task[t].path ELSE config
    <3> DEFINE x == [task[t] EXCEPT !.pc = "stage", !.path = path, !.project = project]
    <3> DEFINE y == [task[t] EXCEPT !.pc = "lock", !.project = NoProject]
    <3>1. path \in Paths BY DEF TasksOK, PublishedOK, PathOK
    <3>2. \/ task' = [task EXCEPT ![t] = x]
          \/ task[t].kind = "configure" /\ task' = [task EXCEPT ![t] = y]
          \/ task' = [task EXCEPT ![t] = NoTask]
      BY <2>6 DEF Snapshot, End
    <3> HIDE DEF path
    <3>3. task[t] \in TaskStates /\ PathOK(task[t]) BY DEF TasksOK
    <3>4. x \in TaskStates
      BY <3>1, <3>3, ActorsAssumption DEF PublishedOK, TaskStates, TaskSteps,
          StagingSteps
    <3>5. PathOK(x) BY <3>1, <3>3 DEF TaskStates, PathOK
    <3>6. y \in TaskStates BY <3>3, NothingType DEF TaskStates, TaskSteps
    <3>7. task[t].kind = "configure" => PathOK(y) BY <3>3 DEF TaskStates, PathOK
    <3> HIDE DEF x, y
    <3> QED BY <3>2, <3>4, <3>5, <3>6, <3>7, TaskMoves, NoTaskType
  <2>7. CASE Stage(t)
    <3> DEFINE list == [path |-> task[t].path, dir |-> disk.packages]
    <3>1. list \in PackageLists
      BY DEF TasksOK, TaskStates, PackageLists, WorldOK
    <3>2. LoadedFor(list) \in SymbolSets BY <3>1, LoadedType
    <3> DEFINE x == [task[t] EXCEPT !.pc = "lock", !.project.packages = list,
                                   !.symbols = LoadedFor(list)]
    <3>3. task' = [task EXCEPT ![t] = x] BY <2>7 DEF Stage
    <3> HIDE DEF list
    <3>4. [task[t].project EXCEPT !.packages = list] \in Projects
      BY <3>1 DEF TasksOK, TaskStates, Projects
    <3>5. task[t] \in TaskStates /\ PathOK(task[t]) BY DEF TasksOK
    <3>6. x \in TaskStates BY <3>2, <3>4, <3>5 DEF TaskStates, TaskSteps
    <3>7. PathOK(x) BY <2>7, <3>5 DEF Stage, TaskStates, PathOK
    <3> HIDE DEF x
    <3> QED BY <3>3, <3>6, <3>7, TaskMoves
  <2>8. CASE TakeLock(t)
    <3> DEFINE x == [task[t] EXCEPT !.pc = "snapshot"]
    <3> DEFINE y == [task[t] EXCEPT !.pc = "project_lock"]
    <3>1. \/ task' = [task EXCEPT ![t] = x]
          \/ task' = [task EXCEPT ![t] = y]
          \/ task' = [task EXCEPT ![t] = NoTask]
      BY <2>8 DEF TakeLock, Goto, End
    <3>2. /\ x \in TaskStates /\ PathOK(x)
          /\ y \in TaskStates /\ PathOK(y)
      BY DEF TasksOK, TaskStates, TaskSteps, StagingSteps, SwapSteps, TaskKinds,
          PathOK
    <3> HIDE DEF x, y
    <3> QED BY <3>1, <3>2, TaskMoves, NoTaskType
  <2>9. CASE TakeProjectLock(t)
    <3> DEFINE x == [task[t] EXCEPT !.pc = "clear_files", !.files = WithOverlays(t)]
    <3> DEFINE y == [task[t] EXCEPT !.pc = "clear_symbols", !.project = Keeping(t)]
    <3>1. task' = [task EXCEPT ![t] = x] \/ task' = [task EXCEPT ![t] = y]
      BY <2>9 DEF TakeProjectLock
    <3>2. WithOverlays(t) \in [Files -> IndexEntries]
      BY DEF WithOverlays, TasksOK, TaskStates, EditorOK, Edited, IndexEntries
    <3>3. Keeping(t) \in Projects
      BY ManifestType DEF Keeping, TasksOK, TaskStates, PublishedOK, Projects
    <3>4. task[t] \in TaskStates /\ PathOK(task[t]) BY DEF TasksOK
    <3>5. x \in TaskStates /\ PathOK(x)
      BY <3>2, <3>4 DEF TaskStates, TaskSteps, SwapSteps, PathOK
    <3>6. y \in TaskStates /\ PathOK(y)
      BY <3>3, <3>4 DEF TaskStates, TaskSteps, SwapSteps, PathOK
    <3> HIDE DEF x, y
    <3> QED BY <3>1, <3>5, <3>6, TaskMoves
  <2>10. CASE ClearFiles(t)
    <3> DEFINE x == [task[t] EXCEPT !.pc = "files"]
    <3>1. task[t] \in TaskStates /\ PathOK(task[t]) BY DEF TasksOK
    <3>2. x \in TaskStates /\ PathOK(x)
      BY <3>1 DEF TaskStates, TaskSteps, StagingSteps, SwapSteps, PathOK
    <3>3. task' = [task EXCEPT ![t] = x] BY <2>10 DEF ClearFiles, Goto
    <3> HIDE DEF x
    <3> QED BY <3>2, <3>3, TaskMoves
  <2>11. CASE SwapFiles(t)
    <3> DEFINE x == [task[t] EXCEPT !.pc = "clear_symbols", !.files = NoFiles]
    <3>1. task[t] \in TaskStates /\ PathOK(task[t]) BY DEF TasksOK
    <3>2. x \in TaskStates /\ PathOK(x)
      BY <3>1, NoFilesType DEF TaskStates, TaskSteps, StagingSteps, SwapSteps,
          PathOK
    <3>3. task' = [task EXCEPT ![t] = x] BY <2>11 DEF SwapFiles
    <3> HIDE DEF x
    <3> QED BY <3>2, <3>3, TaskMoves
  <2>12. CASE ClearSymbols(t)
    <3> DEFINE x == [task[t] EXCEPT !.pc = "symbols"]
    <3>1. task[t] \in TaskStates /\ PathOK(task[t]) BY DEF TasksOK
    <3>2. x \in TaskStates /\ PathOK(x)
      BY <3>1 DEF TaskStates, TaskSteps, StagingSteps, SwapSteps, PathOK
    <3>3. task' = [task EXCEPT ![t] = x] BY <2>12 DEF ClearSymbols, Goto
    <3> HIDE DEF x
    <3> QED BY <3>2, <3>3, TaskMoves
  <2>13. CASE SwapSymbols(t)
    <3> DEFINE x == [task[t] EXCEPT !.pc = "project"]
    <3>1. task[t] \in TaskStates /\ PathOK(task[t]) BY DEF TasksOK
    <3>2. x \in TaskStates /\ PathOK(x)
      BY <3>1 DEF TaskStates, TaskSteps, StagingSteps, SwapSteps, PathOK
    <3>3. task' = [task EXCEPT ![t] = x] BY <2>13 DEF SwapSymbols, Goto
    <3> HIDE DEF x
    <3> QED BY <3>2, <3>3, TaskMoves
  <2>14. CASE SwapProject(t)
    <3> DEFINE x == [task[t] EXCEPT !.pc = "revise"]
    <3>1. task[t] \in TaskStates /\ PathOK(task[t]) BY DEF TasksOK
    <3>2. x \in TaskStates /\ PathOK(x)
      BY <3>1 DEF TaskStates, TaskSteps, StagingSteps, SwapSteps, PathOK
    <3>3. task' = [task EXCEPT ![t] = x] BY <2>14 DEF SwapProject, Goto
    <3> HIDE DEF x
    <3> QED BY <3>2, <3>3, TaskMoves
  <2>15. CASE Revise(t)
    <3> DEFINE x == [NoTask EXCEPT !.pc = "fetch", !.kind = task[t].kind]
    <3>1. \/ task' = [task EXCEPT ![t] = NoTask]
          \/ Full(t) /\ task' = [task EXCEPT ![t] = x]
      BY <2>15 DEF Revise, MoveBoth, End
    <3>2. Full(t) => x \in TaskStates /\ PathOK(x)
      BY NoTaskType DEF Full, TaskStates, TaskSteps, StagingSteps, TaskKinds, PathOK
    <3> HIDE DEF x
    <3> QED BY <3>1, <3>2, TaskMoves, NoTaskType
  <2>16. CASE Cancel(t)
    <3>1. task' = [task EXCEPT ![t] = NoTask] BY <2>16 DEF Cancel, End
    <3> QED BY <3>1, TaskMoves, NoTaskType
  <2> QED BY <1>5, <2>1, <2>2, <2>3, <2>4, <2>5, <2>6, <2>7, <2>8, <2>9, <2>10,
      <2>11, <2>12, <2>13, <2>14, <2>15, <2>16 DEF TaskStep
<1>6. ASSUME NEW r \in Requests, Ask(r) \/ RequestStep(r) PROVE TasksOK'
  <2>1. CASE Ask(r) BY <2>1 DEF Ask, TasksOK
  <2>2. CASE GiveUp(r) BY <2>2 DEF GiveUp, TasksOK
  <2>3. CASE ReadRevision(r) BY <2>3 DEF ReadRevision, TasksOK
  <2>4. CASE ReadSymbols(r) BY <2>4 DEF ReadSymbols, TasksOK
  <2>5. CASE ReadFiles(r) BY <2>5 DEF ReadFiles, TasksOK
  <2>6. CASE CheckRevision(r) BY <2>6 DEF CheckRevision, TasksOK
  <2> QED BY <1>6, <2>1, <2>2, <2>3, <2>4, <2>5, <2>6 DEF RequestStep
<1>7. CASE UNCHANGED vars BY <1>7 DEF vars, TasksOK
<1> QED BY <1>1, <1>2, <1>3, <1>4, <1>5, <1>6, <1>7, KindsOfSteps

LEMMA TypingNext == Typing /\ [Next]_vars => Typing'
BY WorldNext, EditorNext, PublishedNext, TasksNext, ControlNext, RequestsNext
    DEF Typing

LEMMA TypingHolds == Spec => []Typing
<1>1. Init => Typing BY TypingInit
<1>2. Typing /\ [Next]_vars => Typing' BY TypingNext
<1> QED BY <1>1, <1>2, PTL DEF Spec

\* The types hold in every state; the attempts of a request stay within
\* MAX_OFFLOAD_ATTEMPTS.
THEOREM Typed == Spec => []TypeOK
BY TypingHolds, TypingImplies, PTL

-----------------------------------------------------------------------------
(* What the steps of others leave alone.                                   *)

\* The fields that the invariants below speak of.
LEMMA OutsideFrame ==
    ASSUME Typing, WorldStep \/ Shutdown
    PROVE  /\ UNCHANGED <<editor, published, writer, task, request, current>>
           /\ disk.packages <= disk'.packages /\ disk.manifest <= disk'.manifest
<1> USE DEF Typing, WorldOK, world, editor, published
<1>1. CASE ChangePackages BY <1>1 DEF ChangePackages
<1>2. CASE ChangeManifest BY <1>2 DEF ChangeManifest
<1>3. ASSUME NEW f \in Files, ChangeSource(f)
      PROVE  /\ UNCHANGED <<editor, published, writer, task, request, current>>
             /\ disk.packages <= disk'.packages /\ disk.manifest <= disk'.manifest
  BY <1>3 DEF ChangeSource
<1>4. CASE Shutdown BY <1>4 DEF Shutdown
<1> QED BY <1>1, <1>2, <1>3, <1>4 DEF WorldStep

\* refresh_manifest_files never touches the packages of the project.
LEMMA ManifestFrame ==
    ASSUME Typing, ReadManifest
    PROVE  /\ project'.packages = project.packages
           /\ project'.manifest = project.manifest \/ project'.manifest = disk.manifest
           /\ current' \subseteq current
           /\ current' = current \ Requests \/ UNCHANGED current
BY ManifestType DEF Typing, PublishedOK, WorldOK, ReadManifest, MoveGeneration

LEMMA EditorFrame ==
    ASSUME Typing, EditorStep
    PROVE  /\ Unlocked
           /\ UNCHANGED <<disk, symbols, info, config, writer, task, request>>
           /\ project'.packages = project.packages
           /\ project'.manifest = project.manifest \/ project'.manifest = disk.manifest
           /\ \/ current' = current \ Requests
              \/ UNCHANGED <<current, index>>
           /\ \A f \in Files : \/ doc'[f] = 0
                               \/ index'[f] = Edited(doc'[f])
                               \/ doc'[f] = doc[f] /\ index'[f] = index[f]
<1> DEFINE G == /\ Unlocked
                /\ UNCHANGED <<disk, symbols, info, config, writer, task, request>>
                /\ project'.packages = project.packages
                /\ \/ project'.manifest = project.manifest
                   \/ project'.manifest = disk.manifest
                /\ \/ current' = current \ Requests
                   \/ UNCHANGED <<current, index>>
                /\ \A f \in Files : \/ doc'[f] = 0
                                    \/ index'[f] = Edited(doc'[f])
                                    \/ doc'[f] = doc[f] /\ index'[f] = index[f]
<1> USE DEF Typing, EditorOK, world, editor, published
<1>1. CASE WatchedManifest BY <1>1, ManifestFrame DEF WatchedManifest
<1>2. CASE ConfigureOther BY <1>2 DEF ConfigureOther, MoveGeneration
<1>3. ASSUME NEW f \in Files, DidOpen(f) \/ DidChange(f) PROVE G
  BY <1>3 DEF DidOpen, DidChange, Edit, MoveGeneration
<1>4. ASSUME NEW f \in Files, DidClose(f) PROVE G
  BY <1>4 DEF DidClose, MoveGeneration
<1>5. ASSUME NEW f \in Files, RestoreClosed(f) PROVE G
  <2>1. CASE doc[f] # 0 BY <1>5, <2>1 DEF RestoreClosed
  <2>2. CASE doc[f] = 0
    <3>1. PICK v \in {0} \cup closing[f]..disk.source[f] :
            index' = [index EXCEPT ![f] = Saved(v)]
      BY <1>5, <2>2 DEF RestoreClosed
    <3> QED BY <1>5, <2>2, <3>1 DEF RestoreClosed, MoveGeneration
  <2> QED BY <2>1, <2>2
<1>6. ASSUME NEW f \in Files, WatchedSource(f) PROVE G
  BY <1>6 DEF WatchedSource, MoveGeneration
<1> QED BY <1>1, <1>2, <1>3, <1>4, <1>5, <1>6 DEF EditorStep

\* The step in which a new task begins.
Beginnings == {"idle", "discover", "fetch", "snapshot"}

LEMMA StartFrame ==
    ASSUME Typing, NEW t \in Tasks, Start(t)
    PROVE  /\ Unlocked /\ task[t].pc = "idle"
           /\ UNCHANGED <<disk, doc, index, symbols, info, config, writer, request>>
           /\ project'.packages = project.packages
           /\ project'.manifest = project.manifest \/ project'.manifest = disk.manifest
           /\ current' \subseteq current
           /\ \A u \in Tasks \ {t} : task'[u] = task[u]
           /\ task'[t].pc \in Beginnings
           /\ task'[t].symbols = NoSymbols /\ task'[t].project = NoProject
<1> USE DEF Typing, TasksOK, world, editor, published, Beginnings, NoTask
<1>1. CASE StartReindex(t) BY <1>1, ManifestFrame DEF StartReindex
<1>2. CASE StartDownload(t) BY <1>2, ManifestFrame DEF StartDownload
<1>3. ASSUME NEW path \in Paths, StartConfigure(t, path)
      PROVE  /\ Unlocked /\ task[t].pc = "idle"
             /\ UNCHANGED <<disk, doc, index, symbols, info, config, writer, request>>
             /\ project' = project /\ current' = current
             /\ \A u \in Tasks \ {t} : task'[u] = task[u]
             /\ task'[t].pc \in Beginnings
             /\ task'[t].symbols = NoSymbols /\ task'[t].project = NoProject
  BY <1>3 DEF StartConfigure
<1> QED BY <1>1, <1>2, <1>3 DEF Start

\* The steps of a task that end in different ways.
LEMMA SnapshotFrame ==
    ASSUME Typing, NEW t \in Tasks, Snapshot(t)
    PROVE  /\ Unlocked /\ task[t].pc = "snapshot"
           /\ UNCHANGED <<disk, editor, published, writer, request>>
           /\ \A u \in Tasks \ {t} : task'[u] = task[u]
           /\ current' \subseteq current \cup {t}
           /\ \/ /\ task'[t].pc = "stage" /\ task'[t].kind = task[t].kind
                 /\ task'[t].project = project /\ task'[t].symbols = task[t].symbols
              \/ /\ task'[t].pc = "lock" /\ task'[t].kind = "configure"
                 /\ task'[t].project = NoProject
                 /\ task'[t].symbols = task[t].symbols
              \/ task'[t] = NoTask
BY DEF Typing, TasksOK, TaskStates, Snapshot, End, world

LEMMA StageFrame ==
    ASSUME Typing, NEW t \in Tasks, Stage(t)
    PROVE  /\ task[t].pc = "stage" /\ task'[t].pc = "lock"
           /\ UNCHANGED <<disk, editor, published, writer, request, current>>
           /\ \A u \in Tasks \ {t} : task'[u] = task[u]
           /\ task'[t].kind = task[t].kind /\ task'[t].path = task[t].path
           /\ task'[t].project.manifest = task[t].project.manifest
           /\ task'[t].project.packages = [path |-> task[t].path, dir |-> disk.packages]
           /\ task'[t].symbols =
                 LoadedFor([path |-> task[t].path, dir |-> disk.packages])
<1> DEFINE list == [path |-> task[t].path, dir |-> disk.packages]
<1> DEFINE loaded == LoadedFor(list)
<1>1. task' = [task EXCEPT ![t].pc = "lock", ![t].project.packages = list,
                          ![t].symbols = loaded]
  BY DEF Stage
<1> HIDE DEF list, loaded
<1>2. /\ task'[t].pc = "lock" /\ \A u \in Tasks \ {t} : task'[u] = task[u]
      /\ task'[t].kind = task[t].kind /\ task'[t].path = task[t].path
      /\ task'[t].symbols = loaded
  BY <1>1 DEF Typing, TasksOK, TaskStates
<1>3. /\ task'[t].project.packages = list
      /\ task'[t].project.manifest = task[t].project.manifest
  BY <1>1 DEF Typing, TasksOK, TaskStates, Projects
<1> QED BY <1>2, <1>3 DEF Stage, list, loaded, world

LEMMA TakeLockFrame ==
    ASSUME Typing, NEW t \in Tasks, TakeLock(t)
    PROVE  /\ Unlocked /\ task[t].pc = "lock"
           /\ UNCHANGED <<disk, editor, index, symbols, project, info, request>>
           /\ \A u \in Tasks \ {t} : task'[u] = task[u]
           /\ \/ /\ task'[t] = [task[t] EXCEPT !.pc = "snapshot"]
                 /\ task'[t].pc = "snapshot"
                 /\ UNCHANGED <<writer, current>>
              \/ /\ ~Overtaken(t) /\ (Full(t) \/ task[t].project # NoProject)
                 /\ task'[t] = [task[t] EXCEPT !.pc = "project_lock"]
                 /\ task'[t].pc = "project_lock"
                 /\ writer' = t /\ UNCHANGED current
              \/ /\ task'[t] = NoTask
                 /\ task'[t].pc = "idle"
                 /\ current' = current \ (Requests \cup {t}) /\ UNCHANGED writer
BY NoTaskType DEF Typing, TasksOK, TaskStates, TakeLock, Goto, End, world, editor

LEMMA TakeProjectLockFrame ==
    ASSUME Typing, NEW t \in Tasks, TakeProjectLock(t)
    PROVE  /\ task[t].pc = "project_lock"
           /\ UNCHANGED <<disk, editor, published, writer, request, current>>
           /\ \A u \in Tasks \ {t} : task'[u] = task[u]
           /\ task'[t].kind = task[t].kind /\ task'[t].path = task[t].path
           /\ task'[t].symbols = task[t].symbols
           /\ \/ /\ Full(t) /\ task'[t].pc = "clear_files"
                 /\ task'[t].files = WithOverlays(t)
                 /\ task'[t].project = task[t].project
              \/ /\ ~Full(t) /\ task'[t].pc = "clear_symbols"
                 /\ task'[t].project = Keeping(t)
BY DEF Typing, TasksOK, TaskStates, TakeProjectLock, world

LEMMA ReviseFrame ==
    ASSUME Typing, NEW t \in Tasks, Revise(t)
    PROVE  /\ task[t].pc = "revise"
           /\ UNCHANGED <<disk, editor, published, request>>
           /\ writer' = NoOne /\ current' = {}
           /\ \A u \in Tasks \ {t} : task'[u] = task[u]
           /\ task'[t].pc \in {"idle", "fetch"}
           /\ task'[t].symbols = NoSymbols /\ task'[t].project = NoProject
<1>1. CASE task' = [task EXCEPT ![t] = NoTask]
  <2>1. task'[t] = NoTask BY <1>1 DEF Typing, TasksOK
  <2>2. task'[t].pc = "idle" /\ task'[t].symbols = NoSymbols
          /\ task'[t].project = NoProject
    BY <2>1 DEF NoTask
  <2> QED BY <1>1, <2>2 DEF Typing, TasksOK, Revise, MoveBoth, world
<1>2. CASE task' = [task EXCEPT ![t] = [NoTask EXCEPT !.pc = "fetch",
                                                     !.kind = task[t].kind]]
  <2>1. task'[t] = [NoTask EXCEPT !.pc = "fetch", !.kind = task[t].kind]
    BY <1>2 DEF Typing, TasksOK
  <2>2. task'[t].pc = "fetch" /\ task'[t].symbols = NoSymbols
          /\ task'[t].project = NoProject
    BY <2>1 DEF NoTask
  <2> QED BY <1>2, <2>2 DEF Typing, TasksOK, Revise, MoveBoth, world
<1> QED BY <1>1, <1>2 DEF Revise, End

LEMMA RequestFrame ==
    ASSUME NEW r \in Requests, Ask(r) \/ RequestStep(r)
    PROVE  UNCHANGED <<disk, doc, index, symbols, project, info, config, writer,
                       task>>
           /\ current' \cap Tasks = current \cap Tasks
<1> USE ActorsAssumption DEF world, editor, published
<1>1. CASE Ask(r) BY <1>1 DEF Ask
<1>2. CASE GiveUp(r) BY <1>2 DEF GiveUp
<1>3. CASE ReadRevision(r) BY <1>3 DEF ReadRevision
<1>4. CASE ReadSymbols(r) BY <1>4 DEF ReadSymbols
<1>5. CASE ReadFiles(r) BY <1>5 DEF ReadFiles
<1>6. CASE CheckRevision(r) BY <1>6 DEF CheckRevision
<1> QED BY <1>1, <1>2, <1>3, <1>4, <1>5, <1>6 DEF RequestStep

-----------------------------------------------------------------------------
(* The write lock.                                                         *)

Publishing == {"project_lock"} \cup SwapSteps

\* Who holds the lock follows from where the tasks are, so one task publishes
\* at a time.
LocksMatchSteps ==
    \A t \in Tasks : writer = t <=> task[t].pc \in Publishing

LEMMA LocksInit == Init => LocksMatchSteps
BY ActorsAssumption DEF Init, LocksMatchSteps, Publishing, SwapSteps, NoTask

LEMMA LocksNext == Typing /\ LocksMatchSteps /\ [Next]_vars => LocksMatchSteps'
<1> SUFFICES ASSUME Typing, LocksMatchSteps, [Next]_vars PROVE LocksMatchSteps'
  OBVIOUS
<1> USE DEF LocksMatchSteps, Publishing, SwapSteps
<1> USE ActorsAssumption
<1>1. CASE WorldStep \/ Shutdown BY <1>1, OutsideFrame
<1>2. CASE EditorStep BY <1>2, EditorFrame
<1>3. ASSUME NEW t \in Tasks, Start(t) PROVE LocksMatchSteps'
  BY <1>3, StartFrame DEF Beginnings
<1>4. ASSUME NEW t \in Tasks, TaskStep(t) PROVE LocksMatchSteps'
  <2>1. CASE Discover(t) BY <2>1 DEF Discover, Typing, TasksOK
  <2>2. CASE Scan(t) BY <2>2 DEF Scan, Typing, TasksOK
  <2>3. CASE Load(t) BY <2>3 DEF Load, Typing, TasksOK
  <2>4. CASE StagingFails(t) BY <2>4, NoTaskType DEF StagingFails, End, Typing,
      TasksOK, StagingSteps
  <2>5. CASE Fetch(t) BY <2>5 DEF Fetch, Goto, Typing, TasksOK
  <2>6. CASE Snapshot(t)
    BY <2>6, SnapshotFrame, NoTaskType DEF Unlocked
  <2>7. CASE Stage(t) BY <2>7 DEF Stage, Typing, TasksOK
  <2>8. CASE TakeLock(t)
    <3>1. writer = NoOne /\ task[t].pc = "lock"
            /\ \A u \in Tasks \ {t} : task'[u] = task[u]
      BY <2>8, TakeLockFrame DEF Unlocked
    <3>2. \/ writer' = NoOne /\ task'[t].pc \in {"snapshot", "idle"}
          \/ writer' = t /\ task'[t].pc = "project_lock"
      BY <2>8, <3>1, TakeLockFrame, NoTaskType
    <3> QED BY <3>1, <3>2
  <2>9. CASE TakeProjectLock(t)
    BY <2>9, TakeProjectLockFrame
  <2>10. CASE ClearFiles(t) BY <2>10 DEF ClearFiles, Goto, Typing, TasksOK
  <2>11. CASE SwapFiles(t) BY <2>11 DEF SwapFiles, Typing, TasksOK
  <2>12. CASE ClearSymbols(t) BY <2>12 DEF ClearSymbols, Goto, Typing, TasksOK
  <2>13. CASE SwapSymbols(t) BY <2>13 DEF SwapSymbols, Goto, Typing, TasksOK
  <2>14. CASE SwapProject(t) BY <2>14 DEF SwapProject, Goto, Typing, TasksOK
  <2>15. CASE Revise(t)
    BY <2>15, ReviseFrame
  <2>16. CASE Cancel(t) BY <2>16, NoTaskType DEF Cancel, End, Typing, TasksOK,
      AwaitPoints, StagingSteps, Unlocked
  <2> QED BY <1>4, <2>1, <2>2, <2>3, <2>4, <2>5, <2>6, <2>7, <2>8, <2>9, <2>10,
      <2>11, <2>12, <2>13, <2>14, <2>15, <2>16 DEF TaskStep
<1>5. ASSUME NEW r \in Requests, Ask(r) \/ RequestStep(r) PROVE LocksMatchSteps'
  BY <1>5, RequestFrame
<1>6. CASE UNCHANGED vars BY <1>6 DEF vars, world, editor, published
<1> QED BY <1>1, <1>2, <1>3, <1>4, <1>5, <1>6, KindsOfSteps

-----------------------------------------------------------------------------
(* One publication at a time leaves one generation.                        *)

Coherent == symbols = info /\ symbols.list = project.packages

\* Between the swap of the symbols and the swap of the project the published
\* parts differ, and only there; what a task is about to publish belongs
\* together.
PublishedTogether ==
    /\ (\A t \in Tasks : task[t].pc \notin {"symbols", "project"}) => Coherent
    /\ \A t \in Tasks : task[t].pc = "project" => symbols = task[t].symbols

StagedTogether ==
    \A t \in Tasks :
        /\ task[t].pc \in Publishing =>
              task[t].symbols.list = task[t].project.packages
        /\ task[t].pc = "lock" =>
              \/ task[t].symbols.list = task[t].project.packages
              \/ task[t].kind = "configure" /\ task[t].project = NoProject

LEMMA TogetherInit == Init => PublishedTogether /\ StagedTogether
BY DEF Init, PublishedTogether, StagedTogether, Coherent, Publishing, SwapSteps,
   NoTask, NoSymbols, NoProject, NoPackages

LEMMA StagedNext ==
    Typing /\ LocksMatchSteps /\ StagedTogether /\ [Next]_vars => StagedTogether'
<1> SUFFICES ASSUME Typing, LocksMatchSteps, StagedTogether, [Next]_vars
    PROVE StagedTogether'
  OBVIOUS
<1> USE DEF StagedTogether, Publishing, SwapSteps
<1> USE ActorsAssumption
<1>1. CASE WorldStep \/ Shutdown BY <1>1, OutsideFrame
<1>2. CASE EditorStep BY <1>2, EditorFrame
<1>3. ASSUME NEW t \in Tasks, Start(t) PROVE StagedTogether'
  BY <1>3, StartFrame DEF Beginnings
<1>4. ASSUME NEW t \in Tasks, TaskStep(t) PROVE StagedTogether'
  <2>1. CASE Discover(t) BY <2>1 DEF Discover, Typing, TasksOK, TaskStates
  <2>2. CASE Scan(t) BY <2>2 DEF Scan, Typing, TasksOK, TaskStates
  <2>3. CASE Load(t)
    <3>1. task[t].project.packages \in PackageLists
      BY DEF Typing, TasksOK, TaskStates, Projects
    <3> DEFINE loaded == LoadedFor(task[t].project.packages)
    <3>2. loaded.list = task[t].project.packages BY <3>1, LoadedType DEF Typing
    <3>3. task' = [task EXCEPT ![t].pc = "lock", ![t].symbols = loaded]
      BY <2>3 DEF Load
    <3> HIDE DEF loaded
    <3> QED BY <3>2, <3>3 DEF Typing, TasksOK, TaskStates
  <2>4. CASE StagingFails(t) BY <2>4, NoTaskType DEF StagingFails, End, Typing,
      TasksOK, TaskStates
  <2>5. CASE Fetch(t) BY <2>5 DEF Fetch, Goto, Typing, TasksOK, TaskStates
  <2>6. CASE Snapshot(t)
    BY <2>6, SnapshotFrame, NoTaskType
  <2>7. CASE Stage(t)
    <3> DEFINE list == [path |-> task[t].path, dir |-> disk.packages]
    <3>1. list \in PackageLists
      BY DEF Typing, TasksOK, TaskStates, PackageLists, WorldOK
    <3>2. LoadedFor(list).list = list BY <3>1, LoadedType DEF Typing
    <3>3. task'[t].symbols.list = task'[t].project.packages
      BY <2>7, <3>2, StageFrame
    <3>4. task'[t].pc = "lock" /\ \A u \in Tasks \ {t} : task'[u] = task[u]
      BY <2>7, StageFrame
    <3> QED BY <3>3, <3>4
  <2>8. CASE TakeLock(t)
    <3>1. task[t].pc = "lock" /\ \A u \in Tasks \ {t} : task'[u] = task[u]
      BY <2>8, TakeLockFrame
    <3>2. CASE task'[t].pc \in {"snapshot", "idle"} BY <3>1, <3>2
    <3>3. CASE task'[t].pc = "project_lock"
      <4>1. Full(t) \/ task[t].project # NoProject
        BY <3>3, <2>8, TakeLockFrame, NoTaskType
      <4>2. task[t].symbols.list = task[t].project.packages
        BY <3>1, <4>1 DEF Full
      <4>3. task'[t] = [task[t] EXCEPT !.pc = "project_lock"]
        BY <3>3, <2>8, TakeLockFrame, NoTaskType
      <4> QED BY <3>1, <3>3, <4>2, <4>3 DEF Typing, TasksOK, TaskStates
    <3> QED BY <3>2, <3>3, <2>8, TakeLockFrame
  <2>9. CASE TakeProjectLock(t)
    <3>1. Keeping(t).packages = task[t].project.packages
      BY ManifestType
      DEF Keeping, Typing, TasksOK, TaskStates, PublishedOK, Projects
    <3> QED BY <2>9, <3>1, TakeProjectLockFrame
  <2>10. CASE ClearFiles(t) BY <2>10 DEF ClearFiles, Goto, Typing, TasksOK,
      TaskStates
  <2>11. CASE SwapFiles(t) BY <2>11 DEF SwapFiles, Typing, TasksOK, TaskStates
  <2>12. CASE ClearSymbols(t) BY <2>12 DEF ClearSymbols, Goto, Typing, TasksOK,
      TaskStates
  <2>13. CASE SwapSymbols(t) BY <2>13 DEF SwapSymbols, Goto, Typing, TasksOK,
      TaskStates
  <2>14. CASE SwapProject(t) BY <2>14 DEF SwapProject, Goto, Typing, TasksOK,
      TaskStates
  <2>15. CASE Revise(t)
    BY <2>15, ReviseFrame
  <2>16. CASE Cancel(t) BY <2>16, NoTaskType DEF Cancel, End, Typing, TasksOK,
      TaskStates
  <2> QED BY <1>4, <2>1, <2>2, <2>3, <2>4, <2>5, <2>6, <2>7, <2>8, <2>9, <2>10,
      <2>11, <2>12, <2>13, <2>14, <2>15, <2>16 DEF TaskStep
<1>5. ASSUME NEW r \in Requests, Ask(r) \/ RequestStep(r) PROVE StagedTogether'
  BY <1>5, RequestFrame
<1>6. CASE UNCHANGED vars BY <1>6 DEF vars, world, editor, published
<1> QED BY <1>1, <1>2, <1>3, <1>4, <1>5, <1>6, KindsOfSteps

LEMMA PublishedTogetherNext ==
    Typing /\ LocksMatchSteps /\ StagedTogether /\ PublishedTogether /\ [Next]_vars
        => PublishedTogether'
<1> SUFFICES ASSUME Typing, LocksMatchSteps, StagedTogether, PublishedTogether, [Next]_vars
    PROVE PublishedTogether'
  OBVIOUS
<1> USE DEF PublishedTogether, Coherent
<1> USE ActorsAssumption
<1>1. CASE WorldStep \/ Shutdown BY <1>1, OutsideFrame DEF published
<1>2. CASE EditorStep BY <1>2, EditorFrame
<1>3. ASSUME NEW t \in Tasks, Start(t) PROVE PublishedTogether'
  BY <1>3, StartFrame DEF Beginnings
<1>4. ASSUME NEW t \in Tasks, TaskStep(t) PROVE PublishedTogether'
  <2>1. CASE Discover(t) BY <2>1 DEF Discover, Typing, TasksOK, TaskStates,
      world, published
  <2>2. CASE Scan(t) BY <2>2 DEF Scan, Typing, TasksOK, TaskStates, world, published
  <2>3. CASE Load(t) BY <2>3 DEF Load, Typing, TasksOK, TaskStates, world, published
  <2>4. CASE StagingFails(t)
    <3>1. task[t].pc \notin {"symbols", "project"}
      BY <2>4 DEF StagingFails, StagingSteps
    <3> QED BY <2>4, <3>1, NoTaskType DEF StagingFails, End, Typing, TasksOK,
        published
  <2>5. CASE Fetch(t) BY <2>5 DEF Fetch, Goto, Typing, TasksOK, TaskStates,
      world, published
  <2>6. CASE Snapshot(t)
    BY <2>6, SnapshotFrame, NoTaskType DEF published
  <2>7. CASE Stage(t)
    BY <2>7, StageFrame DEF published
  <2>8. CASE TakeLock(t)
    <3>1. /\ UNCHANGED <<symbols, project, info>> /\ task[t].pc = "lock"
          /\ task'[t].pc \in {"snapshot", "project_lock", "idle"}
          /\ \A u \in Tasks \ {t} : task'[u] = task[u]
      BY <2>8, TakeLockFrame
    <3> QED BY <3>1
  <2>9. CASE TakeProjectLock(t)
    BY <2>9, TakeProjectLockFrame DEF published
  <2>10. CASE ClearFiles(t) BY <2>10 DEF ClearFiles, Goto, Typing, TasksOK,
      TaskStates, world, published
  <2>11. CASE SwapFiles(t) BY <2>11 DEF SwapFiles, Typing, TasksOK, TaskStates,
      world, published
  <2>12. CASE ClearSymbols(t)
    <3>1. task'[t].pc = "symbols" /\ \A u \in Tasks \ {t} : task'[u] = task[u]
      BY <2>12 DEF ClearSymbols, Goto, Typing, TasksOK, TaskStates, world, published
    <3>2. \A u \in Tasks \ {t} : task[u].pc # "project"
      BY <2>12 DEF ClearSymbols, LocksMatchSteps, Publishing, SwapSteps
    <3> QED BY <3>1, <3>2
  <2>13. CASE SwapSymbols(t)
    <3>1. task'[t].pc = "project" /\ task'[t].symbols = task[t].symbols
            /\ symbols' = task[t].symbols /\ \A u \in Tasks \ {t} : task'[u] = task[u]
      BY <2>13 DEF SwapSymbols, Goto, Typing, TasksOK, TaskStates, world, published
    <3>2. \A u \in Tasks \ {t} : task[u].pc # "project"
      BY <2>13 DEF SwapSymbols, LocksMatchSteps, Publishing, SwapSteps
    <3> QED BY <3>1, <3>2
  <2>14. CASE SwapProject(t)
    <3>1. task'[t].pc = "revise" /\ \A u \in Tasks \ {t} : task'[u] = task[u]
      BY <2>14 DEF SwapProject, Goto, Typing, TasksOK, TaskStates, world, published
    <3>2. \A u \in Tasks \ {t} : task[u].pc # "project"
      BY <2>14 DEF SwapProject, LocksMatchSteps, Publishing, SwapSteps
    <3>3. symbols' = task[t].symbols /\ info' = task[t].symbols
            /\ project' = task[t].project
      BY <2>14 DEF SwapProject
    <3>4. task[t].symbols.list = task[t].project.packages
      BY <2>14 DEF SwapProject, StagedTogether, Publishing, SwapSteps
    <3> QED BY <3>1, <3>2, <3>3, <3>4
  <2>15. CASE Revise(t)
    BY <2>15, ReviseFrame DEF published
  <2>16. CASE Cancel(t)
    <3>1. task[t].pc \notin {"symbols", "project"}
      BY <2>16 DEF Cancel, AwaitPoints, StagingSteps
    <3> QED BY <2>16, <3>1, NoTaskType DEF Cancel, End, Typing, TasksOK, published
  <2> QED BY <1>4, <2>1, <2>2, <2>3, <2>4, <2>5, <2>6, <2>7, <2>8, <2>9, <2>10,
      <2>11, <2>12, <2>13, <2>14, <2>15, <2>16 DEF TaskStep
<1>5. ASSUME NEW r \in Requests, Ask(r) \/ RequestStep(r) PROVE PublishedTogether'
  BY <1>5, RequestFrame
<1>6. CASE UNCHANGED vars BY <1>6 DEF vars, world, editor, published
<1> QED BY <1>1, <1>2, <1>3, <1>4, <1>5, <1>6, KindsOfSteps

-----------------------------------------------------------------------------
(* The editor's texts.                                                     *)

Overlaid(files) == \A f \in Files : doc[f] # 0 => files[f] = Edited(doc[f])

\* While the index is being filled the texts are in what will fill it.
OverlaysArePublished ==
    /\ (\A t \in Tasks : task[t].pc # "files") => Overlaid(index)
    /\ \A t \in Tasks : task[t].pc \in {"clear_files", "files"} =>
          Overlaid(task[t].files)

LEMMA OverlaysInit == Init => OverlaysArePublished
BY DEF Init, OverlaysArePublished, Overlaid, NoTask

LEMMA OverlaysNext ==
    Typing /\ LocksMatchSteps /\ OverlaysArePublished /\ [Next]_vars
        => OverlaysArePublished'
<1> SUFFICES ASSUME Typing, LocksMatchSteps, OverlaysArePublished, [Next]_vars
    PROVE OverlaysArePublished'
  OBVIOUS
<1> USE DEF OverlaysArePublished, Overlaid
<1>1. CASE WorldStep \/ Shutdown BY <1>1, OutsideFrame DEF published, editor
<1>2. CASE EditorStep
  <2>1. \A t \in Tasks : task[t].pc \notin {"clear_files", "files"}
    BY <1>2, EditorFrame, ActorsAssumption
    DEF Unlocked, LocksMatchSteps, Publishing, SwapSteps
  <2> QED BY <1>2, <2>1, EditorFrame
<1>3. ASSUME NEW t \in Tasks, Start(t) PROVE OverlaysArePublished'
  BY <1>3, StartFrame DEF Beginnings
<1>4. ASSUME NEW t \in Tasks, TaskStep(t) PROVE OverlaysArePublished'
  <2>1. CASE Discover(t) BY <2>1 DEF Discover, Typing, TasksOK, TaskStates,
      world, published, editor
  <2>2. CASE Scan(t) BY <2>2 DEF Scan, Typing, TasksOK, TaskStates, world,
      published, editor
  <2>3. CASE Load(t) BY <2>3 DEF Load, Typing, TasksOK, TaskStates, world,
      published, editor
  <2>4. CASE StagingFails(t)
    <3>1. task[t].pc # "files" BY <2>4 DEF StagingFails, StagingSteps
    <3> QED BY <2>4, <3>1, NoTaskType DEF StagingFails, End, Typing, TasksOK,
        published,
                                     editor
  <2>5. CASE Fetch(t) BY <2>5 DEF Fetch, Goto, Typing, TasksOK, TaskStates,
      world, published, editor
  <2>6. CASE Snapshot(t)
    BY <2>6, SnapshotFrame, NoTaskType DEF published, editor
  <2>7. CASE Stage(t)
    <3>1. /\ UNCHANGED <<doc, index>> /\ task[t].pc = "stage" /\ task'[t].pc = "lock"
          /\ \A u \in Tasks \ {t} : task'[u] = task[u]
      BY <2>7, StageFrame DEF published, editor
    <3> QED BY <3>1
  <2>8. CASE TakeLock(t)
    <3>1. task'[t].pc \in {"snapshot", "project_lock", "idle"}
      BY <2>8, TakeLockFrame
    <3> QED BY <2>8, <3>1, TakeLockFrame DEF editor
  <2>9. CASE TakeProjectLock(t)
    <3>1. Overlaid(WithOverlays(t)) BY DEF WithOverlays, Overlaid
    <3>2. /\ UNCHANGED <<doc, index>> /\ task[t].pc # "files"
          /\ \A u \in Tasks \ {t} : task'[u] = task[u]
      BY <2>9, TakeProjectLockFrame DEF published, editor
    <3>3. \/ task'[t].pc = "clear_files" /\ task'[t].files = WithOverlays(t)
          \/ task'[t].pc = "clear_symbols"
      BY <2>9, TakeProjectLockFrame
    <3>4. (\A u \in Tasks : task'[u].pc # "files") => Overlaid(index)'
      BY <3>2
    <3>5. ASSUME NEW u \in Tasks, task'[u].pc \in {"clear_files", "files"}
          PROVE  \A f \in Files : doc'[f] # 0 => task'[u].files[f] = Edited(doc'[f])
      <4>1. CASE u # t BY <3>2, <3>5, <4>1
      <4>2. CASE u = t BY <3>1, <3>2, <3>3, <3>5, <4>2
      <4> QED BY <4>1, <4>2
    <3> QED BY <3>4, <3>5
  <2>10. CASE ClearFiles(t) BY <2>10 DEF ClearFiles, Goto, Typing, TasksOK,
      TaskStates, world, published, editor
  <2>11. CASE SwapFiles(t)
    <3>1. task'[t].pc = "clear_symbols" /\ index' = task[t].files
            /\ \A u \in Tasks \ {t} : task'[u] = task[u]
      BY <2>11 DEF SwapFiles, Typing, TasksOK, TaskStates
    <3> QED BY <2>11, <3>1 DEF SwapFiles, editor
  <2>12. CASE ClearSymbols(t) BY <2>12 DEF ClearSymbols, Goto, Typing, TasksOK,
      TaskStates, world, published, editor
  <2>13. CASE SwapSymbols(t) BY <2>13 DEF SwapSymbols, Goto, Typing, TasksOK,
      TaskStates, world, published, editor
  <2>14. CASE SwapProject(t) BY <2>14 DEF SwapProject, Goto, Typing, TasksOK,
      TaskStates, world, published, editor
  <2>15. CASE Revise(t)
    BY <2>15, ReviseFrame DEF published, editor
  <2>16. CASE Cancel(t)
    <3>1. task[t].pc # "files" BY <2>16 DEF Cancel, AwaitPoints, StagingSteps
    <3> QED BY <2>16, <3>1, NoTaskType DEF Cancel, End, Typing, TasksOK,
        published, editor
  <2> QED BY <1>4, <2>1, <2>2, <2>3, <2>4, <2>5, <2>6, <2>7, <2>8, <2>9, <2>10,
      <2>11, <2>12, <2>13, <2>14, <2>15, <2>16 DEF TaskStep
<1>5. ASSUME NEW r \in Requests, Ask(r) \/ RequestStep(r) PROVE OverlaysArePublished'
  BY <1>5, RequestFrame
<1>6. CASE UNCHANGED vars BY <1>6 DEF vars, world, editor, published
<1> QED BY <1>1, <1>2, <1>3, <1>4, <1>5, <1>6, KindsOfSteps

-----------------------------------------------------------------------------
(* Answers.                                                                *)

\* As long as no task swaps, what a request has read under a revision that did
\* not move is what is published.  A request that read between two swaps has
\* lost its revision by the time they are done.
ReadingsHold ==
    (\A t \in Tasks : task[t].pc \notin SwapSteps) =>
        \A r \in Requests : r \in current =>
            /\ request[r].pc \in {"files", "check"} => request[r].symbols = symbols
            /\ request[r].pc = "check" => request[r].files = index

LEMMA ReadingsInit == Init => ReadingsHold
BY DEF Init, ReadingsHold

LEMMA ReadingsNext ==
    Typing /\ LocksMatchSteps /\ ReadingsHold /\ [Next]_vars => ReadingsHold'
<1> SUFFICES ASSUME Typing, LocksMatchSteps, ReadingsHold, [Next]_vars
    PROVE ReadingsHold'
  OBVIOUS
<1> USE DEF ReadingsHold, SwapSteps
<1>1. CASE WorldStep \/ Shutdown BY <1>1, OutsideFrame DEF published
<1>2. CASE EditorStep
  <2>1. /\ UNCHANGED <<symbols, request, task>>
        /\ current' = current \ Requests \/ UNCHANGED <<current, index>>
    BY <1>2, EditorFrame
  <2> QED BY <2>1
<1>3. ASSUME NEW t \in Tasks, Start(t) PROVE ReadingsHold'
  <2>1. /\ UNCHANGED <<index, symbols, request>> /\ current' \subseteq current
        /\ task[t].pc = "idle" /\ \A u \in Tasks \ {t} : task'[u] = task[u]
    BY <1>3, StartFrame
  <2> QED BY <2>1
<1>4. ASSUME NEW t \in Tasks, TaskStep(t) PROVE ReadingsHold'
  <2>1. CASE Discover(t)
    <3>1. /\ UNCHANGED <<index, symbols, request, current>>
          /\ task[t].pc \in StagingSteps
          /\ \A u \in Tasks \ {t} : task'[u] = task[u]
      BY <2>1 DEF Discover, Typing, TasksOK, TaskStates, world, published,
          editor, Typing, TasksOK, published, StagingSteps
    <3> QED BY <3>1 DEF StagingSteps
  <2>2. CASE Scan(t)
    <3>1. /\ UNCHANGED <<index, symbols, request, current>>
          /\ task[t].pc \in StagingSteps
          /\ \A u \in Tasks \ {t} : task'[u] = task[u]
      BY <2>2 DEF Scan, Typing, TasksOK, TaskStates, world, published, editor,
          Typing, TasksOK, published, StagingSteps
    <3> QED BY <3>1 DEF StagingSteps
  <2>3. CASE Load(t)
    <3>1. /\ UNCHANGED <<index, symbols, request, current>>
          /\ task[t].pc \in StagingSteps
          /\ \A u \in Tasks \ {t} : task'[u] = task[u]
      BY <2>3 DEF Load, Typing, TasksOK, TaskStates, world, published, editor,
          Typing, TasksOK, published, StagingSteps
    <3> QED BY <3>1 DEF StagingSteps
  <2>4. CASE StagingFails(t)
    <3>1. /\ UNCHANGED <<index, symbols, request>> /\ current' \subseteq current
          /\ task[t].pc \in StagingSteps
          /\ \A u \in Tasks \ {t} : task'[u] = task[u]
      BY <2>4 DEF StagingFails, End, Typing, TasksOK, TaskStates, world,
          published, editor, Typing, TasksOK, published
    <3> QED BY <3>1 DEF StagingSteps
  <2>5. CASE Fetch(t)
    <3>1. /\ UNCHANGED <<index, symbols, request, current>>
          /\ task[t].pc \in StagingSteps
          /\ \A u \in Tasks \ {t} : task'[u] = task[u]
      BY <2>5 DEF Fetch, Goto, Typing, TasksOK, TaskStates, world, published,
          editor, Typing, TasksOK, published, StagingSteps
    <3> QED BY <3>1 DEF StagingSteps
  <2>6. CASE Snapshot(t)
    <3>1. /\ UNCHANGED <<index, symbols, request>> /\ current' \subseteq current \cup {t}
          /\ task[t].pc = "snapshot" /\ \A u \in Tasks \ {t} : task'[u] = task[u]
      BY <2>6, SnapshotFrame DEF published
    <3> QED BY <3>1, ActorsAssumption
  <2>7. CASE Stage(t)
    <3>1. /\ UNCHANGED <<index, symbols, request, current>>
          /\ task[t].pc = "stage" /\ \A u \in Tasks \ {t} : task'[u] = task[u]
      BY <2>7, StageFrame DEF published
    <3> QED BY <3>1
  <2>8. CASE TakeLock(t)
    <3>1. /\ UNCHANGED <<index, symbols, request>> /\ current' \subseteq current
          /\ task[t].pc = "lock" /\ \A u \in Tasks \ {t} : task'[u] = task[u]
      BY <2>8, TakeLockFrame
    <3> QED BY <3>1
  <2>9. CASE TakeProjectLock(t)
    <3>1. task'[t].pc \in {"clear_files", "clear_symbols"}
      BY <2>9, TakeProjectLockFrame
    <3> QED BY <3>1
  <2>10. CASE ClearFiles(t)
    <3>1. task'[t].pc = "files" BY <2>10 DEF ClearFiles, Goto, Typing, TasksOK,
        TaskStates, world, published, editor, Typing, TasksOK, TaskStates
    <3> QED BY <3>1
  <2>11. CASE SwapFiles(t)
    <3>1. task'[t].pc = "clear_symbols" BY <2>11 DEF SwapFiles, Typing, TasksOK,
        TaskStates, world, published, editor, Typing, TasksOK, TaskStates
    <3> QED BY <3>1
  <2>12. CASE ClearSymbols(t)
    <3>1. task'[t].pc = "symbols" BY <2>12 DEF ClearSymbols, Goto, Typing,
        TasksOK, TaskStates, world, published, editor, Typing, TasksOK, TaskStates
    <3> QED BY <3>1
  <2>13. CASE SwapSymbols(t)
    <3>1. task'[t].pc = "project" BY <2>13 DEF SwapSymbols, Goto, Typing,
        TasksOK, TaskStates, world, published, editor, Typing, TasksOK, TaskStates
    <3> QED BY <3>1
  <2>14. CASE SwapProject(t)
    <3>1. task'[t].pc = "revise" BY <2>14 DEF SwapProject, Goto, Typing, TasksOK,
        TaskStates, world, published, editor, Typing, TasksOK, TaskStates
    <3> QED BY <3>1
  <2>15. CASE Revise(t)
    <3>1. current' = {} BY <2>15, ReviseFrame
    <3> QED BY <3>1
  <2>16. CASE Cancel(t)
    <3>1. /\ UNCHANGED <<index, symbols, request>> /\ current' \subseteq current
          /\ task[t].pc \in AwaitPoints
          /\ \A u \in Tasks \ {t} : task'[u] = task[u]
      BY <2>16 DEF Cancel, End, Typing, TasksOK, TaskStates, world, published,
          editor, Typing, TasksOK, published
    <3> QED BY <3>1 DEF AwaitPoints, StagingSteps
  <2> QED BY <1>4, <2>1, <2>2, <2>3, <2>4, <2>5, <2>6, <2>7, <2>8, <2>9, <2>10,
      <2>11, <2>12, <2>13, <2>14, <2>15, <2>16 DEF TaskStep
<1>5. ASSUME NEW r \in Requests, Ask(r) \/ RequestStep(r) PROVE ReadingsHold'
  <2>1. UNCHANGED <<index, symbols, task>> BY <1>5, RequestFrame
  <2> USE DEF Typing, RequestsOK, RequestStates
  <2>2. CASE Ask(r) BY <2>1, <2>2 DEF Ask
  <2>3. CASE GiveUp(r) BY <2>1, <2>3, NoRequestType DEF GiveUp
  <2>4. CASE ReadRevision(r) BY <2>1, <2>4 DEF ReadRevision
  <2>5. CASE ReadSymbols(r) BY <2>1, <2>5 DEF ReadSymbols
  <2>6. CASE ReadFiles(r) BY <2>1, <2>6 DEF ReadFiles
  <2>7. CASE CheckRevision(r) BY <2>1, <2>7 DEF CheckRevision
  <2> QED BY <1>5, <2>2, <2>3, <2>4, <2>5, <2>6, <2>7 DEF RequestStep
<1>6. CASE UNCHANGED vars BY <1>6 DEF vars, world, editor, published
<1> QED BY <1>1, <1>2, <1>3, <1>4, <1>5, <1>6, KindsOfSteps

-----------------------------------------------------------------------------
(* Nothing goes back.                                                      *)

\* Nothing is ahead of the disk.
NothingAhead ==
    /\ info.seen <= disk.packages /\ project.manifest <= disk.manifest
    /\ \A t \in Tasks : /\ task[t].symbols.seen <= disk.packages
                        /\ task[t].project.manifest <= disk.manifest

\* The task will publish packages that are at least as new as the published ones.
NewPackages(t) == info.seen <= task[t].symbols.seen

\* What an optimistic task is about to publish is not older: at the lock as
\* long as its revision is up to date and no other publication is about to move
\* it, under the lock always.
NotOlder(t) ==
    /\ task[t].pc = "lock" /\ t \in current /\ ~Full(t)
          /\ (\A u \in Tasks : task[u].pc # "revise") =>
          NewPackages(t) \/ task[t].project = NoProject
    /\ task[t].pc \in {"project_lock", "clear_symbols", "symbols", "project"}
          /\ ~Full(t) => NewPackages(t)
    /\ task[t].pc \in {"clear_symbols", "symbols", "project"} /\ ~Full(t) =>
          project.manifest <= task[t].project.manifest
    /\ task[t].pc \in {"clear_files", "files"} => Full(t)

NothingOlder == \A t \in Tasks : NotOlder(t)

LEMMA AheadInit == Init => NothingAhead
BY DEF Init, NothingAhead, NoTask, NoSymbols, NoProject

LEMMA OlderInit == Init => NothingOlder
BY DEF Init, NothingOlder, NotOlder, NoTask

LEMMA AheadNext == Typing /\ NothingAhead /\ [Next]_vars => NothingAhead'
<1> SUFFICES ASSUME Typing, NothingAhead, [Next]_vars PROVE NothingAhead'
  OBVIOUS
<1> USE DEF NothingAhead
<1>0. /\ disk.packages \in Nat /\ disk.manifest \in Nat
      /\ info.seen \in Nat /\ project.manifest \in Nat
      /\ \A t \in Tasks : task[t].symbols.seen \in Nat
                          /\ task[t].project.manifest \in Nat
  BY DEF Typing, WorldOK, PublishedOK, TasksOK, TaskStates, SymbolSets, Projects
<1>1. CASE WorldStep \/ Shutdown
  <2>1. /\ UNCHANGED <<info, project, task>>
        /\ disk.packages <= disk'.packages /\ disk.manifest <= disk'.manifest
    BY <1>1, OutsideFrame DEF published
  <2>2. disk'.packages \in Nat /\ disk'.manifest \in Nat
    BY WorldNext DEF WorldOK, Typing
  <2> QED BY <1>0, <2>1, <2>2
<1>2. CASE EditorStep BY <1>2, <1>0, EditorFrame
<1>3. ASSUME NEW t \in Tasks, Start(t) PROVE NothingAhead'
  <2>1. /\ UNCHANGED <<disk, info>>
        /\ project'.manifest = project.manifest \/ project'.manifest = disk.manifest
        /\ task'[t].symbols = NoSymbols /\ task'[t].project = NoProject
        /\ \A u \in Tasks \ {t} : task'[u] = task[u]
    BY <1>3, StartFrame
  <2> QED BY <1>0, <2>1 DEF NoSymbols, NoProject
<1>4. ASSUME NEW t \in Tasks, TaskStep(t) PROVE NothingAhead'
  <2>1. CASE Discover(t)
    <3>1. /\ UNCHANGED <<disk, info, project>>
          /\ task'[t].symbols = task[t].symbols
          /\ task'[t].project.manifest \in {0, disk.manifest}
          /\ \A u \in Tasks \ {t} : task'[u] = task[u]
      BY <2>1 DEF Discover, Typing, TasksOK, TaskStates, world, published, NoProject
    <3> QED BY <1>0, <3>1
  <2>2. CASE Scan(t)
    <3>1. /\ UNCHANGED <<disk, info, project>>
          /\ task'[t].symbols = task[t].symbols /\ task'[t].project = task[t].project
          /\ \A u \in Tasks \ {t} : task'[u] = task[u]
      BY <2>2 DEF Scan, Typing, TasksOK, TaskStates, world, published, Typing,
          TasksOK, TaskStates, world, published
    <3> QED BY <1>0, <3>1
  <2>3. CASE Load(t)
    <3>1. /\ UNCHANGED <<disk, info, project>>
          /\ task'[t].symbols = LoadedFor(task[t].project.packages)
          /\ task'[t].project = task[t].project
          /\ \A u \in Tasks \ {t} : task'[u] = task[u]
      BY <2>3 DEF Load, Typing, TasksOK, TaskStates, world, published
    <3>2. LoadedFor(task[t].project.packages).seen \in {0, disk.packages}
      BY DEF LoadedFor, NoSymbols
    <3> QED BY <1>0, <3>1, <3>2
  <2>4. CASE StagingFails(t)
    <3>1. /\ UNCHANGED <<disk, info, project>>
          /\ task'[t] = NoTask /\ \A u \in Tasks \ {t} : task'[u] = task[u]
      BY <2>4 DEF StagingFails, End, Typing, TasksOK, TaskStates, world,
          published, Typing, TasksOK, world, published
    <3> QED BY <1>0, <3>1 DEF NoTask, NoSymbols, NoProject
  <2>5. CASE Fetch(t)
    <3>1. /\ UNCHANGED <<info, project>>
          /\ disk'.packages = disk.packages + 1 /\ disk'.manifest = disk.manifest
          /\ task'[t].symbols = task[t].symbols /\ task'[t].project = task[t].project
          /\ \A u \in Tasks \ {t} : task'[u] = task[u]
      BY <2>5 DEF Fetch, Goto, Typing, WorldOK, TasksOK, TaskStates, world,
          published
    <3> QED BY <1>0, <3>1
  <2>6. CASE Snapshot(t)
    <3>1. /\ UNCHANGED <<disk, info, project>>
          /\ \A u \in Tasks \ {t} : task'[u] = task[u]
          /\ task'[t].symbols \in {task[t].symbols, NoSymbols}
          /\ task'[t].project \in {project, NoProject}
      BY <2>6, SnapshotFrame DEF published, NoTask
    <3> QED BY <1>0, <3>1 DEF NoSymbols, NoProject
  <2>7. CASE Stage(t)
    <3>1. /\ UNCHANGED <<disk, info, project>>
          /\ \A u \in Tasks \ {t} : task'[u] = task[u]
          /\ task'[t].project.manifest = task[t].project.manifest
          /\ task'[t].symbols =
                LoadedFor([path |-> task[t].path, dir |-> disk.packages])
      BY <2>7, StageFrame DEF published
    <3>2. LoadedFor([path |-> task[t].path, dir |-> disk.packages]).seen
            \in {0, disk.packages}
      BY DEF LoadedFor, NoSymbols
    <3> QED BY <1>0, <3>1, <3>2
  <2>8. CASE TakeLock(t)
    <3>1. /\ UNCHANGED <<disk, info, project>>
          /\ \A u \in Tasks \ {t} : task'[u] = task[u]
      BY <2>8, TakeLockFrame
    <3>2. CASE task'[t] = [task[t] EXCEPT !.pc = "snapshot"]
      BY <1>0, <3>1, <3>2 DEF Typing, TasksOK, TaskStates
    <3>3. CASE task'[t] = [task[t] EXCEPT !.pc = "project_lock"]
      BY <1>0, <3>1, <3>3 DEF Typing, TasksOK, TaskStates
    <3>4. CASE task'[t] = NoTask
      BY <1>0, <3>1, <3>4 DEF NoTask, NoSymbols, NoProject
    <3> QED BY <2>8, TakeLockFrame, <3>2, <3>3, <3>4
  <2>9. CASE TakeProjectLock(t)
    <3>1. /\ UNCHANGED <<disk, info, project>>
          /\ \A u \in Tasks \ {t} : task'[u] = task[u]
          /\ task'[t].symbols = task[t].symbols
          /\ task'[t].project \in {task[t].project, Keeping(t)}
      BY <2>9, TakeProjectLockFrame DEF published
    <3>2. Keeping(t).manifest \in {task[t].project.manifest, project.manifest}
      BY ManifestType DEF Keeping, Typing, TasksOK, TaskStates, PublishedOK,
          Projects
    <3> QED BY <1>0, <3>1, <3>2
  <2>10. CASE ClearFiles(t)
    <3>1. /\ UNCHANGED <<disk, info, project>>
          /\ task'[t].symbols = task[t].symbols /\ task'[t].project = task[t].project
          /\ \A u \in Tasks \ {t} : task'[u] = task[u]
      BY <2>10 DEF ClearFiles, Goto, Typing, TasksOK, TaskStates, world,
          published, Typing, TasksOK, TaskStates, world, published
    <3> QED BY <1>0, <3>1
  <2>11. CASE SwapFiles(t)
    <3>1. /\ UNCHANGED <<disk, info, project>>
          /\ task'[t].symbols = task[t].symbols /\ task'[t].project = task[t].project
          /\ \A u \in Tasks \ {t} : task'[u] = task[u]
      BY <2>11 DEF SwapFiles, Typing, TasksOK, TaskStates, world, published,
          Typing, TasksOK, TaskStates, world, published
    <3> QED BY <1>0, <3>1
  <2>12. CASE ClearSymbols(t)
    <3>1. /\ UNCHANGED <<disk, info, project>>
          /\ task'[t].symbols = task[t].symbols /\ task'[t].project = task[t].project
          /\ \A u \in Tasks \ {t} : task'[u] = task[u]
      BY <2>12 DEF ClearSymbols, Goto, Typing, TasksOK, TaskStates, world,
          published, Typing, TasksOK, TaskStates, world, published
    <3> QED BY <1>0, <3>1
  <2>13. CASE SwapSymbols(t)
    <3>1. /\ UNCHANGED <<disk, info, project>>
          /\ task'[t].symbols = task[t].symbols /\ task'[t].project = task[t].project
          /\ \A u \in Tasks \ {t} : task'[u] = task[u]
      BY <2>13 DEF SwapSymbols, Goto, Typing, TasksOK, TaskStates, world,
          published, Typing, TasksOK, TaskStates, world, published
    <3> QED BY <1>0, <3>1
  <2>14. CASE SwapProject(t)
    <3>1. /\ UNCHANGED disk
          /\ info' = task[t].symbols /\ project' = task[t].project
          /\ task'[t].symbols = task[t].symbols /\ task'[t].project = task[t].project
          /\ \A u \in Tasks \ {t} : task'[u] = task[u]
      BY <2>14 DEF SwapProject, Goto, Typing, TasksOK, TaskStates, world
    <3> QED BY <1>0, <3>1
  <2>15. CASE Revise(t)
    <3>1. /\ UNCHANGED <<disk, info, project>>
          /\ task'[t].symbols = NoSymbols /\ task'[t].project = NoProject
          /\ \A u \in Tasks \ {t} : task'[u] = task[u]
      BY <2>15, ReviseFrame DEF published
    <3> QED BY <1>0, <3>1 DEF NoSymbols, NoProject
  <2>16. CASE Cancel(t)
    <3>1. /\ UNCHANGED <<disk, info, project>>
          /\ task'[t] = NoTask /\ \A u \in Tasks \ {t} : task'[u] = task[u]
      BY <2>16 DEF Cancel, End, Typing, TasksOK, TaskStates, world, published,
          Typing, TasksOK, world, published
    <3> QED BY <1>0, <3>1 DEF NoTask, NoSymbols, NoProject
  <2> QED BY <1>4, <2>1, <2>2, <2>3, <2>4, <2>5, <2>6, <2>7, <2>8, <2>9, <2>10,
      <2>11, <2>12, <2>13, <2>14, <2>15, <2>16 DEF TaskStep
<1>5. ASSUME NEW r \in Requests, Ask(r) \/ RequestStep(r) PROVE NothingAhead'
  BY <1>5, RequestFrame
<1>6. CASE UNCHANGED vars BY <1>6 DEF vars, world, editor, published
<1> QED BY <1>1, <1>2, <1>3, <1>4, <1>5, <1>6, KindsOfSteps

\* A step of a task that neither publishes nor moves the revision leaves the
\* others where they were.
LEMMA OlderOthers ==
    ASSUME NothingOlder, NEW t \in Tasks,
           info' = info, project' = project,
           \A u \in Tasks \ {t} : task'[u] = task[u],
           current' \subseteq current \cup {t} \cup Requests,
           task[t].pc # "revise",
           NotOlder(t)'
    PROVE  NothingOlder'
<1> SUFFICES ASSUME NEW u \in Tasks \ {t} PROVE NotOlder(u)'
  BY DEF NothingOlder
<1>1. task'[u] = task[u] OBVIOUS
<1>2. u \in current' => u \in current BY ActorsAssumption
<1>3. (\A w \in Tasks : task'[w].pc # "revise") =>
        (\A w \in Tasks : task[w].pc # "revise")
  OBVIOUS
<1>4. NotOlder(u) BY DEF NothingOlder
<1> QED BY <1>1, <1>2, <1>3, <1>4 DEF NotOlder, NewPackages, Full

LEMMA OlderNext ==
    Typing /\ LocksMatchSteps /\ NothingAhead /\ NothingOlder /\ [Next]_vars
        => NothingOlder'
<1> SUFFICES ASSUME Typing, LocksMatchSteps, NothingAhead, NothingOlder, [Next]_vars
    PROVE NothingOlder'
  OBVIOUS
<1>0. /\ disk.packages \in Nat /\ disk.manifest \in Nat
      /\ info.seen \in Nat /\ project.manifest \in Nat
      /\ \A t \in Tasks : task[t].symbols.seen \in Nat
                          /\ task[t].project.manifest \in Nat
  BY DEF Typing, WorldOK, PublishedOK, TasksOK, TaskStates, SymbolSets, Projects
<1>1. CASE WorldStep \/ Shutdown
  <2>1. UNCHANGED <<info, project, task, current>>
    BY <1>1, OutsideFrame DEF published
  <2> QED BY <2>1 DEF NothingOlder, NotOlder, NewPackages, Full
<1>2. CASE EditorStep
  <2>1. Unlocked /\ info' = info /\ task' = task /\ current' \subseteq current
    BY <1>2, EditorFrame
  <2>2. \A u \in Tasks : task[u].pc \notin Publishing
    BY <2>1, ActorsAssumption DEF LocksMatchSteps, Unlocked
  <2> QED BY <2>1, <2>2 DEF NothingOlder, NotOlder, NewPackages, Full, Publishing,
        SwapSteps
<1>3. ASSUME NEW t \in Tasks, Start(t) PROVE NothingOlder'
  <2>1. /\ Unlocked /\ info' = info /\ current' \subseteq current
        /\ task'[t].pc \in Beginnings /\ \A u \in Tasks \ {t} : task'[u] = task[u]
    BY <1>3, StartFrame
  <2>2. \A u \in Tasks : task[u].pc \notin Publishing
    BY <2>1, ActorsAssumption DEF LocksMatchSteps, Unlocked
  <2> QED BY <2>1, <2>2 DEF NothingOlder, NotOlder, NewPackages, Full, Beginnings,
        Publishing, SwapSteps
<1>4. ASSUME NEW t \in Tasks, TaskStep(t) PROVE NothingOlder'
  <2>1. CASE Discover(t)
    <3>1. /\ info' = info /\ project' = project
          /\ \A u \in Tasks \ {t} : task'[u] = task[u]
          /\ current' \subseteq current
          /\ task[t].pc # "revise"
          /\ task'[t].pc = "scan"
      BY <2>1 DEF Discover, Typing, TasksOK, TaskStates, published, StagingSteps,
          AwaitPoints
    <3>2. NotOlder(t)' BY <3>1 DEF NotOlder
    <3> QED BY <3>1, <3>2, OlderOthers
  <2>2. CASE Scan(t)
    <3>1. /\ info' = info /\ project' = project
          /\ \A u \in Tasks \ {t} : task'[u] = task[u]
          /\ current' \subseteq current
          /\ task[t].pc # "revise"
          /\ task'[t].pc = "load"
      BY <2>2 DEF Scan, Typing, TasksOK, TaskStates, published, StagingSteps,
          AwaitPoints
    <3>2. NotOlder(t)' BY <3>1 DEF NotOlder
    <3> QED BY <3>1, <3>2, OlderOthers
  <2>3. CASE Load(t)
    <3>1. /\ info' = info /\ project' = project
          /\ \A u \in Tasks \ {t} : task'[u] = task[u]
          /\ current' \subseteq current
          /\ task[t].pc = "load" /\ task'[t].pc = "lock"
          /\ task'[t].kind = task[t].kind /\ task'[t].path = task[t].path
      BY <2>3 DEF Load, Typing, TasksOK, TaskStates, published
    <3>2. Full(t)' BY <3>1 DEF Full, Typing, TasksOK, PathOK
    <3>3. NotOlder(t)' BY <3>1, <3>2 DEF NotOlder
    <3> QED BY <3>1, <3>3, OlderOthers
  <2>4. CASE StagingFails(t)
    <3>1. /\ info' = info /\ project' = project
          /\ \A u \in Tasks \ {t} : task'[u] = task[u]
          /\ current' \subseteq current
          /\ task[t].pc # "revise"
          /\ task'[t] = NoTask
      BY <2>4 DEF StagingFails, End, Typing, TasksOK, published, StagingSteps,
          AwaitPoints
    <3>2. NotOlder(t)' BY <3>1, NoTaskType DEF NotOlder
    <3> QED BY <3>1, <3>2, OlderOthers
  <2>5. CASE Fetch(t)
    <3>1. /\ info' = info /\ project' = project
          /\ \A u \in Tasks \ {t} : task'[u] = task[u]
          /\ current' \subseteq current
          /\ task[t].pc # "revise"
          /\ task'[t].pc = "snapshot"
      BY <2>5 DEF Fetch, Goto, Typing, TasksOK, TaskStates, published,
          StagingSteps, AwaitPoints
    <3>2. NotOlder(t)' BY <3>1 DEF NotOlder
    <3> QED BY <3>1, <3>2, OlderOthers
  <2>6. CASE Snapshot(t)
    <3>1. /\ info' = info /\ project' = project
          /\ \A u \in Tasks \ {t} : task'[u] = task[u]
          /\ current' \subseteq current \cup {t}
          /\ task[t].pc = "snapshot"
          /\ \/ task'[t].pc = "stage"
             \/ task'[t].pc = "lock" /\ task'[t].project = NoProject
             \/ task'[t] = NoTask
      BY <2>6, SnapshotFrame DEF published
    <3>2. NotOlder(t)' BY <3>1, NoTaskType DEF NotOlder
    <3> QED BY <3>1, <3>2, OlderOthers
  <2>7. CASE Stage(t)
    <3>1. /\ info' = info /\ project' = project
          /\ \A u \in Tasks \ {t} : task'[u] = task[u]
          /\ current' = current
          /\ task[t].pc = "stage" /\ task'[t].pc = "lock"
          /\ task'[t].symbols =
                LoadedFor([path |-> task[t].path, dir |-> disk.packages])
      BY <2>7, StageFrame DEF published
    <3>2. task[t].path # 0 BY <3>1, ActorsAssumption DEF Typing, TasksOK, PathOK
    <3>3. task'[t].symbols.seen = disk.packages
      BY <3>1, <3>2 DEF LoadedFor, NoPackages
    <3>4. NewPackages(t)' BY <1>0, <3>1, <3>3 DEF NewPackages, NothingAhead
    <3>5. NotOlder(t)' BY <3>1, <3>4 DEF NotOlder
    <3> QED BY <3>1, <3>5, OlderOthers
  <2>8. CASE TakeLock(t)
    <3>1. /\ info' = info /\ project' = project
          /\ \A u \in Tasks \ {t} : task'[u] = task[u]
          /\ current' \subseteq current
          /\ task[t].pc = "lock" /\ Unlocked
      BY <2>8, TakeLockFrame
    <3>2. CASE task'[t].pc \in {"snapshot", "idle"}
      <4>1. NotOlder(t)' BY <3>2 DEF NotOlder
      <4> QED BY <3>1, <4>1, OlderOthers
    <3>3. CASE /\ ~Overtaken(t) /\ (Full(t) \/ task[t].project # NoProject)
               /\ task'[t] = [task[t] EXCEPT !.pc = "project_lock"]
               /\ task'[t].pc = "project_lock"
      <4>1. task'[t].symbols = task[t].symbols /\ task'[t].kind = task[t].kind
              /\ task'[t].path = task[t].path
        BY <3>3 DEF Typing, TasksOK, TaskStates
      <4>2. Full(t)' <=> Full(t) BY <4>1 DEF Full
      <4>3. \A u \in Tasks : task[u].pc # "revise"
        BY <3>1, ActorsAssumption DEF LocksMatchSteps, Publishing, SwapSteps,
            Unlocked
      <4>4. Full(t) \/ NewPackages(t)
        BY <3>1, <3>3, <4>3 DEF NothingOlder, NotOlder, Overtaken
      <4>5. Full(t)' \/ NewPackages(t)'
        BY <3>1, <4>1, <4>2, <4>4 DEF NewPackages
      <4>6. NotOlder(t)' BY <3>3, <4>5 DEF NotOlder
      <4> QED BY <3>1, <4>6, OlderOthers
    <3> QED BY <2>8, TakeLockFrame, <3>2, <3>3
  <2>9. CASE TakeProjectLock(t)
    <3>1. /\ info' = info /\ project' = project
          /\ \A u \in Tasks \ {t} : task'[u] = task[u]
          /\ current' = current
          /\ task[t].pc = "project_lock"
          /\ task'[t].kind = task[t].kind /\ task'[t].path = task[t].path
          /\ task'[t].symbols = task[t].symbols
      BY <2>9, TakeProjectLockFrame DEF published
    <3>2. (Full(t)' <=> Full(t)) /\ (NewPackages(t)' <=> NewPackages(t))
      BY <3>1 DEF Full, NewPackages
    <3>3. CASE Full(t) /\ task'[t].pc = "clear_files"
      <4>1. NotOlder(t)' BY <3>2, <3>3 DEF NotOlder
      <4> QED BY <3>1, <4>1, OlderOthers
    <3>4. CASE /\ ~Full(t) /\ task'[t].pc = "clear_symbols"
               /\ task'[t].project = Keeping(t)
      <4>1. project.manifest <= Keeping(t).manifest
        <5>1. CASE project = NoProject
          BY <1>0, <5>1 DEF Keeping, NoProject
        <5>2. CASE project # NoProject
          <6>1. Keeping(t).manifest = project.manifest
            BY <5>2 DEF Keeping, Typing, TasksOK, TaskStates, Projects
          <6> QED BY <1>0, <6>1
        <5> QED BY <5>1, <5>2
      <4>2. NewPackages(t) BY <3>1, <3>4 DEF NothingOlder, NotOlder
      <4>3. project'.manifest <= task'[t].project.manifest
        BY <3>1, <3>4, <4>1
      <4>4. NotOlder(t)' BY <3>2, <3>4, <4>2, <4>3 DEF NotOlder
      <4> QED BY <3>1, <4>4, OlderOthers
    <3> QED BY <2>9, TakeProjectLockFrame, <3>3, <3>4
  <2>10. CASE ClearFiles(t)
    <3>1. /\ info' = info /\ project' = project
          /\ \A u \in Tasks \ {t} : task'[u] = task[u]
          /\ current' = current
          /\ task[t].pc = "clear_files" /\ task'[t].pc = "files"
          /\ task'[t].kind = task[t].kind /\ task'[t].path = task[t].path
          /\ task'[t].symbols = task[t].symbols /\ task'[t].project = task[t].project
      BY <2>10 DEF ClearFiles, Goto, Typing, TasksOK, TaskStates
    <3>2. NotOlder(t) BY DEF NothingOlder
    <3>3. NotOlder(t)' BY <3>1, <3>2 DEF NotOlder, NewPackages, Full
    <3> QED BY <3>1, <3>3, OlderOthers
  <2>11. CASE SwapFiles(t)
    <3>1. /\ info' = info /\ project' = project
          /\ \A u \in Tasks \ {t} : task'[u] = task[u]
          /\ current' = current
          /\ task[t].pc = "files" /\ task'[t].pc = "clear_symbols"
          /\ task'[t].kind = task[t].kind /\ task'[t].path = task[t].path
          /\ task'[t].symbols = task[t].symbols /\ task'[t].project = task[t].project
      BY <2>11 DEF SwapFiles, Typing, TasksOK, TaskStates
    <3>2. NotOlder(t) BY DEF NothingOlder
    <3>3. NotOlder(t)' BY <3>1, <3>2 DEF NotOlder, NewPackages, Full
    <3> QED BY <3>1, <3>3, OlderOthers
  <2>12. CASE ClearSymbols(t)
    <3>1. /\ info' = info /\ project' = project
          /\ \A u \in Tasks \ {t} : task'[u] = task[u]
          /\ current' = current
          /\ task[t].pc = "clear_symbols" /\ task'[t].pc = "symbols"
          /\ task'[t].kind = task[t].kind /\ task'[t].path = task[t].path
          /\ task'[t].symbols = task[t].symbols /\ task'[t].project = task[t].project
      BY <2>12 DEF ClearSymbols, Goto, Typing, TasksOK, TaskStates
    <3>2. NotOlder(t) BY DEF NothingOlder
    <3>3. NotOlder(t)' BY <3>1, <3>2 DEF NotOlder, NewPackages, Full
    <3> QED BY <3>1, <3>3, OlderOthers
  <2>13. CASE SwapSymbols(t)
    <3>1. /\ info' = info /\ project' = project
          /\ \A u \in Tasks \ {t} : task'[u] = task[u]
          /\ current' = current
          /\ task[t].pc = "symbols" /\ task'[t].pc = "project"
          /\ task'[t].kind = task[t].kind /\ task'[t].path = task[t].path
          /\ task'[t].symbols = task[t].symbols /\ task'[t].project = task[t].project
      BY <2>13 DEF SwapSymbols, Goto, Typing, TasksOK, TaskStates
    <3>2. NotOlder(t) BY DEF NothingOlder
    <3>3. NotOlder(t)' BY <3>1, <3>2 DEF NotOlder, NewPackages, Full
    <3> QED BY <3>1, <3>3, OlderOthers
  <2>14. CASE SwapProject(t)
    <3>1. /\ task[t].pc = "project" /\ task'[t].pc = "revise"
          /\ \A u \in Tasks \ {t} : task'[u] = task[u]
      BY <2>14 DEF SwapProject, Goto, Typing, TasksOK, TaskStates
    <3>2. \A u \in Tasks \ {t} : task[u].pc \notin Publishing
      BY <3>1 DEF LocksMatchSteps, Publishing, SwapSteps
    <3> QED BY <3>1, <3>2 DEF NothingOlder, NotOlder, Publishing, SwapSteps
  <2>15. CASE Revise(t)
    <3>1. /\ info' = info /\ project' = project
          /\ \A u \in Tasks \ {t} : task'[u] = task[u]
          /\ current' = {}
          /\ task'[t].pc \in {"idle", "fetch"}
      BY <2>15, ReviseFrame DEF published
    <3> QED BY <3>1 DEF NothingOlder, NotOlder, NewPackages, Full
  <2>16. CASE Cancel(t)
    <3>1. /\ info' = info /\ project' = project
          /\ \A u \in Tasks \ {t} : task'[u] = task[u]
          /\ current' \subseteq current
          /\ task[t].pc # "revise"
          /\ task'[t] = NoTask
      BY <2>16 DEF Cancel, End, Typing, TasksOK, published, StagingSteps,
          AwaitPoints
    <3>2. NotOlder(t)' BY <3>1, NoTaskType DEF NotOlder
    <3> QED BY <3>1, <3>2, OlderOthers
  <2> QED BY <1>4, <2>1, <2>2, <2>3, <2>4, <2>5, <2>6, <2>7, <2>8, <2>9, <2>10,
      <2>11, <2>12, <2>13, <2>14, <2>15, <2>16 DEF TaskStep
<1>5. ASSUME NEW r \in Requests, Ask(r) \/ RequestStep(r) PROVE NothingOlder'
  <2>1. /\ UNCHANGED <<info, project, task>>
        /\ current' \cap Tasks = current \cap Tasks
    BY <1>5, RequestFrame
  <2>2. \A t \in Tasks : t \in current' <=> t \in current BY <2>1
  <2> QED BY <2>1, <2>2 DEF NothingOlder, NotOlder, NewPackages, Full
<1>6. CASE UNCHANGED vars BY <1>6 DEF vars, world, editor, published,
    NothingOlder, NotOlder, NewPackages, Full
<1> QED BY <1>1, <1>2, <1>3, <1>4, <1>5, <1>6, KindsOfSteps

-----------------------------------------------------------------------------
(* The theorems.                                                           *)

\* The inductive invariant.  The readings of the requests rest on the locks;
\* the order of what is published rests on the locks and on the disk.
GenInv ==
    /\ Typing /\ LocksMatchSteps
    /\ StagedTogether /\ PublishedTogether
    /\ OverlaysArePublished
    /\ ReadingsHold
    /\ NothingAhead /\ NothingOlder

LEMMA GenInvHolds == Spec => []GenInv
<1>1. Init => GenInv
  BY TypingInit, LocksInit, TogetherInit, OverlaysInit, ReadingsInit, AheadInit,
     OlderInit DEF GenInv
<1>2. GenInv /\ [Next]_vars => GenInv'
  BY TypingNext, LocksNext, StagedNext, PublishedTogetherNext, OverlaysNext,
     ReadingsNext, AheadNext, OlderNext DEF GenInv
<1> QED BY <1>1, <1>2, PTL DEF Spec

\* While the lock is free no task is between two swaps.
LEMMA FreeLock ==
    LocksMatchSteps /\ Unlocked => \A t \in Tasks : task[t].pc \notin Publishing
BY ActorsAssumption DEF LocksMatchSteps, Unlocked

\* Whenever the lock is free, symbol index, package list and project are of one
\* publication, wherever a task was aborted.
THEOREM GenerationIsOne == Spec => []OneGeneration
<1>1. GenInv => OneGeneration
  BY FreeLock DEF GenInv, OneGeneration, PublishedTogether, Coherent, Publishing,
     SwapSteps
<1> QED BY <1>1, GenInvHolds, PTL

\* Whenever the lock is free, the index has the editor's text of every open
\* document, whatever scan was published.
THEOREM OverlaysWin == Spec => []OverlayWins
<1>1. GenInv => OverlayWins
  BY FreeLock DEF GenInv, OverlayWins, OverlaysArePublished, Overlaid, Publishing,
     SwapSteps
<1> QED BY <1>1, GenInvHolds, PTL

\* A request of offload_after_ready that finds its revision unmoved has read
\* symbols and files of the published generation, although it held no lock.
THEOREM RequestsAreCurrent == Spec => []AnswersAreCurrent
<1>1. GenInv => AnswersAreCurrent
  BY FreeLock DEF GenInv, AnswersAreCurrent, ReadingsHold, Publishing
<1> QED BY <1>1, GenInvHolds, PTL

\* Packages and manifest go back only with a full generation: downloads and
\* configurations stage again, or keep what was read meanwhile.
THEOREM DownloadsKeepNews == Spec => NothingGoesBack
<1> DEFINE Back == info'.seen < info.seen \/ project'.manifest < project.manifest
<1> DEFINE Ahead == [Back => writer \in Tasks /\ Full(writer)]_vars
<1>1. GenInv /\ [Next]_vars => Ahead
  <2> SUFFICES ASSUME GenInv, [Next]_vars, Back
               PROVE  writer \in Tasks /\ Full(writer)
    OBVIOUS
  <2>0. /\ Typing /\ info.seen \in Nat /\ project.manifest \in Nat
        /\ disk.manifest \in Nat /\ project.manifest <= disk.manifest
    BY DEF GenInv, Typing, WorldOK, PublishedOK, SymbolSets, Projects, NothingAhead
  <2>1. CASE WorldStep \/ Shutdown
    BY <2>0, <2>1, OutsideFrame DEF published
  <2>2. CASE EditorStep
    BY <2>0, <2>2, EditorFrame
  <2>3. ASSUME NEW t \in Tasks, Start(t) PROVE FALSE
    <3>1. info' = info /\ project'.manifest \in {project.manifest, disk.manifest}
      BY <2>0, <2>3, StartFrame
    <3> QED BY <2>0, <3>1
  <2>4. ASSUME NEW t \in Tasks, TaskStep(t) PROVE writer \in Tasks /\ Full(writer)
    <3>1. CASE SwapProject(t)
      <4>1. /\ task[t].pc = "project"
            /\ info' = task[t].symbols /\ project' = task[t].project
        BY <3>1 DEF SwapProject
      <4>2. writer = t BY <4>1 DEF GenInv, LocksMatchSteps, Publishing, SwapSteps
      <4>3. task[t].symbols.seen \in Nat /\ task[t].project.manifest \in Nat
        BY <2>0 DEF Typing, TasksOK, TaskStates, SymbolSets, Projects
      <4>4. Full(t)
        BY <2>0, <4>1, <4>3 DEF GenInv, NothingOlder, NotOlder, NewPackages
      <4> QED BY <4>2, <4>4
    <3>2. CASE ~SwapProject(t)
      <4>1. info' = info /\ project' = project
        BY <2>4, <3>2 DEF TaskStep, Discover, Scan, Load, StagingFails, Fetch,
           Snapshot, Stage, TakeLock, TakeProjectLock, ClearFiles, SwapFiles,
           ClearSymbols, SwapSymbols, Revise, Cancel, published
      <4> QED BY <2>0, <4>1
    <3> QED BY <3>1, <3>2
  <2>5. ASSUME NEW r \in Requests, Ask(r) \/ RequestStep(r) PROVE FALSE
    BY <2>0, <2>5, RequestFrame
  <2>6. CASE UNCHANGED vars BY <2>0, <2>6 DEF vars, published
  <2> QED BY <2>1, <2>2, <2>3, <2>4, <2>5, <2>6, KindsOfSteps
<1> QED BY <1>1, GenInvHolds, PTL DEF Spec, NothingGoesBack

=============================================================================
