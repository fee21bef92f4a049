----------------------------- MODULE GraphCache -----------------------------
(***************************************************************************)
(* The derived-graph caches of the workspace hub (al-workspace/src/lib.rs).*)
(*                                                                         *)
(* A query (a daemon request, an MCP call, the start-up warm-up) asks for  *)
(* the pair (insight graph, call graph).  The pair is cached behind five   *)
(* independent RwLocks, rebuilt by one thread at a time under              *)
(* call_graph_build_lock, and thrown away by edits, which run on other     *)
(* threads: they mutate the file index first, bump an atomic revision and  *)
(* then reset each cache under its own lock.  Nothing makes an edit atomic *)
(* with respect to a build, so the revision tag of a cached graph is what  *)
(* keeps a stale graph from being served.                                  *)
(*                                                                         *)
(* Steps are as fine as the code's atomic accesses: one per acquisition of *)
(* the build lock, insight_graph or call_graph, per atomic load or store   *)
(* and per read of the file index by a build.  Two merges keep the state   *)
(* space small and lose nothing.  The fingerprint and the two revision     *)
(* locks are innermost: a thread that holds one waits at most for another  *)
(* of the three and never finds it held by a thread that waits, so taking  *)
(* and using them is one step.  insight_graph_revision and its counter are *)
(* read only by get_or_build_insight_graph, which the servers never call   *)
(* (tests and benchmarks do), so an access to them joins its neighbour.    *)
(*                                                                         *)
(* Data.  A workspace content is its version number; a graph remembers the *)
(* version it was read from and the build that produced it.  Graph node    *)
(* identifiers are only meaningful inside one build.                       *)
(***************************************************************************)
EXTENDS Integers, FiniteSets

CONSTANTS Queries,      \* threads that ask for the graphs
          Editors,      \* threads that change the workspace
          MaxChanges,   \* bound: edits, and package replacements on disk
          MaxRequests,  \* bound: requests in a behaviour
          MaxFailures   \* bound: builds, completions or loads that fail

ASSUME BoundsAssumption ==
    {MaxChanges, MaxRequests, MaxFailures} \subseteq Nat

ASSUME ThreadsAssumption == Queries \cap Editors = {}

VARIABLES
    files,        \* version of the file index and symbol index
    topo,         \* version of the last edit that changed the topology
    pkgs,         \* version of the loaded .app packages on disk
    insightRev,   \* insight_invalidation_revision
    callRev,      \* call_invalidation_revision
    ig, igRev,    \* insight_graph, insight_graph_revision
    cg, cgRev,    \* call_graph, call_graph_revision
    cgFp,         \* call_graph_dependency_fingerprint
    depCache,     \* dependency_source_index
    buildLock,    \* holder of call_graph_build_lock
    writers,      \* holders of insight_graph and call_graph in write mode
    readers,      \* holders of call_graph in read mode
    poisoned,     \* locks a panicking holder left poisoned
    progress,     \* call_graph_progress.state
    builds,       \* call_graph_builds
    pc,           \* next step of each thread
    mode,         \* what each query runs: a "query" or a "complete"
    fp,           \* its dependency_fingerprint
    dep,          \* its dependency_sources
    rev,          \* its revision
    ins,          \* its insight
    tagI, tagC,   \* built_at_insight_revision, built_at_call_revision
    new,          \* the call graph it has built and not yet published
    edit,         \* locals of each editor's invalidation
    requests, edits, failures,   \* how much of each bound is used
    need,         \* history: newest edit acknowledged before each request
    needTopo,     \* history: newest topology edit acknowledged before it
    needPkgs,     \* history: the packages on disk when it started
    ackAt,        \* history: ackAt[r] is the newest edit covered by revision r
    ackTopo,      \* history: newest topology edit whose bumps are done
    causes        \* history: events after which a rebuild is legitimate

data   == <<files, topo, pkgs>>
revs   == <<insightRev, callRev>>
cache  == <<ig, igRev, cg, cgRev, cgFp>>
rw     == <<writers, readers>>
status == <<progress, builds>>
bounds == <<requests, edits, failures>>
lookup == <<fp, dep, rev, ins>>
built  == <<tagI, tagC, new>>
needs  == <<need, needTopo, needPkgs>>
locals == <<mode, lookup, built, needs>>
ghosts == <<ackAt, ackTopo>>

vars == <<data, revs, cache, depCache, buildLock, rw, poisoned, status, pc,
          locals, edit, bounds, ghosts, causes>>

-----------------------------------------------------------------------------
IG == "insight_graph"
CG == "call_graph"
BL == "call_graph_build_lock"
DS == "dependency_source_index"

GraphLocks == {IG, CG}

Nothing == -1                       \* an Option<u64> that is None

\* Build numbers start at 1; build 0 marks the empty Option.
NoInsight == [build |-> 0, topo |-> 0]
NoCalls   == [build |-> 0, files |-> 0, dep |-> 0, tag |-> 0, filled |-> 0]

Insights   == [build : Nat, topo : Nat]
CallGraphs == [build : Nat, files : Nat, dep : Nat, tag : Nat, filled : Nat]

NewEdit == [version |-> 0, topology |-> FALSE]

QuerySteps ==
    {"idle", "fingerprint", "sources", "revision", "insight", "calls",
     "check", "lock", "tag", "nodes", "edges", "publish_insight",
     "publish_calls", "publish_all", "mark", "reread", "held", "relock",
     "fill_insight", "fill_calls", "fill"}

EditSteps ==
    {"idle", "bump", "reset_insight", "reset_calls", "reset_calls_rev",
     "reset_fp"}

\* The steps between CallGraphProgress::begin and the drop of the build mark.
BuildSteps == {"nodes", "edges", "publish_insight", "publish_calls",
               "publish_all", "mark"}

MaxOf(a, b) == IF a >= b THEN a ELSE b

CanRead(l)  == writers[l] = {}
CanWrite(l) == writers[l] = {} /\ (l = CG => readers = {})

Goto(p, step) == pc' = [pc EXCEPT ![p] = step]

\* The locals of a finished call are gone.
Forget(q) ==
    /\ mode' = [mode EXCEPT ![q] = "query"]
    /\ fp' = [fp EXCEPT ![q] = 0]
    /\ dep' = [dep EXCEPT ![q] = 0]
    /\ rev' = [rev EXCEPT ![q] = 0]
    /\ ins' = [ins EXCEPT ![q] = NoInsight]
    /\ tagI' = [tagI EXCEPT ![q] = 0]
    /\ tagC' = [tagC EXCEPT ![q] = 0]
    /\ new' = [new EXCEPT ![q] = NoCalls]
    /\ need' = [need EXCEPT ![q] = 0]
    /\ needTopo' = [needTopo EXCEPT ![q] = 0]
    /\ needPkgs' = [needPkgs EXCEPT ![q] = 0]

\* A return of get_or_build_call_graph (through `?`) or of
\* complete_workspace_call_edges: the thread's guards are dropped and its
\* locals are gone.
Return(q) ==
    /\ Goto(q, "idle")
    /\ Forget(q)
    /\ buildLock' = buildLock \ {q}
    /\ writers' = [l \in GraphLocks |-> writers[l] \ {q}]
    /\ readers' = readers \ {q}

-----------------------------------------------------------------------------
Init ==
    /\ files = 0 /\ topo = 0 /\ pkgs = 0
    /\ insightRev = 0 /\ callRev = 0
    /\ ig = NoInsight /\ igRev = Nothing
    /\ cg = NoCalls /\ cgRev = Nothing /\ cgFp = Nothing
    /\ depCache = [fp |-> Nothing, content |-> 0]
    /\ buildLock = {}
    /\ writers = [l \in GraphLocks |-> {}]
    /\ readers = {}
    /\ poisoned = {}
    /\ progress = "Idle" /\ builds = 0
    /\ pc = [p \in Queries \cup Editors |-> "idle"]
    /\ mode = [q \in Queries |-> "query"]
    /\ fp = [q \in Queries |-> 0]
    /\ dep = [q \in Queries |-> 0]
    /\ rev = [q \in Queries |-> 0]
    /\ ins = [q \in Queries |-> NoInsight]
    /\ tagI = [q \in Queries |-> 0]
    /\ tagC = [q \in Queries |-> 0]
    /\ new = [q \in Queries |-> NoCalls]
    /\ need = [q \in Queries |-> 0]
    /\ needTopo = [q \in Queries |-> 0]
    /\ needPkgs = [q \in Queries |-> 0]
    /\ edit = [e \in Editors |-> NewEdit]
    /\ requests = 0 /\ edits = 0 /\ failures = 0
    /\ ackAt = [r \in 0..0 |-> 0]
    /\ ackTopo = 0
    /\ causes = 0

-----------------------------------------------------------------------------
(* get_or_build_call_graph, and complete_workspace_call_edges which starts *)
(* with it.                                                                *)

Begin(q, m) ==
    /\ pc[q] = "idle"
    /\ requests < MaxRequests
    /\ requests' = requests + 1
    /\ mode' = [mode EXCEPT ![q] = m]
    /\ need' = [need EXCEPT ![q] = ackAt[callRev]]
    /\ needTopo' = [needTopo EXCEPT ![q] = ackTopo]
    /\ needPkgs' = [needPkgs EXCEPT ![q] = pkgs]
    /\ Goto(q, "fingerprint")
    /\ UNCHANGED <<data, revs, cache, depCache, buildLock, rw, poisoned,
                   status, lookup, built, edit, edits, failures, ghosts,
                   causes>>

\* dependency_package_fingerprint_reporting: size and mtime of each package.
ReadFingerprint(q) ==
    /\ pc[q] = "fingerprint"
    /\ fp' = [fp EXCEPT ![q] = pkgs]
    /\ Goto(q, "sources")
    /\ UNCHANGED <<data, revs, cache, depCache, buildLock, rw, poisoned,
                   status, mode, needs, dep, rev, ins, built, edit, bounds,
                   ghosts, causes>>

\* The rest of get_or_build_dependency_source_generation: a hit on an equal
\* fingerprint, otherwise the packages are read as they are now and cached
\* under the fingerprint taken before.  The index lock is held throughout and
\* no other lock is taken under it, so this is one step.
LoadSources(q) ==
    /\ pc[q] = "sources"
    /\ DS \notin poisoned
    /\ depCache' = IF depCache.fp = fp[q]
                   THEN depCache
                   ELSE [fp |-> fp[q], content |-> pkgs]
    /\ dep' = [dep EXCEPT ![q] = depCache'.content]
    /\ Goto(q, "revision")
    /\ UNCHANGED <<data, revs, cache, buildLock, rw, poisoned, status, mode,
                   needs, fp, rev, ins, built, edit, bounds, ghosts, causes>>

\* A panic while the packages are read poisons the index lock and, in the
\* re-check, the build lock; from then on every query returns with an error.
SourcesFail(q, panic) ==
    /\ pc[q] = "sources"
    /\ \/ /\ panic
          /\ DS \notin poisoned /\ depCache.fp # fp[q]
          /\ failures < MaxFailures
          /\ failures' = failures + 1
          /\ poisoned' = poisoned \cup {DS}
                          \cup (IF q \in buildLock THEN {BL} ELSE {})
       \/ /\ ~panic
          /\ DS \in poisoned
          /\ UNCHANGED <<failures, poisoned>>
    /\ Return(q)
    /\ UNCHANGED <<data, revs, cache, depCache, status, edit, requests,
                   edits, ghosts, causes>>

ReadRevision(q) ==
    /\ pc[q] = "revision"
    /\ rev' = [rev EXCEPT ![q] = callRev]
    /\ Goto(q, "insight")
    /\ UNCHANGED <<data, revs, cache, depCache, buildLock, rw, poisoned,
                   status, mode, needs, fp, dep, ins, built, edit, bounds,
                   ghosts, causes>>

\* insight_graph.read()?.as_ref().cloned(): the guard is gone at the `;`.
CloneInsight(q) ==
    /\ pc[q] = "insight"
    /\ CanRead(IG)
    /\ ins' = [ins EXCEPT ![q] = ig]
    /\ Goto(q, "calls")
    /\ UNCHANGED <<data, revs, cache, depCache, buildLock, rw, poisoned,
                   status, mode, needs, fp, dep, rev, built, edit, bounds,
                   ghosts, causes>>

LockCalls(q) ==
    /\ pc[q] = "calls"
    /\ CanRead(CG)
    /\ \/ /\ CG \notin poisoned
          /\ readers' = readers \cup {q}
          /\ Goto(q, "check")
          /\ UNCHANGED <<buildLock, writers, locals>>
       \/ /\ CG \in poisoned
          /\ Return(q)
    /\ UNCHANGED <<data, revs, cache, depCache, poisoned, status, edit,
                   bounds, ghosts, causes>>

\* Mutant: a hit does not compare the package fingerprint.
IsHitAnyPackages(q) ==
    /\ ins[q] # NoInsight
    /\ cgRev = rev[q]
    /\ cg # NoCalls

\* What makes the cached pair a hit.  The insight graph only has to be there.
IsHit(q) ==
    /\ ins[q] # NoInsight
    /\ cgRev = rev[q]
    /\ cg # NoCalls
    /\ cgFp = fp[q]

\* Reads the fingerprint and the revision tag under the call_graph guard.  A
\* hit returns with that guard held and, in the re-check, releases the build
\* lock.  A miss drops it and goes for the build lock, or, holding the build
\* lock already, builds.
Check(q) ==
    /\ pc[q] = "check"
    /\ \/ /\ IsHit(q)
          /\ buildLock' = buildLock \ {q}
          /\ Goto(q, "held")
          /\ UNCHANGED readers
       \/ /\ ~IsHit(q)
          /\ readers' = readers \ {q}
          /\ Goto(q, IF q \in buildLock THEN "tag" ELSE "lock")
          /\ UNCHANGED buildLock
    /\ UNCHANGED <<data, revs, cache, depCache, writers, poisoned, status,
                   locals, edit, bounds, ghosts, causes>>

\* Mutant: no re-check under the build lock.
AfterBuildLockBuild == "tag"

\* Where the slow path goes once it has the build lock: back to the
\* dependency sources and the same four reads.
AfterBuildLock == "fingerprint"

AcquireBuildLock(q) ==
    /\ pc[q] = "lock"
    /\ buildLock = {}
    /\ \/ /\ BL \notin poisoned
          /\ buildLock' = {q}
          /\ Goto(q, AfterBuildLock)
          /\ UNCHANGED <<rw, locals>>
       \/ /\ BL \in poisoned
          /\ Return(q)
    /\ UNCHANGED <<data, revs, cache, depCache, poisoned, status, edit,
                   bounds, ghosts, causes>>

\* Reads the revisions the graphs will be tagged with, counts the build and
\* marks it as running (CallGraphProgress::begin).
TagBuild(q) ==
    /\ pc[q] = "tag"
    /\ tagI' = [tagI EXCEPT ![q] = insightRev]
    /\ tagC' = [tagC EXCEPT ![q] = callRev]
    /\ builds' = builds + 1
    /\ progress' = "Building"
    /\ Goto(q, "nodes")
    /\ UNCHANGED <<data, revs, cache, depCache, buildLock, rw, poisoned, mode,
                   needs, lookup, new, edit, bounds, ghosts, causes>>

\* The build reads the indexes without any lock: first for the nodes ...
BuildNodes(q) ==
    /\ pc[q] = "nodes"
    /\ ins' = [ins EXCEPT ![q] = [build |-> builds, topo |-> topo]]
    /\ Goto(q, "edges")
    /\ UNCHANGED <<data, revs, cache, depCache, buildLock, rw, poisoned,
                   status, mode, needs, fp, dep, rev, built, edit, bounds,
                   ghosts, causes>>

\* ... and then, possibly after more edits, for the call edges.
BuildEdges(q) ==
    /\ pc[q] = "edges"
    /\ new' = [new EXCEPT ![q] =
                 [build |-> ins[q].build, files |-> files, dep |-> dep[q],
                  tag |-> tagC[q], filled |-> 0]]
    /\ Goto(q, "publish_insight")
    /\ UNCHANGED <<data, revs, cache, depCache, buildLock, rw, poisoned,
                   status, mode, needs, lookup, tagI, tagC, edit, bounds,
                   ghosts, causes>>

\* Mutant: the build mark is not dropped on the error path.
BuildFailsSilently(q, panic) ==
    /\ pc[q] \in {"nodes", "edges"}
    /\ failures < MaxFailures
    /\ failures' = failures + 1
    /\ poisoned' = IF panic THEN poisoned \cup {BL} ELSE poisoned
    /\ causes' = causes + 1
    /\ Return(q)
    /\ UNCHANGED <<data, revs, cache, depCache, status, edit, requests, edits,
                   ghosts>>

\* An error of the build, or a panic in it, which poisons the build lock.
\* Dropping the build mark reports the build as failed.
BuildFails(q, panic) ==
    /\ pc[q] \in {"nodes", "edges"}
    /\ failures < MaxFailures
    /\ failures' = failures + 1
    /\ progress' = "Failed"
    /\ poisoned' = IF panic THEN poisoned \cup {BL} ELSE poisoned
    /\ causes' = causes + 1
    /\ Return(q)
    /\ UNCHANGED <<data, revs, cache, depCache, builds, edit, requests,
                   edits, ghosts>>

PublishInsight(q) ==
    /\ pc[q] = "publish_insight"
    /\ CanWrite(IG)
    /\ writers' = [writers EXCEPT ![IG] = {q}]
    /\ Goto(q, "publish_calls")
    /\ UNCHANGED <<data, revs, cache, depCache, buildLock, readers, poisoned,
                   status, locals, edit, bounds, ghosts, causes>>

PublishCalls(q) ==
    /\ pc[q] = "publish_calls"
    /\ CanWrite(CG)
    /\ \/ /\ CG \notin poisoned
          /\ writers' = [writers EXCEPT ![CG] = {q}]
          /\ Goto(q, "publish_all")
          /\ UNCHANGED <<buildLock, readers, progress, causes, locals>>
       \/ /\ CG \in poisoned
          /\ progress' = "Failed"
          /\ causes' = causes + 1
          /\ Return(q)
    /\ UNCHANGED <<data, revs, cache, depCache, poisoned, builds, edit,
                   bounds, ghosts>>

\* Mutants: the revision is read after the build; an insight graph already
\* cached is kept; the write guards are still held when the guard to return is
\* taken.
Publish(q, insight, tag, guards) ==
    /\ pc[q] = "publish_all"
    /\ ig' = insight
    /\ cg' = new[q]
    /\ cgFp' = fp[q]
    /\ igRev' = tagI[q]
    /\ cgRev' = tag
    /\ writers' = guards
    /\ new' = [new EXCEPT ![q] = NoCalls]
    /\ Goto(q, "mark")
    /\ UNCHANGED <<data, revs, depCache, buildLock, readers, poisoned, status,
                   mode, needs, lookup, tagI, tagC, edit, bounds, ghosts,
                   causes>>

PublishLateTag(q) ==
    Publish(q, ins[q], callRev, [l \in GraphLocks |-> {}])

PublishKeepInsight(q) ==
    Publish(q, IF ig = NoInsight THEN ins[q] ELSE ig, tagC[q],
            [l \in GraphLocks |-> {}])

PublishKeepGuards(q) == Publish(q, ins[q], tagC[q], writers)

\* The fingerprint lock and the two revision locks complete the set; the five
\* values are stored and every guard is dropped.
PublishAll(q) ==
    /\ pc[q] = "publish_all"
    /\ ig' = ins[q]
    /\ cg' = new[q]
    /\ cgFp' = fp[q]
    /\ igRev' = tagI[q]
    /\ cgRev' = tagC[q]
    /\ writers' = [l \in GraphLocks |-> {}]
    /\ new' = [new EXCEPT ![q] = NoCalls]
    /\ Goto(q, "mark")
    /\ UNCHANGED <<data, revs, depCache, buildLock, readers, poisoned, status,
                   mode, needs, lookup, tagI, tagC, edit, bounds, ghosts,
                   causes>>

\* build_mark.succeeded()
MarkReady(q) ==
    /\ pc[q] = "mark"
    /\ progress' = "Ready"
    /\ Goto(q, "reread")
    /\ UNCHANGED <<data, revs, cache, depCache, buildLock, rw, poisoned,
                   builds, locals, edit, bounds, ghosts, causes>>

\* The builder returns its own insight graph with a guard taken anew; the
\* build lock is released as the function returns.
Reread(q) ==
    /\ pc[q] = "reread"
    /\ CanRead(CG)
    /\ \/ /\ CG \notin poisoned
          /\ readers' = readers \cup {q}
          /\ buildLock' = buildLock \ {q}
          /\ Goto(q, "held")
          /\ UNCHANGED <<writers, locals>>
       \/ /\ CG \in poisoned
          /\ Return(q)
    /\ UNCHANGED <<data, revs, cache, depCache, poisoned, status, edit,
                   bounds, ghosts, causes>>

\* The caller is done with the pair and drops the guard.
DropGuard(q) ==
    /\ pc[q] = "held"
    /\ \/ /\ mode[q] = "complete"
          /\ readers' = readers \ {q}
          /\ Goto(q, "relock")
          /\ UNCHANGED <<buildLock, writers, locals>>
       \/ /\ mode[q] = "query"
          /\ Return(q)
    /\ UNCHANGED <<data, revs, cache, depCache, poisoned, status, edit,
                   bounds, ghosts, causes>>

\* Mutant: edges are completed without holding off rebuilds.
FillUnlocked(q) ==
    /\ pc[q] = "relock"
    /\ Goto(q, "fill_insight")
    /\ UNCHANGED <<data, revs, cache, depCache, buildLock, rw, poisoned,
                   status, locals, edit, bounds, ghosts, causes>>

\* complete_workspace_call_edges: hold off rebuilds, then fill in the graph.
FillLock(q) ==
    /\ pc[q] = "relock"
    /\ buildLock = {}
    /\ \/ /\ BL \notin poisoned
          /\ buildLock' = {q}
          /\ Goto(q, "fill_insight")
          /\ UNCHANGED <<rw, locals>>
       \/ /\ BL \in poisoned
          /\ Return(q)
    /\ UNCHANGED <<data, revs, cache, depCache, poisoned, status, edit,
                   bounds, ghosts, causes>>

FillInsight(q) ==
    /\ pc[q] = "fill_insight"
    /\ CanRead(IG)
    /\ \/ /\ ig # NoInsight
          /\ ins' = [ins EXCEPT ![q] = ig]
          /\ Goto(q, "fill_calls")
          /\ UNCHANGED <<buildLock, rw, mode, needs, fp, dep, rev, built>>
       \/ /\ ig = NoInsight
          /\ Return(q)
    /\ UNCHANGED <<data, revs, cache, depCache, poisoned, status, edit,
                   bounds, ghosts, causes>>

FillCalls(q) ==
    /\ pc[q] = "fill_calls"
    /\ CanWrite(CG)
    /\ \/ /\ CG \notin poisoned /\ cg # NoCalls
          /\ writers' = [writers EXCEPT ![CG] = {q}]
          /\ Goto(q, "fill")
          /\ UNCHANGED <<buildLock, readers, locals>>
       \/ /\ CG \in poisoned \/ cg = NoCalls
          /\ Return(q)
    /\ UNCHANGED <<data, revs, cache, depCache, poisoned, status, edit,
                   bounds, ghosts, causes>>

\* resolve_all_workspace_call_edges adds edges numbered by the insight graph
\* read two steps ago to the call graph.
Fill(q) ==
    /\ pc[q] = "fill"
    /\ cg' = [cg EXCEPT !.filled = ins[q].build]
    /\ Return(q)
    /\ UNCHANGED <<data, revs, ig, igRev, cgRev, cgFp, depCache, poisoned,
                   status, edit, bounds, ghosts, causes>>

\* The resolution fails, or panics and poisons the two locks it runs under.
FillFails(q, panic) ==
    /\ pc[q] = "fill"
    /\ failures < MaxFailures
    /\ failures' = failures + 1
    /\ poisoned' = IF panic THEN poisoned \cup {BL, CG} ELSE poisoned
    /\ Return(q)
    /\ UNCHANGED <<data, revs, cache, depCache, status, edit, requests,
                   edits, ghosts, causes>>

-----------------------------------------------------------------------------
(* on_document_change, on_document_close, refresh_workspace_files,         *)
(* apply_disk_changes and refresh_package_folders: the indexes are changed *)
(* first, then the graphs are invalidated.                                 *)

EditBody(e) ==
    /\ pc[e] = "idle"
    /\ edits + pkgs < MaxChanges
    /\ edits' = edits + 1
    /\ files' = files + 1
    /\ edit' = [edit EXCEPT ![e] = [version |-> files + 1, topology |-> FALSE]]
    /\ Goto(e, "bump")
    /\ UNCHANGED <<topo, pkgs, revs, cache, depCache, buildLock, rw, poisoned,
                   status, locals, requests, failures, ghosts, causes>>

EditTopology(e) ==
    /\ pc[e] = "idle"
    /\ edits + pkgs < MaxChanges
    /\ edits' = edits + 1
    /\ files' = files + 1
    /\ topo' = files + 1
    /\ edit' = [edit EXCEPT ![e] = [version |-> files + 1, topology |-> TRUE]]
    /\ Goto(e, "bump")
    /\ UNCHANGED <<pkgs, revs, cache, depCache, buildLock, rw, poisoned,
                   status, locals, requests, failures, ghosts, causes>>

\* invalidate_insight_graph bumps both revisions, invalidate_call_graph_only
\* the second.  From now on the edit is acknowledged: a later request must see
\* it.
BumpRevisions(e) ==
    /\ pc[e] = "bump"
    /\ insightRev' = IF edit[e].topology THEN insightRev + 1 ELSE insightRev
    /\ callRev' = callRev + 1
    /\ ackAt' = [r \in 0..(callRev + 1) |->
                   IF r = callRev + 1
                   THEN MaxOf(ackAt[callRev], edit[e].version)
                   ELSE ackAt[r]]
    /\ ackTopo' = IF edit[e].topology THEN MaxOf(ackTopo, edit[e].version)
                                      ELSE ackTopo
    /\ causes' = causes + 1
    /\ Goto(e, IF edit[e].topology THEN "reset_insight" ELSE "reset_calls")
    /\ UNCHANGED <<data, cache, depCache, buildLock, rw, poisoned, status,
                   locals, edit, bounds>>

\* The resets of invalidate_insight_graph and invalidate_call_graph_only, one
\* cache at a time, each under its own lock.
ResetInsight(e) ==
    /\ pc[e] = "reset_insight"
    /\ CanWrite(IG)
    /\ ig' = NoInsight
    /\ igRev' = Nothing
    /\ causes' = causes + 1
    /\ Goto(e, "reset_calls")
    /\ UNCHANGED <<data, revs, cg, cgRev, cgFp, depCache, buildLock, rw,
                   poisoned, status, locals, edit, bounds, ghosts>>

\* Mutant: the cache is reset while callers still hold their guards.
ResetCallsInUse(e) ==
    /\ pc[e] = "reset_calls"
    /\ writers[CG] = {}
    /\ cg' = NoCalls
    /\ poisoned' = poisoned \ {CG}
    /\ causes' = causes + 1
    /\ Goto(e, "reset_calls_rev")
    /\ UNCHANGED <<data, revs, ig, igRev, cgRev, cgFp, depCache, buildLock, rw,
                   status, locals, edit, bounds, ghosts>>

\* reset_optional_cache also repairs a poisoned cache.
ResetCalls(e) ==
    /\ pc[e] = "reset_calls"
    /\ CanWrite(CG)
    /\ cg' = NoCalls
    /\ poisoned' = poisoned \ {CG}
    /\ causes' = causes + 1
    /\ Goto(e, "reset_calls_rev")
    /\ UNCHANGED <<data, revs, ig, igRev, cgRev, cgFp, depCache, buildLock, rw,
                   status, locals, edit, bounds, ghosts>>

ResetCallsRev(e) ==
    /\ pc[e] = "reset_calls_rev"
    /\ cgRev' = Nothing
    /\ causes' = causes + 1
    /\ Goto(e, "reset_fp")
    /\ UNCHANGED <<data, revs, ig, igRev, cg, cgFp, depCache, buildLock, rw,
                   poisoned, status, locals, edit, bounds, ghosts>>

ResetFingerprint(e) ==
    /\ pc[e] = "reset_fp"
    /\ cgFp' = Nothing
    /\ causes' = causes + 1
    /\ edit' = [edit EXCEPT ![e] = NewEdit]
    /\ Goto(e, "idle")
    /\ UNCHANGED <<data, revs, ig, igRev, cg, cgRev, depCache, buildLock, rw,
                   poisoned, status, locals, bounds, ghosts>>

\* A package file is replaced on disk by another program; no invalidation
\* runs, only the fingerprint tells.
ReplacePackage ==
    /\ edits + pkgs < MaxChanges
    /\ pkgs' = pkgs + 1
    /\ causes' = causes + 1
    /\ UNCHANGED <<files, topo, revs, cache, depCache, buildLock, rw, poisoned,
                   status, pc, locals, edit, bounds, ghosts>>

-----------------------------------------------------------------------------
QueryStep(q) ==
    \/ ReadFingerprint(q) \/ LoadSources(q) \/ SourcesFail(q, FALSE)
    \/ ReadRevision(q)
    \/ CloneInsight(q) \/ LockCalls(q) \/ Check(q)
    \/ AcquireBuildLock(q) \/ TagBuild(q)
    \/ BuildNodes(q) \/ BuildEdges(q)
    \/ PublishInsight(q) \/ PublishCalls(q) \/ PublishAll(q)
    \/ MarkReady(q) \/ Reread(q) \/ DropGuard(q)
    \/ FillLock(q) \/ FillInsight(q) \/ FillCalls(q) \/ Fill(q)

EditStep(e) ==
    \/ BumpRevisions(e) \/ ResetInsight(e)
    \/ ResetCalls(e) \/ ResetCallsRev(e) \/ ResetFingerprint(e)

Next ==
    \/ \E q \in Queries :
          \/ QueryStep(q)
          \/ \E m \in {"query", "complete"} : Begin(q, m)
          \/ \E panic \in BOOLEAN : BuildFails(q, panic) \/ FillFails(q, panic)
          \/ SourcesFail(q, TRUE)
    \/ \E e \in Editors : EditStep(e) \/ EditBody(e) \/ EditTopology(e)
    \/ ReplacePackage

Spec == Init /\ [][Next]_vars

\* Every thread keeps running: tokio's blocking pool and the OS schedule a
\* runnable thread, and a lock that stays free is granted.  No request, edit
\* or failure has to happen.
FairSpec ==
    /\ Spec
    /\ \A q \in Queries : WF_vars(QueryStep(q))
    /\ \A e \in Editors : WF_vars(EditStep(e))

-----------------------------------------------------------------------------
TypeOK ==
    /\ files \in Nat /\ topo \in Nat /\ pkgs \in Nat
    /\ insightRev \in Nat /\ callRev \in Nat /\ builds \in Nat
    /\ requests \in Nat /\ edits \in Nat /\ failures \in Nat
    /\ ackTopo \in Nat /\ causes \in Nat
    /\ ig \in Insights /\ cg \in CallGraphs
    /\ igRev \in Nat \cup {Nothing}
    /\ cgRev \in Nat \cup {Nothing}
    /\ cgFp \in Nat \cup {Nothing}
    /\ depCache \in [fp : Nat \cup {Nothing}, content : Nat]
    /\ buildLock \in SUBSET Queries
    /\ writers \in [GraphLocks -> SUBSET Queries]
    /\ readers \in SUBSET Queries
    /\ poisoned \in SUBSET {BL, CG, DS}
    /\ progress \in {"Idle", "Building", "Ready", "Failed"}
    /\ pc \in [Queries \cup Editors -> QuerySteps \cup EditSteps]
    /\ \A q \in Queries : pc[q] \in QuerySteps
    /\ \A e \in Editors : pc[e] \in EditSteps
    /\ mode \in [Queries -> {"query", "complete"}]
    /\ fp \in [Queries -> Nat] /\ dep \in [Queries -> Nat]
    /\ rev \in [Queries -> Nat] /\ ins \in [Queries -> Insights]
    /\ tagI \in [Queries -> Nat] /\ tagC \in [Queries -> Nat]
    /\ new \in [Queries -> CallGraphs]
    /\ need \in [Queries -> Nat] /\ needTopo \in [Queries -> Nat]
    /\ needPkgs \in [Queries -> Nat]
    /\ edit \in [Editors -> [version : Nat, topology : BOOLEAN]]
    /\ ackAt \in [0..callRev -> Nat]

\* A request that got a call graph got one that contains every edit
\* acknowledged before the request started, however many edits and builds ran
\* in between.
ServedCallGraphIsFresh ==
    \A q \in Queries :
        pc[q] = "held" /\ cg # NoCalls => cg.files >= need[q]

\* The dependency sources in a call graph a request gets are no older than
\* the packages that were on disk when the request started, although the
\* fingerprint is taken before the packages are read and nothing invalidates
\* the graph when another program replaces one.
ServedSourcesAreFresh ==
    \A q \in Queries :
        pc[q] = "held" /\ cg # NoCalls => cg.dep >= needPkgs[q]

\* The two cached graphs, when both are present, come from one build: no
\* publication, invalidation or partial invalidation ever leaves a call graph
\* beside an insight graph whose node numbers it does not use.
CacheIsOneBuild ==
    ig # NoInsight /\ cg # NoCalls => ig.build = cg.build

\* complete_workspace_call_edges only ever adds edges numbered by the insight
\* graph of the same build, although it clones the insight graph and locks the
\* call graph at different moments.
FilledFromItsInsight ==
    cg.filled \in {0, cg.build}

\* "Concurrent callers block on call_graph_build_lock, find the published
\* graph in the re-check, and never reach here": after the first, a build
\* needs a cause of its own, an invalidation step, a replaced package or a
\* failed build.
SingleFlight == builds <= 1 + causes

\* status reports a running build exactly while one is running; an error or a
\* panic does not leave it at building.
ProgressIsHonest ==
    progress = "Building" <=> \E q \in Queries : pc[q] \in BuildSteps

\* The lock a thread has to take next, and whether somebody is in its way.
NoLock == "no lock"

Ahead(p) ==
    CASE pc[p] \in {"lock", "relock"} -> BL
      [] pc[p] \in {"insight", "fill_insight", "publish_insight",
                    "reset_insight"} -> IG
      [] pc[p] \in {"calls", "reread", "publish_calls", "fill_calls",
                    "reset_calls"} -> CG
      [] OTHER -> NoLock

Holders(l) == IF l = BL THEN buildLock
              ELSE writers[l] \cup (IF l = CG THEN readers ELSE {})

Waits(p) ==
    /\ Ahead(p) # NoLock
    /\ IF pc[p] \in {"insight", "fill_insight", "calls", "reread"}
       THEN ~CanRead(Ahead(p)) ELSE Holders(Ahead(p)) # {}

Rank(l) == CASE l = BL -> 1 [] l = IG -> 2 [] l = CG -> 3 [] OTHER -> 4

\* No deadlock: whoever a thread waits for is not gone, and waits itself, if at
\* all, for a lock later in the order build lock, insight_graph, call_graph.
\* So no waits form a circle and each chain of them ends, after two at most,
\* at a thread that runs.
WaitsFollowLockOrder ==
    \A p \in Queries \cup Editors, h \in Queries :
        Waits(p) /\ h \in Holders(Ahead(p)) =>
            /\ pc[h] # "idle"
            /\ Waits(h) => Rank(Ahead(p)) < Rank(Ahead(h))

\* The promise of the cache as its callers see it: GraphService, with a thread
\* that completes edges seen as idle once it has let go of its answer.
AnsweringSteps == {"fingerprint", "sources", "revision", "insight", "calls",
                   "check", "lock"} \cup BuildSteps \cup {"tag", "reread"}

CallState(q) ==
    IF pc[q] \in AnsweringSteps
    THEN [at |-> "asked", need |-> need[q], got |-> 0]
    ELSE IF pc[q] = "held"
    THEN IF cg = NoCalls
         THEN [at |-> "empty", need |-> need[q], got |-> 0]
         ELSE [at |-> "answered", need |-> need[q], got |-> cg.files]
    ELSE [at |-> "idle", need |-> 0, got |-> 0]

Service == INSTANCE GraphService WITH
    Callers <- Queries, version <- files, acked <- ackAt[callRev],
    call <- [q \in Queries |-> CallState(q)]

\* get_or_build_call_graph implements the service: one answer per request, at
\* least as new as what was acknowledged when it was asked, never from the
\* future, and unchanged for as long as the caller keeps its guard.
ImplementsService == Service!Spec

\* Every request is answered, with graphs or with an error, and every
\* invalidation completes: no thread waits forever for the build lock or a
\* graph lock, whatever the interleaving of readers, builder and invalidators.
EveryCallReturns ==
    \A p \in Queries \cup Editors : []<>(pc[p] = "idle")

-----------------------------------------------------------------------------
(* The inductive invariant behind the safety properties.                   *)

FillSteps == {"fill_insight", "fill_calls", "fill"}

\* Who holds what follows from where the threads are.
LocksMatchSteps ==
    /\ \A q \in Queries :
          /\ pc[q] \in {"tag", "reread"} \cup BuildSteps \cup FillSteps =>
                q \in buildLock
          /\ q \in readers <=> pc[q] \in {"check", "held"}
          /\ q \in writers[CG] <=> pc[q] \in {"publish_all", "fill"}
    /\ \A p, q \in buildLock : p = q
    /\ writers[CG] # {} => readers = {}

\* What a request needs was acknowledged, what is acknowledged was done.
VersionsInOrder ==
    /\ \A r \in 0..callRev : ackAt[r] <= ackAt[callRev]
    /\ ackAt[callRev] <= files
    /\ \A e \in Editors : edit[e].version <= files
    /\ \A q \in Queries : /\ need[q] <= ackAt[callRev]
                          /\ needPkgs[q] <= pkgs

\* A fingerprint is never newer than the sources read under it.
SourcesInOrder ==
    /\ depCache.fp # Nothing => depCache.fp <= depCache.content
    /\ \A q \in Queries :
          /\ pc[q] \notin {"idle", "fingerprint"} =>
                needPkgs[q] <= fp[q] /\ fp[q] <= pkgs
          /\ pc[q] \notin {"idle", "fingerprint", "sources"} =>
                fp[q] <= dep[q]

\* The revision a lookup compares with, and the one a build is tagged with,
\* cover what the request needs; a finished build covers its own tag.
RevisionsCoverNeeds ==
    \A q \in Queries :
        /\ pc[q] \in {"insight", "calls", "check"} =>
              rev[q] <= callRev /\ need[q] <= ackAt[rev[q]]
        /\ pc[q] \in BuildSteps \cup {"reread"} =>
              tagC[q] <= callRev /\ need[q] <= ackAt[tagC[q]]
        /\ pc[q] \in {"publish_insight", "publish_calls", "publish_all"} =>
              /\ new[q].tag = tagC[q]
              /\ new[q].files >= ackAt[tagC[q]]
              /\ new[q].dep = dep[q]
              /\ new[q].build = ins[q].build
              /\ new[q].filled = 0

\* The cached call graph covers the revision it is tagged with.
CacheCoversItsTag ==
    cg # NoCalls =>
        /\ cg.tag <= callRev
        /\ cg.files >= ackAt[cg.tag]
        /\ cgRev # Nothing => cgRev = cg.tag
        /\ cgFp # Nothing => cgFp <= cg.dep

\* What the holder of the build lock knows of the cached call graph.
BuildLockPinsCache ==
    \A q \in Queries :
        /\ pc[q] \in {"mark", "reread"} /\ cg # NoCalls =>
              cg.tag = tagC[q] /\ cg.dep = dep[q]
        /\ pc[q] \in {"fill_calls", "fill"} /\ cg # NoCalls =>
              cg.build = ins[q].build
        /\ pc[q] = "fill" => cg # NoCalls

GraphInv ==
    /\ TypeOK
    /\ LocksMatchSteps
    /\ VersionsInOrder
    /\ SourcesInOrder
    /\ RevisionsCoverNeeds
    /\ CacheCoversItsTag
    /\ BuildLockPinsCache
    /\ CacheIsOneBuild
    /\ FilledFromItsInsight
    /\ ServedCallGraphIsFresh
    /\ ServedSourcesAreFresh
    /\ ProgressIsHonest

-----------------------------------------------------------------------------
(* What the repository says of the code and the code does not do.          *)

\* "a cached graph is a hit only while its tag still equals the counter, so a
\* graph that missed a concurrent edit is rebuilt on the next query": the
\* insight graph served contains every topology edit acknowledged before the
\* request started.
ServedInsightIsFresh ==
    \A q \in Queries : pc[q] = "held" => ins[q].topo >= needTopo[q]

=============================================================================
