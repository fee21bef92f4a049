-------------------------- MODULE GraphCacheProofs --------------------------
(***************************************************************************)
(* Proof that GraphInv is an invariant of GraphCache for every set of      *)
(* query and editor threads and every bound, and what follows from it.     *)
(*                                                                         *)
(* The properties are not inductive by themselves: that a served graph is  *)
(* fresh rests on the tag it carries, the tag on the revision read before  *)
(* the indexes, and the fill of a graph on the build lock.  The invariant  *)
(* is proved in layers, each using only the ones before it:                *)
(*   TypesStep     the types;                                              *)
(*   LocksStep     who holds a lock follows from where the threads are;    *)
(*   OrderStep     versions, fingerprints and revisions are in the order   *)
(*                 in which the code reads them;                           *)
(*   CacheStep     the cached call graph covers its tag, so a hit on the   *)
(*                 tag covers what the request needs;                      *)
(*   ProgressStep  the build mark follows the builder.                     *)
(* Each lemma has one step per action.                                     *)
(***************************************************************************)
EXTENDS GraphCache, TLAPS

\* The part of TypeOK about the locals of the queries, and about their steps.
LocalsTyped ==
    /\ mode \in [Queries -> {"query", "complete"}]
    /\ fp \in [Queries -> Nat] /\ dep \in [Queries -> Nat]
    /\ rev \in [Queries -> Nat] /\ ins \in [Queries -> Insights]
    /\ tagI \in [Queries -> Nat] /\ tagC \in [Queries -> Nat]
    /\ new \in [Queries -> CallGraphs]
    /\ need \in [Queries -> Nat] /\ needTopo \in [Queries -> Nat]
    /\ needPkgs \in [Queries -> Nat]

StepsTyped ==
    /\ pc \in [Queries \cup Editors -> QuerySteps \cup EditSteps]
    /\ \A q \in Queries : pc[q] \in QuerySteps
    /\ \A e \in Editors : pc[e] \in EditSteps

\* A thread goes to one of the steps in S and the other threads stand.
Moved(p, S) ==
    pc'[p] \in S /\ \A o \in (Queries \cup Editors) \ {p} : pc'[o] = pc[o]

\* A query thread moves from one of its steps to another.
LEMMA QueryMoves ==
  ASSUME TypeOK, NEW q \in Queries, NEW s, Goto(q, s)
  PROVE  /\ s \in QuerySteps => StepsTyped'
         /\ Moved(q, {s})
BY ThreadsAssumption DEF TypeOK, StepsTyped, Moved, Goto

\* So does an editor thread.
LEMMA EditorMoves ==
  ASSUME TypeOK, NEW e \in Editors, NEW s, Goto(e, s)
  PROVE  /\ s \in EditSteps => StepsTyped'
         /\ Moved(e, {s})
BY ThreadsAssumption DEF TypeOK, StepsTyped, Moved, Goto

\* A return drops the thread's locals and locks.
LEMMA ReturnTyped ==
  ASSUME TypeOK, NEW q \in Queries, Return(q)
  PROVE  /\ StepsTyped' /\ Moved(q, {"idle"})
         /\ LocalsTyped'
         /\ buildLock' \in SUBSET Queries /\ readers' \in SUBSET Queries
         /\ writers' \in [GraphLocks -> SUBSET Queries]
<1>1. StepsTyped' /\ Moved(q, {"idle"})
  BY QueryMoves DEF Return, QuerySteps
<1>2. /\ buildLock' \in SUBSET Queries /\ readers' \in SUBSET Queries
      /\ writers' \in [GraphLocks -> SUBSET Queries]
  BY DEF Return, TypeOK
<1>3. NoInsight \in Insights /\ NoCalls \in CallGraphs
  BY DEF NoInsight, Insights, NoCalls, CallGraphs
<1>4. LocalsTyped'
  BY <1>3 DEF Return, Forget, LocalsTyped, TypeOK
<1> QED
  BY <1>1, <1>2, <1>4

\* Every step of every thread keeps the types.
LEMMA TypesStep == TypeOK /\ [Next]_vars => TypeOK'
<1> SUFFICES ASSUME TypeOK, [Next]_vars PROVE TypeOK'
  OBVIOUS
<1>1. ASSUME NEW q \in Queries, ReadFingerprint(q)
      PROVE  TypeOK'
  <2>1. StepsTyped'
    BY <1>1, QueryMoves DEF ReadFingerprint, QuerySteps
  <2> QED
    BY <1>1, <2>1
       DEF ReadFingerprint, TypeOK, StepsTyped, data, revs, cache, rw, status,
           lookup, built, needs, locals, bounds, ghosts
<1>2. ASSUME NEW q \in Queries, LoadSources(q)
      PROVE  TypeOK'
  <2>1. StepsTyped'
    BY <1>2, QueryMoves DEF LoadSources, QuerySteps
  <2>2. depCache' \in [fp : Nat \cup {Nothing}, content : Nat]
    BY <1>2 DEF LoadSources, TypeOK
  <2>3. dep' \in [Queries -> Nat]
    BY <1>2, <2>2 DEF LoadSources, TypeOK
  <2> QED
    BY <1>2, <2>1, <2>2, <2>3
       DEF LoadSources, TypeOK, StepsTyped, data, revs, cache, rw, status,
           lookup, built, needs, locals, bounds, ghosts
<1>3. ASSUME NEW q \in Queries, ReadRevision(q)
      PROVE  TypeOK'
  <2>1. StepsTyped'
    BY <1>3, QueryMoves DEF ReadRevision, QuerySteps
  <2> QED
    BY <1>3, <2>1
       DEF ReadRevision, TypeOK, StepsTyped, data, revs, cache, rw, status,
           lookup, built, needs, locals, bounds, ghosts
<1>4. ASSUME NEW q \in Queries, CloneInsight(q)
      PROVE  TypeOK'
  <2>1. StepsTyped'
    BY <1>4, QueryMoves DEF CloneInsight, QuerySteps
  <2> QED
    BY <1>4, <2>1
       DEF CloneInsight, TypeOK, StepsTyped, data, revs, cache, rw, status,
           lookup, built, needs, locals, bounds, ghosts
<1>5. ASSUME NEW q \in Queries, LockCalls(q)
      PROVE  TypeOK'
  <2>1. StepsTyped'
    BY <1>5, QueryMoves, ReturnTyped DEF LockCalls, QuerySteps
  <2>2. CASE Return(q)
    BY <1>5, <2>2, ReturnTyped
       DEF LockCalls, TypeOK, StepsTyped, LocalsTyped, data, revs, cache, rw,
           status, lookup, built, needs, locals, bounds, ghosts
  <2>3. CASE ~Return(q)
    BY <1>5, <2>1, <2>3
       DEF LockCalls, TypeOK, StepsTyped, data, revs, cache, rw, status,
           lookup, built, needs, locals, bounds, ghosts
  <2> QED
    BY <2>2, <2>3
<1>6. ASSUME NEW q \in Queries, Check(q)
      PROVE  TypeOK'
  <2>1. StepsTyped'
    BY <1>6, QueryMoves DEF Check, IsHit, QuerySteps
  <2> QED
    BY <1>6, <2>1
       DEF Check, TypeOK, StepsTyped, data, revs, cache, rw, status, lookup,
           built, needs, locals, bounds, ghosts
<1>7. ASSUME NEW q \in Queries, AcquireBuildLock(q)
      PROVE  TypeOK'
  <2>1. StepsTyped'
    BY <1>7, QueryMoves, ReturnTyped
       DEF AcquireBuildLock, AfterBuildLock, QuerySteps
  <2>2. CASE Return(q)
    BY <1>7, <2>2, ReturnTyped
       DEF AcquireBuildLock, TypeOK, StepsTyped, LocalsTyped, data, revs,
           cache, rw, status, lookup, built, needs, locals, bounds, ghosts
  <2>3. CASE ~Return(q)
    BY <1>7, <2>1, <2>3
       DEF AcquireBuildLock, TypeOK, StepsTyped, data, revs, cache, rw, status,
           lookup, built, needs, locals, bounds, ghosts
  <2> QED
    BY <2>2, <2>3
<1>8. ASSUME NEW q \in Queries, TagBuild(q)
      PROVE  TypeOK'
  <2>1. StepsTyped'
    BY <1>8, QueryMoves DEF TagBuild, QuerySteps
  <2>2. tagI' \in [Queries -> Nat] /\ tagC' \in [Queries -> Nat]
    BY <1>8 DEF TagBuild, TypeOK
  <2>3. builds' \in Nat /\ progress' \in {"Idle", "Building", "Ready", "Failed"}
    BY <1>8 DEF TagBuild, TypeOK
  <2> QED
    BY <1>8, <2>1, <2>2, <2>3
       DEF TagBuild, TypeOK, StepsTyped, data, revs, cache, rw, status, lookup,
           built, needs, locals, bounds, ghosts
<1>9. ASSUME NEW q \in Queries, BuildNodes(q)
      PROVE  TypeOK'
  <2>1. StepsTyped'
    BY <1>9, QueryMoves DEF BuildNodes, QuerySteps
  <2>2. ins' \in [Queries -> Insights]
    BY <1>9 DEF BuildNodes, Insights, TypeOK
  <2> QED
    BY <1>9, <2>1, <2>2
       DEF BuildNodes, TypeOK, StepsTyped, data, revs, cache, rw, status,
           lookup, built, needs, locals, bounds, ghosts
<1>10. ASSUME NEW q \in Queries, BuildEdges(q)
      PROVE  TypeOK'
  <2>1. StepsTyped'
    BY <1>10, QueryMoves DEF BuildEdges, QuerySteps
  <2>2. new' \in [Queries -> CallGraphs]
    BY <1>10 DEF BuildEdges, CallGraphs, Insights, TypeOK
  <2> QED
    BY <1>10, <2>1, <2>2
       DEF BuildEdges, TypeOK, StepsTyped, data, revs, cache, rw, status,
           lookup, built, needs, locals, bounds, ghosts
<1>11. ASSUME NEW q \in Queries, PublishInsight(q)
      PROVE  TypeOK'
  <2>1. StepsTyped'
    BY <1>11, QueryMoves DEF PublishInsight, QuerySteps
  <2> QED
    BY <1>11, <2>1
       DEF PublishInsight, TypeOK, StepsTyped, data, revs, cache, rw, status,
           lookup, built, needs, locals, bounds, ghosts
<1>12. ASSUME NEW q \in Queries, PublishCalls(q)
      PROVE  TypeOK'
  <2>1. StepsTyped'
    BY <1>12, QueryMoves, ReturnTyped DEF PublishCalls, QuerySteps
  <2>2. progress' \in {"Idle", "Building", "Ready", "Failed"} /\ causes' \in Nat
    BY <1>12 DEF PublishCalls, TypeOK
  <2>3. CASE Return(q)
    BY <1>12, <2>2, <2>3, ReturnTyped
       DEF PublishCalls, TypeOK, StepsTyped, LocalsTyped, data, revs, cache,
           rw, status, lookup, built, needs, locals, bounds, ghosts
  <2>4. CASE ~Return(q)
    <3>1. writers' = [writers EXCEPT ![CG] = {q}]
      BY <1>12, <2>4 DEF PublishCalls
    <3>2. writers' \in [GraphLocks -> SUBSET Queries]
      BY <3>1 DEF TypeOK
    <3> QED
      BY <1>12, <2>1, <2>2, <2>4, <3>1, <3>2
         DEF PublishCalls, TypeOK, StepsTyped, data, revs, cache, rw, status,
             lookup, built, needs, locals, bounds, ghosts
  <2> QED
    BY <2>3, <2>4
<1>13. ASSUME NEW q \in Queries, PublishAll(q)
      PROVE  TypeOK'
  <2>1. StepsTyped'
    BY <1>13, QueryMoves DEF PublishAll, QuerySteps
  <2>2. new' \in [Queries -> CallGraphs]
    BY <1>13 DEF PublishAll, NoCalls, CallGraphs, TypeOK
  <2> QED
    BY <1>13, <2>1, <2>2
       DEF PublishAll, TypeOK, StepsTyped, data, revs, cache, rw, status,
           lookup, built, needs, locals, bounds, ghosts
<1>14. ASSUME NEW q \in Queries, MarkReady(q)
      PROVE  TypeOK'
  <2>1. StepsTyped'
    BY <1>14, QueryMoves DEF MarkReady, QuerySteps
  <2> QED
    BY <1>14, <2>1
       DEF MarkReady, TypeOK, StepsTyped, data, revs, cache, rw, status,
           lookup, built, needs, locals, bounds, ghosts
<1>15. ASSUME NEW q \in Queries, Reread(q)
      PROVE  TypeOK'
  <2>1. StepsTyped'
    BY <1>15, QueryMoves, ReturnTyped DEF Reread, QuerySteps
  <2>2. CASE Return(q)
    BY <1>15, <2>2, ReturnTyped
       DEF Reread, TypeOK, StepsTyped, LocalsTyped, data, revs, cache, rw,
           status, lookup, built, needs, locals, bounds, ghosts
  <2>3. CASE ~Return(q)
    BY <1>15, <2>1, <2>3
       DEF Reread, TypeOK, StepsTyped, data, revs, cache, rw, status, lookup,
           built, needs, locals, bounds, ghosts
  <2> QED
    BY <2>2, <2>3
<1>16. ASSUME NEW q \in Queries, DropGuard(q)
      PROVE  TypeOK'
  <2>1. StepsTyped'
    BY <1>16, QueryMoves, ReturnTyped DEF DropGuard, QuerySteps
  <2>2. CASE Return(q)
    BY <1>16, <2>2, ReturnTyped
       DEF DropGuard, TypeOK, StepsTyped, LocalsTyped, data, revs, cache, rw,
           status, lookup, built, needs, locals, bounds, ghosts
  <2>3. CASE ~Return(q)
    BY <1>16, <2>1, <2>3
       DEF DropGuard, TypeOK, StepsTyped, data, revs, cache, rw, status,
           lookup, built, needs, locals, bounds, ghosts
  <2> QED
    BY <2>2, <2>3
<1>17. ASSUME NEW q \in Queries, FillLock(q)
      PROVE  TypeOK'
  <2>1. StepsTyped'
    BY <1>17, QueryMoves, ReturnTyped DEF FillLock, QuerySteps
  <2>2. CASE Return(q)
    BY <1>17, <2>2, ReturnTyped
       DEF FillLock, TypeOK, StepsTyped, LocalsTyped, data, revs, cache, rw,
           status, lookup, built, needs, locals, bounds, ghosts
  <2>3. CASE ~Return(q)
    BY <1>17, <2>1, <2>3
       DEF FillLock, TypeOK, StepsTyped, data, revs, cache, rw, status, lookup,
           built, needs, locals, bounds, ghosts
  <2> QED
    BY <2>2, <2>3
<1>18. ASSUME NEW q \in Queries, FillInsight(q)
      PROVE  TypeOK'
  <2>1. StepsTyped'
    BY <1>18, QueryMoves, ReturnTyped DEF FillInsight, QuerySteps
  <2>2. CASE Return(q)
    BY <1>18, <2>2, ReturnTyped
       DEF FillInsight, TypeOK, StepsTyped, LocalsTyped, data, revs, cache, rw,
           status, lookup, built, needs, locals, bounds, ghosts
  <2>3. CASE ~Return(q)
    <3>1. ins' = [ins EXCEPT ![q] = ig]
      BY <1>18, <2>3 DEF FillInsight
    <3>2. ins' \in [Queries -> Insights]
      BY <3>1 DEF TypeOK
    <3> QED
      BY <1>18, <2>1, <2>3, <3>1, <3>2
         DEF FillInsight, TypeOK, StepsTyped, data, revs, cache, rw, status,
             lookup, built, needs, locals, bounds, ghosts
  <2> QED
    BY <2>2, <2>3
<1>19. ASSUME NEW q \in Queries, FillCalls(q)
      PROVE  TypeOK'
  <2>1. StepsTyped'
    BY <1>19, QueryMoves, ReturnTyped DEF FillCalls, QuerySteps
  <2>2. CASE Return(q)
    BY <1>19, <2>2, ReturnTyped
       DEF FillCalls, TypeOK, StepsTyped, LocalsTyped, data, revs, cache, rw,
           status, lookup, built, needs, locals, bounds, ghosts
  <2>3. CASE ~Return(q)
    <3>1. writers' = [writers EXCEPT ![CG] = {q}]
      BY <1>19, <2>3 DEF FillCalls
    <3>2. writers' \in [GraphLocks -> SUBSET Queries]
      BY <3>1 DEF TypeOK
    <3> QED
      BY <1>19, <2>1, <2>3, <3>1, <3>2
         DEF FillCalls, TypeOK, StepsTyped, data, revs, cache, rw, status,
             lookup, built, needs, locals, bounds, ghosts
  <2> QED
    BY <2>2, <2>3
<1>20. ASSUME NEW q \in Queries, Fill(q)
      PROVE  TypeOK'
  <2>1. cg' \in CallGraphs
    BY <1>20 DEF Fill, Insights, CallGraphs, TypeOK
  <2> QED
    BY <1>20, <2>1, ReturnTyped
       DEF Fill, TypeOK, StepsTyped, LocalsTyped, data, revs, cache, rw,
           status, lookup, built, needs, locals, bounds, ghosts
<1>21. ASSUME NEW q \in Queries, NEW m \in {"query", "complete"},
             Begin(q, m)
      PROVE  TypeOK'
  <2>1. StepsTyped'
    BY <1>21, QueryMoves DEF Begin, QuerySteps
  <2>2. mode' \in [Queries -> {"query", "complete"}]
    BY <1>21 DEF Begin, TypeOK
  <2>3. /\ need' \in [Queries -> Nat] /\ needTopo' \in [Queries -> Nat]
        /\ needPkgs' \in [Queries -> Nat]
    BY <1>21 DEF Begin, TypeOK
  <2>4. requests' \in Nat /\ UNCHANGED <<lookup, built, edits, failures>>
    BY <1>21 DEF Begin, TypeOK
  <2> QED
    BY <1>21, <2>1, <2>2, <2>3, <2>4
       DEF Begin, TypeOK, StepsTyped, data, revs, cache, rw, status, lookup,
           built, needs, locals, bounds, ghosts
<1>22. ASSUME NEW q \in Queries, NEW panic \in BOOLEAN,
             BuildFails(q, panic)
      PROVE  TypeOK'
  <2>1. poisoned' \in SUBSET {BL, CG, DS}
    BY <1>22 DEF BuildFails, TypeOK
  <2>2. failures' \in Nat /\ causes' \in Nat
    BY <1>22 DEF BuildFails, TypeOK
  <2> QED
    BY <1>22, <2>1, <2>2, ReturnTyped
       DEF BuildFails, TypeOK, StepsTyped, LocalsTyped, data, revs, cache, rw,
           status, lookup, built, needs, locals, bounds, ghosts
<1>23. ASSUME NEW q \in Queries, NEW panic \in BOOLEAN,
             FillFails(q, panic)
      PROVE  TypeOK'
  <2>1. poisoned' \in SUBSET {BL, CG, DS}
    BY <1>23 DEF FillFails, TypeOK
  <2>2. failures' \in Nat
    BY <1>23 DEF FillFails, TypeOK
  <2> QED
    BY <1>23, <2>1, <2>2, ReturnTyped
       DEF FillFails, TypeOK, StepsTyped, LocalsTyped, data, revs, cache, rw,
           status, lookup, built, needs, locals, bounds, ghosts
<1>40. ASSUME NEW q \in Queries, NEW panic \in BOOLEAN,
             SourcesFail(q, panic)
      PROVE  TypeOK'
  <2>1. poisoned' \in SUBSET {BL, CG, DS}
    BY <1>40 DEF SourcesFail, TypeOK
  <2>2. failures' \in Nat
    BY <1>40 DEF SourcesFail, TypeOK
  <2> QED
    BY <1>40, <2>1, <2>2, ReturnTyped
       DEF SourcesFail, TypeOK, StepsTyped, LocalsTyped, data, revs, cache, rw,
           status, lookup, built, needs, locals, bounds, ghosts
<1>24. ASSUME NEW e \in Editors, BumpRevisions(e)
      PROVE  TypeOK'
  <2>1. StepsTyped'
    BY <1>24, EditorMoves DEF BumpRevisions, MaxOf, EditSteps
  <2>2. ackAt' \in [0..callRev' -> Nat]
    BY <1>24 DEF BumpRevisions, MaxOf, TypeOK
  <2> QED
    BY <1>24, <2>1, <2>2
       DEF BumpRevisions, MaxOf, TypeOK, StepsTyped, data, revs, cache, rw,
           status, lookup, built, needs, locals, bounds, ghosts
<1>25. ASSUME NEW e \in Editors, ResetInsight(e)
      PROVE  TypeOK'
  <2>1. StepsTyped'
    BY <1>25, EditorMoves DEF ResetInsight, EditSteps
  <2>2. ig' \in Insights
    BY <1>25 DEF ResetInsight, NoInsight, Insights
  <2> QED
    BY <1>25, <2>1, <2>2
       DEF ResetInsight, TypeOK, StepsTyped, data, revs, cache, rw, status,
           lookup, built, needs, locals, bounds, ghosts
<1>26. ASSUME NEW e \in Editors, ResetCalls(e)
      PROVE  TypeOK'
  <2>1. StepsTyped'
    BY <1>26, EditorMoves DEF ResetCalls, EditSteps
  <2>2. cg' \in CallGraphs
    BY <1>26 DEF ResetCalls, NoCalls, CallGraphs
  <2> QED
    BY <1>26, <2>1, <2>2
       DEF ResetCalls, TypeOK, StepsTyped, data, revs, cache, rw, status,
           lookup, built, needs, locals, bounds, ghosts
<1>27. ASSUME NEW e \in Editors, ResetCallsRev(e)
      PROVE  TypeOK'
  <2>1. StepsTyped'
    BY <1>27, EditorMoves DEF ResetCallsRev, EditSteps
  <2> QED
    BY <1>27, <2>1
       DEF ResetCallsRev, TypeOK, StepsTyped, data, revs, cache, rw, status,
           lookup, built, needs, locals, bounds, ghosts
<1>28. ASSUME NEW e \in Editors, ResetFingerprint(e)
      PROVE  TypeOK'
  <2>1. StepsTyped'
    BY <1>28, EditorMoves DEF ResetFingerprint, NewEdit, EditSteps
  <2>2. edit' \in [Editors -> [version : Nat, topology : BOOLEAN]]
    BY <1>28 DEF ResetFingerprint, NewEdit, TypeOK
  <2> QED
    BY <1>28, <2>1, <2>2
       DEF ResetFingerprint, TypeOK, StepsTyped, data, revs, cache, rw, status,
           lookup, built, needs, locals, bounds, ghosts
<1>29. ASSUME NEW e \in Editors, EditBody(e)
      PROVE  TypeOK'
  <2>1. StepsTyped'
    BY <1>29, EditorMoves DEF EditBody, EditSteps
  <2>2. edit' \in [Editors -> [version : Nat, topology : BOOLEAN]]
    BY <1>29 DEF EditBody, TypeOK
  <2> QED
    BY <1>29, <2>1, <2>2
       DEF EditBody, TypeOK, StepsTyped, data, revs, cache, rw, status, lookup,
           built, needs, locals, bounds, ghosts
<1>30. ASSUME NEW e \in Editors, EditTopology(e)
      PROVE  TypeOK'
  <2>1. StepsTyped'
    BY <1>30, EditorMoves DEF EditTopology, EditSteps
  <2>2. files' \in Nat /\ topo' \in Nat /\ edits' \in Nat
    BY <1>30 DEF EditTopology, TypeOK
  <2>3. edit' \in [Editors -> [version : Nat, topology : BOOLEAN]]
    BY <1>30 DEF EditTopology, TypeOK
  <2> QED
    BY <1>30, <2>1, <2>2, <2>3
       DEF EditTopology, TypeOK, StepsTyped, data, revs, cache, rw, status,
           lookup, built, needs, locals, bounds, ghosts
<1>31. CASE ReplacePackage
  BY <1>31
     DEF ReplacePackage, TypeOK, data, revs, cache, rw, status, lookup, built,
         needs, locals, bounds, ghosts
<1>32. CASE UNCHANGED vars
  BY <1>32
     DEF vars, TypeOK, data, revs, cache, rw, status, lookup, built, needs,
         locals, bounds, ghosts
<1>33. ASSUME NEW q \in Queries, QueryStep(q) PROVE TypeOK'
  BY <1>33, <1>1, <1>2, <1>3, <1>4, <1>5, <1>6, <1>7, <1>8, <1>9, <1>10, <1>11,
     <1>12, <1>13, <1>14, <1>15, <1>16, <1>17, <1>18, <1>19, <1>20,
     <1>40 DEF QueryStep
<1>34. ASSUME NEW e \in Editors, EditStep(e) PROVE TypeOK'
  BY <1>34, <1>24, <1>25, <1>26, <1>27, <1>28
     DEF EditStep
<1> QED
  BY <1>21, <1>22, <1>23, <1>40, <1>29, <1>30, <1>31, <1>32, <1>33, <1>34
     DEF Next

\* A thread that returns no longer holds a lock.
LEMMA LocksAfterReturn ==
  ASSUME TypeOK, LocksMatchSteps, NEW q \in Queries, Return(q)
  PROVE  LocksMatchSteps'
<1>1. Moved(q, {"idle"})
  BY ReturnTyped
<1>2. /\ buildLock' = buildLock \ {q} /\ readers' = readers \ {q}
      /\ writers'[CG] = writers[CG] \ {q}
  BY DEF Return, GraphLocks
<1> QED
  BY <1>1, <1>2 DEF Moved, LocksMatchSteps, BuildSteps, FillSteps

\* Who holds which lock follows the steps of the threads.
LEMMA LocksStep ==
  TypeOK /\ LocksMatchSteps /\ [Next]_vars => LocksMatchSteps'
<1> SUFFICES ASSUME TypeOK, LocksMatchSteps, [Next]_vars
             PROVE  LocksMatchSteps'
  OBVIOUS
<1>1. ASSUME NEW q \in Queries, ReadFingerprint(q)
      PROVE  LocksMatchSteps'
  <2>1. Moved(q, {"sources"})
    BY <1>1, QueryMoves DEF ReadFingerprint, Moved
  <2>2. /\ pc[q] = "fingerprint"
        /\ UNCHANGED <<buildLock, readers, writers>>
    BY <1>1 DEF ReadFingerprint, rw
  <2> QED
    BY <2>1, <2>2 DEF Moved, LocksMatchSteps, BuildSteps, FillSteps
<1>2. ASSUME NEW q \in Queries, LoadSources(q)
      PROVE  LocksMatchSteps'
  <2>1. Moved(q, {"revision"})
    BY <1>2, QueryMoves DEF LoadSources, Moved
  <2>2. /\ pc[q] = "sources"
        /\ UNCHANGED <<buildLock, readers, writers>>
    BY <1>2 DEF LoadSources, rw
  <2> QED
    BY <2>1, <2>2 DEF Moved, LocksMatchSteps, BuildSteps, FillSteps
<1>3. ASSUME NEW q \in Queries, ReadRevision(q)
      PROVE  LocksMatchSteps'
  <2>1. Moved(q, {"insight"})
    BY <1>3, QueryMoves DEF ReadRevision, Moved
  <2>2. /\ pc[q] = "revision"
        /\ UNCHANGED <<buildLock, readers, writers>>
    BY <1>3 DEF ReadRevision, rw
  <2> QED
    BY <2>1, <2>2 DEF Moved, LocksMatchSteps, BuildSteps, FillSteps
<1>4. ASSUME NEW q \in Queries, CloneInsight(q)
      PROVE  LocksMatchSteps'
  <2>1. Moved(q, {"calls"})
    BY <1>4, QueryMoves DEF CloneInsight, Moved
  <2>2. /\ pc[q] = "insight"
        /\ UNCHANGED <<buildLock, readers, writers>>
    BY <1>4 DEF CloneInsight, rw
  <2> QED
    BY <2>1, <2>2 DEF Moved, LocksMatchSteps, BuildSteps, FillSteps
<1>5. ASSUME NEW q \in Queries, LockCalls(q)
      PROVE  LocksMatchSteps'
  <2>1. CASE Return(q)
    BY <1>5, <2>1, LocksAfterReturn DEF LockCalls
  <2>2. CASE ~Return(q)
    <3>1. Moved(q, {"check"})
      BY <1>5, <2>2, QueryMoves DEF LockCalls, Moved
    <3>2. /\ pc[q] = "calls"
          /\ writers[CG] = {} /\ readers' = readers \cup {q}
          /\ UNCHANGED <<buildLock, writers>>
      BY <1>5, <2>2 DEF LockCalls, CanRead, rw
    <3> QED
      BY <3>1, <3>2 DEF Moved, LocksMatchSteps, BuildSteps, FillSteps
  <2> QED
    BY <2>1, <2>2
<1>6. ASSUME NEW q \in Queries, Check(q)
      PROVE  LocksMatchSteps'
  <2>1. CASE IsHit(q)
    <3>1. Moved(q, {"held"})
      BY <1>6, <2>1, QueryMoves DEF Check, Moved
    <3> QED
      BY <1>6, <2>1, <3>1
         DEF Check, Moved, LocksMatchSteps, BuildSteps, FillSteps
  <2>2. CASE ~IsHit(q)
    <3>1. Moved(q, {IF q \in buildLock THEN "tag" ELSE "lock"})
      BY <1>6, <2>2, QueryMoves DEF Check
    <3>2. readers' = readers \ {q} /\ UNCHANGED <<buildLock, writers>>
      BY <1>6, <2>2 DEF Check
    <3> QED
      BY <1>6, <3>1, <3>2
         DEF Check, Moved, LocksMatchSteps, BuildSteps, FillSteps
  <2> QED
    BY <2>1, <2>2
<1>7. ASSUME NEW q \in Queries, AcquireBuildLock(q)
      PROVE  LocksMatchSteps'
  <2>1. CASE Return(q)
    BY <1>7, <2>1, LocksAfterReturn DEF AcquireBuildLock
  <2>2. CASE ~Return(q)
    <3>1. Moved(q, {"fingerprint"})
      BY <1>7, <2>2, QueryMoves DEF AcquireBuildLock, AfterBuildLock, Moved
    <3>2. /\ pc[q] = "lock"
          /\ buildLock = {} /\ buildLock' = {q}
          /\ UNCHANGED <<readers, writers>>
      BY <1>7, <2>2 DEF AcquireBuildLock, rw
    <3> QED
      BY <3>1, <3>2 DEF Moved, LocksMatchSteps, BuildSteps, FillSteps
  <2> QED
    BY <2>1, <2>2
<1>8. ASSUME NEW q \in Queries, TagBuild(q)
      PROVE  LocksMatchSteps'
  <2>1. Moved(q, {"nodes"})
    BY <1>8, QueryMoves DEF TagBuild, Moved
  <2>2. /\ pc[q] = "tag"
        /\ UNCHANGED <<buildLock, readers, writers>>
    BY <1>8 DEF TagBuild, rw
  <2> QED
    BY <2>1, <2>2 DEF Moved, LocksMatchSteps, BuildSteps, FillSteps
<1>9. ASSUME NEW q \in Queries, BuildNodes(q)
      PROVE  LocksMatchSteps'
  <2>1. Moved(q, {"edges"})
    BY <1>9, QueryMoves DEF BuildNodes, Moved
  <2>2. /\ pc[q] = "nodes"
        /\ UNCHANGED <<buildLock, readers, writers>>
    BY <1>9 DEF BuildNodes, rw
  <2> QED
    BY <2>1, <2>2 DEF Moved, LocksMatchSteps, BuildSteps, FillSteps
<1>10. ASSUME NEW q \in Queries, BuildEdges(q)
      PROVE  LocksMatchSteps'
  <2>1. Moved(q, {"publish_insight"})
    BY <1>10, QueryMoves DEF BuildEdges, Moved
  <2>2. /\ pc[q] = "edges"
        /\ UNCHANGED <<buildLock, readers, writers>>
    BY <1>10 DEF BuildEdges, rw
  <2> QED
    BY <2>1, <2>2 DEF Moved, LocksMatchSteps, BuildSteps, FillSteps
<1>11. ASSUME NEW q \in Queries, PublishInsight(q)
      PROVE  LocksMatchSteps'
  <2>1. Moved(q, {"publish_calls"})
    BY <1>11, QueryMoves DEF PublishInsight, Moved
  <2>2. /\ pc[q] = "publish_insight"
        /\ writers'[CG] = writers[CG]
        /\ UNCHANGED <<buildLock, readers>>
    BY <1>11 DEF PublishInsight, TypeOK, GraphLocks, IG, CG, rw
  <2> QED
    BY <2>1, <2>2 DEF Moved, LocksMatchSteps, BuildSteps, FillSteps
<1>12. ASSUME NEW q \in Queries, PublishCalls(q)
      PROVE  LocksMatchSteps'
  <2>1. CASE Return(q)
    BY <1>12, <2>1, LocksAfterReturn DEF PublishCalls
  <2>2. CASE ~Return(q)
    <3>1. Moved(q, {"publish_all"})
      BY <1>12, <2>2, QueryMoves DEF PublishCalls, Moved
    <3>2. /\ pc[q] = "publish_calls"
          /\ writers[CG] = {} /\ readers = {} /\ writers'[CG] = {q}
          /\ UNCHANGED <<buildLock, readers>>
      BY <1>12, <2>2 DEF PublishCalls, CanWrite, TypeOK, GraphLocks, rw
    <3> QED
      BY <3>1, <3>2 DEF Moved, LocksMatchSteps, BuildSteps, FillSteps
  <2> QED
    BY <2>1, <2>2
<1>13. ASSUME NEW q \in Queries, PublishAll(q)
      PROVE  LocksMatchSteps'
  <2>1. Moved(q, {"mark"})
    BY <1>13, QueryMoves DEF PublishAll, Moved
  <2>2. \A p \in Queries : pc[p] \in {"publish_all", "fill"} => p = q
    BY <1>13 DEF PublishAll, LocksMatchSteps, BuildSteps, FillSteps
  <2>3. writers'[CG] = {} /\ UNCHANGED <<buildLock, readers>>
    BY <1>13 DEF PublishAll, GraphLocks
  <2> QED
    BY <1>13, <2>1, <2>2, <2>3
       DEF PublishAll, Moved, LocksMatchSteps, BuildSteps, FillSteps
<1>14. ASSUME NEW q \in Queries, MarkReady(q)
      PROVE  LocksMatchSteps'
  <2>1. Moved(q, {"reread"})
    BY <1>14, QueryMoves DEF MarkReady, Moved
  <2>2. /\ pc[q] = "mark"
        /\ UNCHANGED <<buildLock, readers, writers>>
    BY <1>14 DEF MarkReady, rw
  <2> QED
    BY <2>1, <2>2 DEF Moved, LocksMatchSteps, BuildSteps, FillSteps
<1>15. ASSUME NEW q \in Queries, Reread(q)
      PROVE  LocksMatchSteps'
  <2>1. CASE Return(q)
    BY <1>15, <2>1, LocksAfterReturn DEF Reread
  <2>2. CASE ~Return(q)
    <3>1. Moved(q, {"held"})
      BY <1>15, <2>2, QueryMoves DEF Reread, Moved
    <3>2. /\ pc[q] = "reread"
          /\ writers[CG] = {} /\ readers' = readers \cup {q}
          /\ buildLock' = buildLock \ {q}
          /\ UNCHANGED writers
      BY <1>15, <2>2 DEF Reread, CanRead, rw
    <3> QED
      BY <3>1, <3>2 DEF Moved, LocksMatchSteps, BuildSteps, FillSteps
  <2> QED
    BY <2>1, <2>2
<1>16. ASSUME NEW q \in Queries, DropGuard(q)
      PROVE  LocksMatchSteps'
  <2>1. CASE Return(q)
    BY <1>16, <2>1, LocksAfterReturn DEF DropGuard
  <2>2. CASE ~Return(q)
    <3>1. Moved(q, {"relock"})
      BY <1>16, <2>2, QueryMoves DEF DropGuard, Moved
    <3>2. /\ pc[q] = "held"
          /\ readers' = readers \ {q}
          /\ UNCHANGED <<buildLock, writers>>
      BY <1>16, <2>2 DEF DropGuard, rw
    <3> QED
      BY <3>1, <3>2 DEF Moved, LocksMatchSteps, BuildSteps, FillSteps
  <2> QED
    BY <2>1, <2>2
<1>17. ASSUME NEW q \in Queries, FillLock(q)
      PROVE  LocksMatchSteps'
  <2>1. CASE Return(q)
    BY <1>17, <2>1, LocksAfterReturn DEF FillLock
  <2>2. CASE ~Return(q)
    <3>1. Moved(q, {"fill_insight"})
      BY <1>17, <2>2, QueryMoves DEF FillLock, Moved
    <3>2. /\ pc[q] = "relock"
          /\ buildLock = {} /\ buildLock' = {q}
          /\ UNCHANGED <<readers, writers>>
      BY <1>17, <2>2 DEF FillLock, rw
    <3> QED
      BY <3>1, <3>2 DEF Moved, LocksMatchSteps, BuildSteps, FillSteps
  <2> QED
    BY <2>1, <2>2
<1>18. ASSUME NEW q \in Queries, FillInsight(q)
      PROVE  LocksMatchSteps'
  <2>1. CASE Return(q)
    BY <1>18, <2>1, LocksAfterReturn DEF FillInsight
  <2>2. CASE ~Return(q)
    <3>1. Moved(q, {"fill_calls"})
      BY <1>18, <2>2, QueryMoves DEF FillInsight, Moved
    <3>2. /\ pc[q] = "fill_insight"
          /\ UNCHANGED <<buildLock, readers, writers>>
      BY <1>18, <2>2 DEF FillInsight, rw
    <3> QED
      BY <3>1, <3>2 DEF Moved, LocksMatchSteps, BuildSteps, FillSteps
  <2> QED
    BY <2>1, <2>2
<1>19. ASSUME NEW q \in Queries, FillCalls(q)
      PROVE  LocksMatchSteps'
  <2>1. CASE Return(q)
    BY <1>19, <2>1, LocksAfterReturn DEF FillCalls
  <2>2. CASE ~Return(q)
    <3>1. Moved(q, {"fill"})
      BY <1>19, <2>2, QueryMoves DEF FillCalls, Moved
    <3>2. /\ pc[q] = "fill_calls"
          /\ writers[CG] = {} /\ readers = {} /\ writers'[CG] = {q}
          /\ UNCHANGED <<buildLock, readers>>
      BY <1>19, <2>2 DEF FillCalls, CanWrite, TypeOK, GraphLocks, rw
    <3> QED
      BY <3>1, <3>2 DEF Moved, LocksMatchSteps, BuildSteps, FillSteps
  <2> QED
    BY <2>1, <2>2
<1>20. ASSUME NEW q \in Queries, Fill(q)
      PROVE  LocksMatchSteps'
  BY <1>20, LocksAfterReturn DEF Fill
<1>21. ASSUME NEW q \in Queries, NEW m \in {"query", "complete"},
             Begin(q, m)
      PROVE  LocksMatchSteps'
  <2>1. Moved(q, {"fingerprint"})
    BY <1>21, QueryMoves DEF Begin, Moved
  <2>2. /\ pc[q] = "idle"
        /\ UNCHANGED <<buildLock, readers, writers>>
    BY <1>21 DEF Begin, rw
  <2> QED
    BY <2>1, <2>2 DEF Moved, LocksMatchSteps, BuildSteps, FillSteps
<1>22. ASSUME NEW q \in Queries, NEW panic \in BOOLEAN,
             BuildFails(q, panic)
      PROVE  LocksMatchSteps'
  BY <1>22, LocksAfterReturn DEF BuildFails
<1>23. ASSUME NEW q \in Queries, NEW panic \in BOOLEAN,
             FillFails(q, panic)
      PROVE  LocksMatchSteps'
  BY <1>23, LocksAfterReturn DEF FillFails
<1>40. ASSUME NEW q \in Queries, NEW panic \in BOOLEAN,
             SourcesFail(q, panic)
      PROVE  LocksMatchSteps'
  BY <1>40, LocksAfterReturn DEF SourcesFail
<1>24. ASSUME NEW e \in Editors, BumpRevisions(e)
      PROVE  LocksMatchSteps'
  <2>1. \A p \in Queries : pc'[p] = pc[p]
    BY <1>24, EditorMoves, ThreadsAssumption DEF BumpRevisions, Moved
  <2> QED
    BY <1>24, <2>1 DEF BumpRevisions, MaxOf, LocksMatchSteps, rw
<1>25. ASSUME NEW e \in Editors, ResetInsight(e)
      PROVE  LocksMatchSteps'
  <2>1. \A p \in Queries : pc'[p] = pc[p]
    BY <1>25, EditorMoves, ThreadsAssumption DEF ResetInsight, Moved
  <2> QED
    BY <1>25, <2>1 DEF ResetInsight, LocksMatchSteps, rw
<1>26. ASSUME NEW e \in Editors, ResetCalls(e)
      PROVE  LocksMatchSteps'
  <2>1. \A p \in Queries : pc'[p] = pc[p]
    BY <1>26, EditorMoves, ThreadsAssumption DEF ResetCalls, Moved
  <2> QED
    BY <1>26, <2>1 DEF ResetCalls, LocksMatchSteps, rw
<1>27. ASSUME NEW e \in Editors, ResetCallsRev(e)
      PROVE  LocksMatchSteps'
  <2>1. \A p \in Queries : pc'[p] = pc[p]
    BY <1>27, EditorMoves, ThreadsAssumption DEF ResetCallsRev, Moved
  <2> QED
    BY <1>27, <2>1 DEF ResetCallsRev, LocksMatchSteps, rw
<1>28. ASSUME NEW e \in Editors, ResetFingerprint(e)
      PROVE  LocksMatchSteps'
  <2>1. \A p \in Queries : pc'[p] = pc[p]
    BY <1>28, EditorMoves, ThreadsAssumption DEF ResetFingerprint, Moved
  <2> QED
    BY <1>28, <2>1 DEF ResetFingerprint, NewEdit, LocksMatchSteps, rw
<1>29. ASSUME NEW e \in Editors, EditBody(e)
      PROVE  LocksMatchSteps'
  <2>1. \A p \in Queries : pc'[p] = pc[p]
    BY <1>29, EditorMoves, ThreadsAssumption DEF EditBody, Moved
  <2> QED
    BY <1>29, <2>1 DEF EditBody, LocksMatchSteps, rw
<1>30. ASSUME NEW e \in Editors, EditTopology(e)
      PROVE  LocksMatchSteps'
  <2>1. \A p \in Queries : pc'[p] = pc[p]
    BY <1>30, EditorMoves, ThreadsAssumption DEF EditTopology, Moved
  <2> QED
    BY <1>30, <2>1 DEF EditTopology, LocksMatchSteps, rw
<1>31. CASE ReplacePackage
  BY <1>31 DEF ReplacePackage, LocksMatchSteps, rw
<1>32. CASE UNCHANGED vars
  BY <1>32 DEF vars, LocksMatchSteps, rw
<1>33. ASSUME NEW q \in Queries, QueryStep(q) PROVE LocksMatchSteps'
  BY <1>33, <1>1, <1>2, <1>3, <1>4, <1>5, <1>6, <1>7, <1>8, <1>9, <1>10, <1>11,
     <1>12, <1>13, <1>14, <1>15, <1>16, <1>17, <1>18, <1>19, <1>20,
     <1>40 DEF QueryStep
<1>34. ASSUME NEW e \in Editors, EditStep(e) PROVE LocksMatchSteps'
  BY <1>34, <1>24, <1>25, <1>26, <1>27, <1>28
     DEF EditStep
<1> QED
  BY <1>21, <1>22, <1>23, <1>40, <1>29, <1>30, <1>31, <1>32, <1>33, <1>34
     DEF Next

\* What the steps know about versions, fingerprints and revisions.
OrderInv == VersionsInOrder /\ SourcesInOrder /\ RevisionsCoverNeeds

\* The locals OrderInv mentions, of every thread but q.
LookupKept(q) ==
    \A p \in Queries \ {q} :
        /\ fp'[p] = fp[p] /\ dep'[p] = dep[p] /\ rev'[p] = rev[p]
        /\ ins'[p] = ins[p] /\ tagC'[p] = tagC[p] /\ new'[p] = new[p]
        /\ need'[p] = need[p] /\ needPkgs'[p] = needPkgs[p]

\* Nothing is asked of the locals of a returned request.
LEMMA OrderAfterReturn ==
  ASSUME TypeOK, OrderInv, NEW q \in Queries, Return(q),
         UNCHANGED <<files, pkgs, callRev, ackAt, edit, depCache>>
  PROVE  OrderInv'
<1>1. Moved(q, {"idle"})
  BY ReturnTyped
<1>2. VersionsInOrder'
  BY DEF Return, Forget, OrderInv, VersionsInOrder, TypeOK
<1>3. LookupKept(q)
  BY DEF Return, Forget, LookupKept, TypeOK
<1>4. SourcesInOrder'
  BY <1>1, <1>3 DEF OrderInv, SourcesInOrder, Moved, LookupKept
<1>5. RevisionsCoverNeeds'
  BY <1>1, <1>3 DEF OrderInv, RevisionsCoverNeeds, Moved, LookupKept, BuildSteps
<1> QED
  BY <1>2, <1>4, <1>5 DEF OrderInv

\* A thread that keeps its request, its sources and its need, and goes to a
\* step where neither its revision nor its build matters.
LEMMA OrderFrame ==
  ASSUME OrderInv, NEW q \in Queries, NEW S, Moved(q, S), LookupKept(q),
         S \subseteq {"tag", "lock", "held", "relock"} \cup FillSteps,
         pc[q] \notin {"idle", "fingerprint", "sources"},
         UNCHANGED <<files, pkgs, callRev, ackAt, edit, depCache>>,
         UNCHANGED <<need, needPkgs, fp, dep>>
  PROVE  OrderInv'
<1>1. pc'[q] \in {"tag", "lock", "held", "relock"} \cup FillSteps
  BY DEF Moved
<1>2. VersionsInOrder'
  BY DEF OrderInv, VersionsInOrder
<1>3. SourcesInOrder'
  BY DEF OrderInv, SourcesInOrder, Moved
<1>4. RevisionsCoverNeeds'
  BY <1>1
     DEF OrderInv, RevisionsCoverNeeds, Moved, LookupKept, BuildSteps, FillSteps
<1> QED
  BY <1>2, <1>3, <1>4 DEF OrderInv

\* An editor that changes neither the indexes nor the revisions.
LEMMA OrderEditFrame ==
  ASSUME OrderInv, \A p \in Queries : pc'[p] = pc[p],
         UNCHANGED <<files, pkgs, callRev, ackAt, depCache, locals>>,
         \A e \in Editors : edit'[e].version <= files
  PROVE  OrderInv'
<1>1. UNCHANGED <<fp, dep, rev, ins, tagC, new, need, needPkgs>>
  BY DEF locals, lookup, built, needs
<1>2. VersionsInOrder'
  BY <1>1 DEF OrderInv, VersionsInOrder
<1>3. SourcesInOrder'
  BY <1>1 DEF OrderInv, SourcesInOrder
<1>4. RevisionsCoverNeeds'
  BY <1>1 DEF OrderInv, RevisionsCoverNeeds
<1> QED
  BY <1>2, <1>3, <1>4 DEF OrderInv

\* A revision or fingerprint is read before the data it stands for, so what it
\* covers can only grow.
LEMMA OrderStep == TypeOK /\ OrderInv /\ [Next]_vars => OrderInv'
<1> SUFFICES ASSUME TypeOK, OrderInv, [Next]_vars PROVE OrderInv'
  OBVIOUS
<1>1. ASSUME NEW q \in Queries, ReadFingerprint(q)
      PROVE  OrderInv'
  <2>1. Moved(q, {"sources"})
    BY <1>1, QueryMoves DEF ReadFingerprint, Moved
  <2>2. VersionsInOrder'
    BY <1>1, <2>1
       DEF ReadFingerprint, VersionsInOrder, OrderInv, TypeOK, data, revs,
           needs, locals, ghosts
  <2>3. SourcesInOrder'
    <3>1. /\ fp'[q] = pkgs /\ \A p \in Queries \ {q} : fp'[p] = fp[p]
          /\ UNCHANGED <<pkgs, dep, depCache, needPkgs>>
      BY <1>1 DEF ReadFingerprint, TypeOK, data, needs
    <3>2. pkgs \in Nat /\ needPkgs[q] <= pkgs
      BY DEF OrderInv, VersionsInOrder, TypeOK
    <3> QED
      BY <2>1, <3>1, <3>2 DEF OrderInv, SourcesInOrder, Moved
  <2>4. RevisionsCoverNeeds'
    BY <1>1, <2>1
       DEF ReadFingerprint, RevisionsCoverNeeds, VersionsInOrder, OrderInv,
           TypeOK, Moved, BuildSteps, revs, lookup, built, needs, locals,
           ghosts
  <2> QED
    BY <2>2, <2>3, <2>4 DEF OrderInv
<1>2. ASSUME NEW q \in Queries, LoadSources(q)
      PROVE  OrderInv'
  <2>1. Moved(q, {"revision"})
    BY <1>2, QueryMoves DEF LoadSources, Moved
  <2>2. VersionsInOrder'
    BY <1>2, <2>1
       DEF LoadSources, VersionsInOrder, OrderInv, TypeOK, data, revs, needs,
           locals, ghosts
  <2>3. SourcesInOrder'
    <3>1. /\ dep'[q] = depCache'.content
          /\ \A p \in Queries \ {q} : dep'[p] = dep[p]
          /\ UNCHANGED <<pkgs, fp, needPkgs>>
      BY <1>2 DEF LoadSources, TypeOK, data, needs
    <3>2. /\ needPkgs[q] <= fp[q] /\ fp[q] <= pkgs
          /\ fp[q] \in Nat /\ depCache.content \in Nat /\ pkgs \in Nat
      BY <1>2 DEF LoadSources, OrderInv, SourcesInOrder, TypeOK
    <3>3. CASE depCache.fp = fp[q]
      <4>1. depCache' = depCache /\ fp[q] <= depCache.content
        BY <1>2, <3>2, <3>3
           DEF LoadSources, OrderInv, SourcesInOrder, Nothing
      <4> QED
        BY <2>1, <3>1, <3>2, <4>1 DEF OrderInv, SourcesInOrder, Moved
    <3>4. CASE depCache.fp # fp[q]
      <4>1. depCache'.fp = fp[q] /\ depCache'.content = pkgs
        BY <1>2, <3>4 DEF LoadSources
      <4> QED
        BY <2>1, <3>1, <3>2, <4>1 DEF OrderInv, SourcesInOrder, Moved
    <3> QED
      BY <3>3, <3>4
  <2>4. RevisionsCoverNeeds'
    BY <1>2, <2>1
       DEF LoadSources, RevisionsCoverNeeds, VersionsInOrder, OrderInv, TypeOK,
           Moved, BuildSteps, revs, lookup, built, needs, locals, ghosts
  <2> QED
    BY <2>2, <2>3, <2>4 DEF OrderInv
<1>3. ASSUME NEW q \in Queries, ReadRevision(q)
      PROVE  OrderInv'
  <2>1. Moved(q, {"insight"})
    BY <1>3, QueryMoves DEF ReadRevision, Moved
  <2>2. VersionsInOrder'
    BY <1>3, <2>1
       DEF ReadRevision, VersionsInOrder, OrderInv, TypeOK, data, revs, needs,
           locals, ghosts
  <2>3. SourcesInOrder'
    BY <1>3, <2>1
       DEF ReadRevision, SourcesInOrder, VersionsInOrder, OrderInv, TypeOK,
           Moved, Nothing, data, lookup, needs, locals
  <2>4. RevisionsCoverNeeds'
    <3>1. /\ rev'[q] = callRev /\ \A p \in Queries \ {q} : rev'[p] = rev[p]
          /\ UNCHANGED <<callRev, ackAt, need, ins, dep, tagC, new>>
      BY <1>3 DEF ReadRevision, TypeOK, revs, built, needs, ghosts
    <3>2. callRev \in Nat /\ need[q] <= ackAt[callRev]
      BY DEF OrderInv, VersionsInOrder, TypeOK
    <3> QED
      BY <2>1, <3>1, <3>2 DEF OrderInv, RevisionsCoverNeeds, Moved, BuildSteps
  <2> QED
    BY <2>2, <2>3, <2>4 DEF OrderInv
<1>4. ASSUME NEW q \in Queries, CloneInsight(q)
      PROVE  OrderInv'
  <2>1. Moved(q, {"calls"})
    BY <1>4, QueryMoves DEF CloneInsight, Moved
  <2> QED
    BY <1>4, <2>1
       DEF CloneInsight, Moved, OrderInv, VersionsInOrder, SourcesInOrder,
           RevisionsCoverNeeds, BuildSteps, Nothing, TypeOK, data, revs,
           lookup, built, needs, locals, ghosts
<1>5. ASSUME NEW q \in Queries, LockCalls(q)
      PROVE  OrderInv'
  <2>1. CASE Return(q)
    BY <1>5, <2>1, OrderAfterReturn DEF LockCalls, data, revs, ghosts
  <2>2. CASE ~Return(q)
    <3>1. Moved(q, {"check"})
      BY <1>5, <2>2, QueryMoves DEF LockCalls, Moved
    <3>2. /\ pc[q] = "calls"
          /\ UNCHANGED <<files, pkgs, callRev, ackAt, edit, depCache>>
          /\ UNCHANGED <<fp, dep, rev, ins, tagC, new, need, needPkgs>>
      BY <1>5, <2>2
         DEF LockCalls, data, revs, ghosts, lookup, built, needs, locals
    <3>3. VersionsInOrder' /\ SourcesInOrder'
      BY <3>1, <3>2 DEF OrderInv, VersionsInOrder, SourcesInOrder, Moved
    <3>4. RevisionsCoverNeeds'
      BY <3>1, <3>2 DEF OrderInv, RevisionsCoverNeeds, Moved, BuildSteps
    <3> QED
      BY <3>3, <3>4 DEF OrderInv
  <2> QED
    BY <2>1, <2>2
<1>6. ASSUME NEW q \in Queries, Check(q)
      PROVE  OrderInv'
  <2>1. Moved(q, {"held", "tag", "lock"})
    BY <1>6, QueryMoves DEF Check, Moved
  <2>2. pc[q] \notin {"idle", "fingerprint", "sources"}
    BY <1>6 DEF Check
  <2>3. /\ LookupKept(q)
        /\ UNCHANGED <<files, pkgs, callRev, ackAt, edit, depCache>>
        /\ UNCHANGED <<need, needPkgs, fp, dep>>
    BY <1>6
       DEF Check, LookupKept, TypeOK, data, revs, ghosts, lookup, built, needs,
           locals
  <2> QED
    BY <2>1, <2>2, <2>3, OrderFrame DEF FillSteps
<1>7. ASSUME NEW q \in Queries, AcquireBuildLock(q)
      PROVE  OrderInv'
  <2>1. CASE Return(q)
    BY <1>7, <2>1, OrderAfterReturn DEF AcquireBuildLock, data, revs, ghosts
  <2>2. CASE ~Return(q)
    <3>1. Moved(q, {"fingerprint"})
      BY <1>7, <2>2, QueryMoves DEF AcquireBuildLock, AfterBuildLock, Moved
    <3>2. /\ pc[q] = "lock"
          /\ UNCHANGED <<files, pkgs, callRev, ackAt, edit, depCache>>
          /\ UNCHANGED <<fp, dep, rev, ins, tagC, new, need, needPkgs>>
      BY <1>7, <2>2
         DEF AcquireBuildLock, data, revs, ghosts, lookup, built, needs, locals
    <3>3. VersionsInOrder' /\ SourcesInOrder'
      BY <3>1, <3>2 DEF OrderInv, VersionsInOrder, SourcesInOrder, Moved
    <3>4. RevisionsCoverNeeds'
      BY <3>1, <3>2 DEF OrderInv, RevisionsCoverNeeds, Moved, BuildSteps
    <3> QED
      BY <3>3, <3>4 DEF OrderInv
  <2> QED
    BY <2>1, <2>2
<1>8. ASSUME NEW q \in Queries, TagBuild(q)
      PROVE  OrderInv'
  <2>1. Moved(q, {"nodes"})
    BY <1>8, QueryMoves DEF TagBuild, Moved
  <2>2. VersionsInOrder'
    BY <1>8, <2>1
       DEF TagBuild, VersionsInOrder, OrderInv, TypeOK, data, revs, needs,
           locals, ghosts
  <2>3. SourcesInOrder'
    BY <1>8, <2>1
       DEF TagBuild, SourcesInOrder, VersionsInOrder, OrderInv, TypeOK, Moved,
           Nothing, data, lookup, needs, locals
  <2>4. RevisionsCoverNeeds'
    <3>1. /\ tagC'[q] = callRev /\ \A p \in Queries \ {q} : tagC'[p] = tagC[p]
          /\ UNCHANGED <<callRev, ackAt, need, rev, ins, dep, new>>
      BY <1>8 DEF TagBuild, TypeOK, revs, lookup, needs, ghosts
    <3>2. callRev \in Nat /\ need[q] <= ackAt[callRev]
      BY DEF OrderInv, VersionsInOrder, TypeOK
    <3> QED
      BY <2>1, <3>1, <3>2 DEF OrderInv, RevisionsCoverNeeds, Moved, BuildSteps
  <2> QED
    BY <2>2, <2>3, <2>4 DEF OrderInv
<1>9. ASSUME NEW q \in Queries, BuildNodes(q)
      PROVE  OrderInv'
  <2>1. Moved(q, {"edges"})
    BY <1>9, QueryMoves DEF BuildNodes, Moved
  <2> QED
    BY <1>9, <2>1
       DEF BuildNodes, Moved, OrderInv, VersionsInOrder, SourcesInOrder,
           RevisionsCoverNeeds, BuildSteps, Nothing, TypeOK, data, revs,
           lookup, built, needs, locals, ghosts
<1>10. ASSUME NEW q \in Queries, BuildEdges(q)
      PROVE  OrderInv'
  <2>1. Moved(q, {"publish_insight"})
    BY <1>10, QueryMoves DEF BuildEdges, Moved
  <2>2. VersionsInOrder'
    BY <1>10, <2>1
       DEF BuildEdges, VersionsInOrder, OrderInv, TypeOK, data, revs, needs,
           locals, ghosts
  <2>3. SourcesInOrder'
    BY <1>10, <2>1
       DEF BuildEdges, SourcesInOrder, VersionsInOrder, OrderInv, TypeOK,
           Moved, Nothing, data, lookup, needs, locals
  <2>4. RevisionsCoverNeeds'
    <3>1. new'[q] = [build |-> ins[q].build, files |-> files, dep |-> dep[q],
                     tag |-> tagC[q], filled |-> 0]
      BY <1>10 DEF BuildEdges, TypeOK
    <3>2. /\ \A p \in Queries \ {q} : new'[p] = new[p]
          /\ UNCHANGED <<callRev, ackAt, need, rev, ins, dep, tagC>>
      BY <1>10 DEF BuildEdges, TypeOK, revs, lookup, needs, ghosts
    <3>3. tagC[q] <= callRev /\ need[q] <= ackAt[tagC[q]]
      BY <1>10 DEF BuildEdges, OrderInv, RevisionsCoverNeeds, BuildSteps
    <3>4. files >= ackAt[tagC[q]]
      <4>1. tagC[q] \in 0..callRev
        BY <3>3 DEF TypeOK
      <4>2. ackAt[tagC[q]] <= ackAt[callRev] /\ ackAt[callRev] <= files
        BY <4>1 DEF OrderInv, VersionsInOrder
      <4>3. ackAt[tagC[q]] \in Nat /\ ackAt[callRev] \in Nat /\ files \in Nat
        BY <4>1 DEF TypeOK
      <4> QED
        BY <4>2, <4>3
    <3> QED
      BY <2>1, <3>1, <3>2, <3>3, <3>4
         DEF OrderInv, RevisionsCoverNeeds, Moved, BuildSteps
  <2> QED
    BY <2>2, <2>3, <2>4 DEF OrderInv
<1>11. ASSUME NEW q \in Queries, PublishInsight(q)
      PROVE  OrderInv'
  <2>1. Moved(q, {"publish_calls"})
    BY <1>11, QueryMoves DEF PublishInsight, Moved
  <2> QED
    BY <1>11, <2>1
       DEF PublishInsight, Moved, OrderInv, VersionsInOrder, SourcesInOrder,
           RevisionsCoverNeeds, BuildSteps, Nothing, TypeOK, data, revs,
           lookup, built, needs, locals, ghosts
<1>12. ASSUME NEW q \in Queries, PublishCalls(q)
      PROVE  OrderInv'
  <2>1. CASE Return(q)
    BY <1>12, <2>1, OrderAfterReturn DEF PublishCalls, data, revs, ghosts
  <2>2. CASE ~Return(q)
    <3>1. Moved(q, {"publish_all"})
      BY <1>12, <2>2, QueryMoves DEF PublishCalls, Moved
    <3> QED
      BY <1>12, <2>2, <3>1
         DEF PublishCalls, Moved, OrderInv, VersionsInOrder, SourcesInOrder,
             RevisionsCoverNeeds, BuildSteps, Nothing, TypeOK, data, revs,
             lookup, built, needs, locals, ghosts
  <2> QED
    BY <2>1, <2>2
<1>13. ASSUME NEW q \in Queries, PublishAll(q)
      PROVE  OrderInv'
  <2>1. Moved(q, {"mark"})
    BY <1>13, QueryMoves DEF PublishAll, Moved
  <2> QED
    BY <1>13, <2>1
       DEF PublishAll, Moved, OrderInv, VersionsInOrder, SourcesInOrder,
           RevisionsCoverNeeds, BuildSteps, Nothing, TypeOK, data, revs,
           lookup, built, needs, locals, ghosts
<1>14. ASSUME NEW q \in Queries, MarkReady(q)
      PROVE  OrderInv'
  <2>1. Moved(q, {"reread"})
    BY <1>14, QueryMoves DEF MarkReady, Moved
  <2> QED
    BY <1>14, <2>1
       DEF MarkReady, Moved, OrderInv, VersionsInOrder, SourcesInOrder,
           RevisionsCoverNeeds, BuildSteps, Nothing, TypeOK, data, revs,
           lookup, built, needs, locals, ghosts
<1>15. ASSUME NEW q \in Queries, Reread(q)
      PROVE  OrderInv'
  <2>1. CASE Return(q)
    BY <1>15, <2>1, OrderAfterReturn DEF Reread, data, revs, ghosts
  <2>2. CASE ~Return(q)
    <3>1. Moved(q, {"held"})
      BY <1>15, <2>2, QueryMoves DEF Reread, Moved
    <3>2. pc[q] \notin {"idle", "fingerprint", "sources"}
      BY <1>15 DEF Reread
    <3>3. /\ LookupKept(q)
          /\ UNCHANGED <<files, pkgs, callRev, ackAt, edit, depCache>>
          /\ UNCHANGED <<need, needPkgs, fp, dep>>
      BY <1>15, <2>2
         DEF Reread, LookupKept, TypeOK, data, revs, ghosts, lookup, built,
             needs, locals
    <3> QED
      BY <3>1, <3>2, <3>3, OrderFrame DEF FillSteps
  <2> QED
    BY <2>1, <2>2
<1>16. ASSUME NEW q \in Queries, DropGuard(q)
      PROVE  OrderInv'
  <2>1. CASE Return(q)
    BY <1>16, <2>1, OrderAfterReturn DEF DropGuard, data, revs, ghosts
  <2>2. CASE ~Return(q)
    <3>1. Moved(q, {"relock"})
      BY <1>16, <2>2, QueryMoves DEF DropGuard, Moved
    <3>2. pc[q] \notin {"idle", "fingerprint", "sources"}
      BY <1>16 DEF DropGuard
    <3>3. /\ LookupKept(q)
          /\ UNCHANGED <<files, pkgs, callRev, ackAt, edit, depCache>>
          /\ UNCHANGED <<need, needPkgs, fp, dep>>
      BY <1>16, <2>2
         DEF DropGuard, LookupKept, TypeOK, data, revs, ghosts, lookup, built,
             needs, locals
    <3> QED
      BY <3>1, <3>2, <3>3, OrderFrame DEF FillSteps
  <2> QED
    BY <2>1, <2>2
<1>17. ASSUME NEW q \in Queries, FillLock(q)
      PROVE  OrderInv'
  <2>1. CASE Return(q)
    BY <1>17, <2>1, OrderAfterReturn DEF FillLock, data, revs, ghosts
  <2>2. CASE ~Return(q)
    <3>1. Moved(q, {"fill_insight"})
      BY <1>17, <2>2, QueryMoves DEF FillLock, Moved
    <3>2. pc[q] \notin {"idle", "fingerprint", "sources"}
      BY <1>17 DEF FillLock
    <3>3. /\ LookupKept(q)
          /\ UNCHANGED <<files, pkgs, callRev, ackAt, edit, depCache>>
          /\ UNCHANGED <<need, needPkgs, fp, dep>>
      BY <1>17, <2>2
         DEF FillLock, LookupKept, TypeOK, data, revs, ghosts, lookup, built,
             needs, locals
    <3> QED
      BY <3>1, <3>2, <3>3, OrderFrame DEF FillSteps
  <2> QED
    BY <2>1, <2>2
<1>18. ASSUME NEW q \in Queries, FillInsight(q)
      PROVE  OrderInv'
  <2>1. CASE Return(q)
    BY <1>18, <2>1, OrderAfterReturn DEF FillInsight, data, revs, ghosts
  <2>2. CASE ~Return(q)
    <3>1. Moved(q, {"fill_calls"})
      BY <1>18, <2>2, QueryMoves DEF FillInsight, Moved
    <3>2. pc[q] \notin {"idle", "fingerprint", "sources"}
      BY <1>18 DEF FillInsight
    <3>3. /\ LookupKept(q)
          /\ UNCHANGED <<files, pkgs, callRev, ackAt, edit, depCache>>
          /\ UNCHANGED <<need, needPkgs, fp, dep>>
      BY <1>18, <2>2
         DEF FillInsight, LookupKept, TypeOK, data, revs, ghosts, lookup,
             built, needs, locals
    <3> QED
      BY <3>1, <3>2, <3>3, OrderFrame DEF FillSteps
  <2> QED
    BY <2>1, <2>2
<1>19. ASSUME NEW q \in Queries, FillCalls(q)
      PROVE  OrderInv'
  <2>1. CASE Return(q)
    BY <1>19, <2>1, OrderAfterReturn DEF FillCalls, data, revs, ghosts
  <2>2. CASE ~Return(q)
    <3>1. Moved(q, {"fill"})
      BY <1>19, <2>2, QueryMoves DEF FillCalls, Moved
    <3>2. pc[q] \notin {"idle", "fingerprint", "sources"}
      BY <1>19 DEF FillCalls
    <3>3. /\ LookupKept(q)
          /\ UNCHANGED <<files, pkgs, callRev, ackAt, edit, depCache>>
          /\ UNCHANGED <<need, needPkgs, fp, dep>>
      BY <1>19, <2>2
         DEF FillCalls, LookupKept, TypeOK, data, revs, ghosts, lookup, built,
             needs, locals
    <3> QED
      BY <3>1, <3>2, <3>3, OrderFrame DEF FillSteps
  <2> QED
    BY <2>1, <2>2
<1>20. ASSUME NEW q \in Queries, Fill(q)
      PROVE  OrderInv'
  BY <1>20, OrderAfterReturn DEF Fill, data, revs, ghosts
<1>21. ASSUME NEW q \in Queries, NEW m \in {"query", "complete"},
             Begin(q, m)
      PROVE  OrderInv'
  <2>1. Moved(q, {"fingerprint"})
    BY <1>21, QueryMoves DEF Begin, Moved
  <2>2. VersionsInOrder'
    BY <1>21, <2>1
       DEF Begin, VersionsInOrder, OrderInv, TypeOK, data, revs, needs, locals,
           ghosts
  <2>3. SourcesInOrder'
    BY <1>21, <2>1
       DEF Begin, SourcesInOrder, VersionsInOrder, OrderInv, TypeOK, Moved,
           Nothing, data, lookup, needs, locals
  <2>4. RevisionsCoverNeeds'
    BY <1>21, <2>1
       DEF Begin, RevisionsCoverNeeds, VersionsInOrder, OrderInv, TypeOK,
           Moved, BuildSteps, revs, lookup, built, needs, locals, ghosts
  <2> QED
    BY <2>2, <2>3, <2>4 DEF OrderInv
<1>22. ASSUME NEW q \in Queries, NEW panic \in BOOLEAN,
             BuildFails(q, panic)
      PROVE  OrderInv'
  BY <1>22, OrderAfterReturn DEF BuildFails, data, revs, ghosts
<1>23. ASSUME NEW q \in Queries, NEW panic \in BOOLEAN,
             FillFails(q, panic)
      PROVE  OrderInv'
  BY <1>23, OrderAfterReturn DEF FillFails, data, revs, ghosts
<1>40. ASSUME NEW q \in Queries, NEW panic \in BOOLEAN,
             SourcesFail(q, panic)
      PROVE  OrderInv'
  BY <1>40, OrderAfterReturn DEF SourcesFail, data, revs, ghosts
<1>24. ASSUME NEW e \in Editors, BumpRevisions(e)
      PROVE  OrderInv'
  <2>1. \A p \in Queries : pc'[p] = pc[p]
    BY <1>24, EditorMoves, ThreadsAssumption DEF BumpRevisions, Moved
  <2>2. VersionsInOrder'
    BY <1>24, <2>1
       DEF BumpRevisions, MaxOf, VersionsInOrder, OrderInv, TypeOK, data, revs,
           needs, locals, ghosts
  <2>3. SourcesInOrder'
    BY <1>24, <2>1
       DEF BumpRevisions, MaxOf, SourcesInOrder, VersionsInOrder, OrderInv,
           TypeOK, Moved, Nothing, data, lookup, needs, locals
  <2>4. RevisionsCoverNeeds'
    <3>1. /\ callRev \in Nat /\ callRev' = callRev + 1
          /\ \A r \in 0..callRev : ackAt'[r] = ackAt[r]
          /\ UNCHANGED <<need, rev, ins, dep, tagC, new>>
      BY <1>24 DEF BumpRevisions, TypeOK, lookup, built, needs, locals
    <3>2. \A p \in Queries : rev[p] \in Nat /\ tagC[p] \in Nat
      BY DEF TypeOK
    <3>3. \A p \in Queries :
             /\ rev[p] <= callRev =>
                   rev[p] <= callRev' /\ ackAt'[rev[p]] = ackAt[rev[p]]
             /\ tagC[p] <= callRev =>
                   tagC[p] <= callRev' /\ ackAt'[tagC[p]] = ackAt[tagC[p]]
      BY <3>1, <3>2
    <3> QED
      BY <2>1, <3>1, <3>3 DEF OrderInv, RevisionsCoverNeeds, BuildSteps
  <2> QED
    BY <2>2, <2>3, <2>4 DEF OrderInv
<1>25. ASSUME NEW e \in Editors, ResetInsight(e)
      PROVE  OrderInv'
  <2>1. \A p \in Queries : pc'[p] = pc[p]
    BY <1>25, EditorMoves, ThreadsAssumption DEF ResetInsight, Moved
  <2>2. \A d \in Editors : edit'[d].version <= files
    BY <1>25 DEF ResetInsight, OrderInv, VersionsInOrder
  <2> QED
    BY <1>25, <2>1, <2>2, OrderEditFrame DEF ResetInsight, data, revs, ghosts
<1>26. ASSUME NEW e \in Editors, ResetCalls(e)
      PROVE  OrderInv'
  <2>1. \A p \in Queries : pc'[p] = pc[p]
    BY <1>26, EditorMoves, ThreadsAssumption DEF ResetCalls, Moved
  <2>2. \A d \in Editors : edit'[d].version <= files
    BY <1>26 DEF ResetCalls, OrderInv, VersionsInOrder
  <2> QED
    BY <1>26, <2>1, <2>2, OrderEditFrame DEF ResetCalls, data, revs, ghosts
<1>27. ASSUME NEW e \in Editors, ResetCallsRev(e)
      PROVE  OrderInv'
  <2>1. \A p \in Queries : pc'[p] = pc[p]
    BY <1>27, EditorMoves, ThreadsAssumption DEF ResetCallsRev, Moved
  <2>2. \A d \in Editors : edit'[d].version <= files
    BY <1>27 DEF ResetCallsRev, OrderInv, VersionsInOrder
  <2> QED
    BY <1>27, <2>1, <2>2, OrderEditFrame DEF ResetCallsRev, data, revs, ghosts
<1>28. ASSUME NEW e \in Editors, ResetFingerprint(e)
      PROVE  OrderInv'
  <2>1. \A p \in Queries : pc'[p] = pc[p]
    BY <1>28, EditorMoves, ThreadsAssumption DEF ResetFingerprint, Moved
  <2>2. \A d \in Editors : edit'[d].version <= files
    <3>1. \A d \in Editors : edit'[d].version \in {0, edit[d].version}
      BY <1>28 DEF ResetFingerprint, NewEdit, TypeOK
    <3>2. files \in Nat /\ \A d \in Editors : edit[d].version <= files
      BY DEF OrderInv, VersionsInOrder, TypeOK
    <3> QED
      BY <3>1, <3>2
  <2> QED
    BY <1>28, <2>1, <2>2, OrderEditFrame
       DEF ResetFingerprint, data, revs, ghosts
<1>29. ASSUME NEW e \in Editors, EditBody(e)
      PROVE  OrderInv'
  <2>1. \A p \in Queries : pc'[p] = pc[p]
    BY <1>29, EditorMoves, ThreadsAssumption DEF EditBody, Moved
  <2>2. VersionsInOrder'
    BY <1>29, <2>1
       DEF EditBody, VersionsInOrder, OrderInv, TypeOK, data, revs, needs,
           locals, ghosts
  <2>3. SourcesInOrder'
    BY <1>29, <2>1
       DEF EditBody, SourcesInOrder, VersionsInOrder, OrderInv, TypeOK, Moved,
           Nothing, data, lookup, needs, locals
  <2>4. RevisionsCoverNeeds'
    BY <1>29, <2>1
       DEF EditBody, RevisionsCoverNeeds, VersionsInOrder, OrderInv, TypeOK,
           Moved, BuildSteps, revs, lookup, built, needs, locals, ghosts
  <2> QED
    BY <2>2, <2>3, <2>4 DEF OrderInv
<1>30. ASSUME NEW e \in Editors, EditTopology(e)
      PROVE  OrderInv'
  <2>1. \A p \in Queries : pc'[p] = pc[p]
    BY <1>30, EditorMoves, ThreadsAssumption DEF EditTopology, Moved
  <2>2. VersionsInOrder'
    BY <1>30, <2>1
       DEF EditTopology, VersionsInOrder, OrderInv, TypeOK, data, revs, needs,
           locals, ghosts
  <2>3. SourcesInOrder'
    BY <1>30, <2>1
       DEF EditTopology, SourcesInOrder, VersionsInOrder, OrderInv, TypeOK,
           Moved, Nothing, data, lookup, needs, locals
  <2>4. RevisionsCoverNeeds'
    BY <1>30, <2>1
       DEF EditTopology, RevisionsCoverNeeds, VersionsInOrder, OrderInv,
           TypeOK, Moved, BuildSteps, revs, lookup, built, needs, locals,
           ghosts
  <2> QED
    BY <2>2, <2>3, <2>4 DEF OrderInv
<1>31. CASE ReplacePackage
  <2>1. /\ pkgs \in Nat /\ pkgs' = pkgs + 1
        /\ UNCHANGED <<files, callRev, ackAt, edit, depCache, pc>>
        /\ UNCHANGED <<fp, dep, rev, ins, tagC, new, need, needPkgs>>
    BY <1>31 DEF ReplacePackage, TypeOK, revs, ghosts, locals, lookup, built,
                needs
  <2>2. \A q \in Queries : needPkgs[q] \in Nat /\ fp[q] \in Nat
    BY DEF TypeOK
  <2>3. VersionsInOrder'
    BY <2>1, <2>2 DEF OrderInv, VersionsInOrder
  <2>4. SourcesInOrder'
    BY <2>1, <2>2 DEF OrderInv, SourcesInOrder
  <2>5. RevisionsCoverNeeds'
    BY <2>1 DEF OrderInv, RevisionsCoverNeeds
  <2> QED
    BY <2>3, <2>4, <2>5 DEF OrderInv
<1>32. CASE UNCHANGED vars
  BY <1>32
     DEF vars, OrderInv, VersionsInOrder, SourcesInOrder, RevisionsCoverNeeds,
         BuildSteps, Nothing, TypeOK, data, revs, lookup, built, needs, locals,
         ghosts
<1>33. ASSUME NEW q \in Queries, QueryStep(q) PROVE OrderInv'
  BY <1>33, <1>1, <1>2, <1>3, <1>4, <1>5, <1>6, <1>7, <1>8, <1>9, <1>10, <1>11,
     <1>12, <1>13, <1>14, <1>15, <1>16, <1>17, <1>18, <1>19, <1>20,
     <1>40 DEF QueryStep
<1>34. ASSUME NEW e \in Editors, EditStep(e) PROVE OrderInv'
  BY <1>34, <1>24, <1>25, <1>26, <1>27, <1>28
     DEF EditStep
<1> QED
  BY <1>21, <1>22, <1>23, <1>40, <1>29, <1>30, <1>31, <1>32, <1>33, <1>34
     DEF Next

-----------------------------------------------------------------------------
\* What holds of the cached pair and of the graph a request is given.
CacheInv ==
    /\ CacheCoversItsTag
    /\ BuildLockPinsCache
    /\ CacheIsOneBuild
    /\ FilledFromItsInsight
    /\ ServedCallGraphIsFresh
    /\ ServedSourcesAreFresh

\* The steps at which a thread knows something of the cached call graph.
KnowingSteps == {"mark", "reread", "fill_calls", "fill", "held"}

\* The locals CacheInv mentions, of every thread but q.
OthersKeep(q) ==
    \A p \in Queries \ {q} :
        /\ tagC'[p] = tagC[p] /\ dep'[p] = dep[p] /\ ins'[p] = ins[p]
        /\ need'[p] = need[p] /\ needPkgs'[p] = needPkgs[p]

\* A step that leaves the cache alone and goes where nothing is known of it.
LEMMA CacheFrame ==
  ASSUME CacheInv, NEW q \in Queries, NEW S, Moved(q, S),
         S \cap KnowingSteps = {}, OthersKeep(q),
         UNCHANGED <<ig, cg, cgRev, cgFp, callRev, ackAt>>
  PROVE  CacheInv'
<1>1. pc'[q] \notin KnowingSteps
  BY DEF Moved
<1>2. CacheCoversItsTag' /\ CacheIsOneBuild' /\ FilledFromItsInsight'
  BY DEF CacheInv, CacheCoversItsTag, CacheIsOneBuild, FilledFromItsInsight
<1>3. BuildLockPinsCache'
  BY <1>1 DEF CacheInv, BuildLockPinsCache, Moved, OthersKeep, KnowingSteps
<1>4. ServedCallGraphIsFresh' /\ ServedSourcesAreFresh'
  BY <1>1 DEF CacheInv, ServedCallGraphIsFresh, ServedSourcesAreFresh, Moved,
              OthersKeep, KnowingSteps
<1> QED
  BY <1>2, <1>3, <1>4 DEF CacheInv

\* Of the threads that know something of the cache only the holder of the
\* build lock, or readers, can be there.
LEMMA CacheStep ==
  /\ TypeOK /\ LocksMatchSteps /\ OrderInv /\ CacheInv
  /\ [Next]_vars
  => CacheInv'
<1> SUFFICES ASSUME TypeOK, LocksMatchSteps, OrderInv, CacheInv, [Next]_vars
             PROVE  CacheInv'
  OBVIOUS
<1>1. ASSUME NEW q \in Queries, ReadFingerprint(q)
      PROVE  CacheInv'
  <2>1. Moved(q, {"sources"})
    BY <1>1, QueryMoves DEF ReadFingerprint, Moved
  <2>2. OthersKeep(q)
    BY <1>1
       DEF ReadFingerprint, OthersKeep, TypeOK, lookup, built, needs, locals
  <2>3. UNCHANGED <<ig, cg, cgRev, cgFp, callRev, ackAt>>
    BY <1>1 DEF ReadFingerprint, cache, revs, ghosts
  <2> QED
    BY <2>1, <2>2, <2>3, CacheFrame DEF KnowingSteps
<1>2. ASSUME NEW q \in Queries, LoadSources(q)
      PROVE  CacheInv'
  <2>1. Moved(q, {"revision"})
    BY <1>2, QueryMoves DEF LoadSources, Moved
  <2>2. OthersKeep(q)
    BY <1>2 DEF LoadSources, OthersKeep, TypeOK, lookup, built, needs, locals
  <2>3. UNCHANGED <<ig, cg, cgRev, cgFp, callRev, ackAt>>
    BY <1>2 DEF LoadSources, cache, revs, ghosts
  <2> QED
    BY <2>1, <2>2, <2>3, CacheFrame DEF KnowingSteps
<1>3. ASSUME NEW q \in Queries, ReadRevision(q)
      PROVE  CacheInv'
  <2>1. Moved(q, {"insight"})
    BY <1>3, QueryMoves DEF ReadRevision, Moved
  <2>2. OthersKeep(q)
    BY <1>3 DEF ReadRevision, OthersKeep, TypeOK, lookup, built, needs, locals
  <2>3. UNCHANGED <<ig, cg, cgRev, cgFp, callRev, ackAt>>
    BY <1>3 DEF ReadRevision, cache, revs, ghosts
  <2> QED
    BY <2>1, <2>2, <2>3, CacheFrame DEF KnowingSteps
<1>4. ASSUME NEW q \in Queries, CloneInsight(q)
      PROVE  CacheInv'
  <2>1. Moved(q, {"calls"})
    BY <1>4, QueryMoves DEF CloneInsight, Moved
  <2>2. OthersKeep(q)
    BY <1>4 DEF CloneInsight, OthersKeep, TypeOK, lookup, built, needs, locals
  <2>3. UNCHANGED <<ig, cg, cgRev, cgFp, callRev, ackAt>>
    BY <1>4 DEF CloneInsight, cache, revs, ghosts
  <2> QED
    BY <2>1, <2>2, <2>3, CacheFrame DEF KnowingSteps
<1>5. ASSUME NEW q \in Queries, LockCalls(q)
      PROVE  CacheInv'
  <2>1. CASE Return(q)
    <3>1. Moved(q, {"idle"})
      BY <2>1, ReturnTyped
    <3>2. OthersKeep(q)
      BY <1>5, <2>1 DEF Return, Forget, OthersKeep, TypeOK
    <3>3. UNCHANGED <<ig, cg, cgRev, cgFp, callRev, ackAt>>
      BY <1>5, <2>1 DEF LockCalls, cache, revs, ghosts
    <3> QED
      BY <3>1, <3>2, <3>3, CacheFrame DEF KnowingSteps
  <2>2. CASE ~Return(q)
    <3>1. Moved(q, {"check"})
      BY <1>5, <2>2, QueryMoves DEF LockCalls, Moved
    <3>2. OthersKeep(q)
      BY <1>5, <2>2
         DEF LockCalls, OthersKeep, TypeOK, lookup, built, needs, locals
    <3>3. UNCHANGED <<ig, cg, cgRev, cgFp, callRev, ackAt>>
      BY <1>5, <2>2 DEF LockCalls, cache, revs, ghosts
    <3> QED
      BY <3>1, <3>2, <3>3, CacheFrame DEF KnowingSteps
  <2> QED
    BY <2>1, <2>2
<1>6. ASSUME NEW q \in Queries, Check(q)
      PROVE  CacheInv'
  <2>1. CASE ~IsHit(q)
    <3>1. Moved(q, {"tag", "lock"})
      BY <1>6, <2>1, QueryMoves DEF Check, Moved
    <3>2. OthersKeep(q)
      BY <1>6 DEF Check, OthersKeep, lookup, built, needs, locals
    <3>3. UNCHANGED <<ig, cg, cgRev, cgFp, callRev, ackAt>>
      BY <1>6 DEF Check, cache, revs, ghosts
    <3> QED
      BY <3>1, <3>2, <3>3, CacheFrame DEF KnowingSteps
  <2>2. CASE IsHit(q)
    <3>1. Moved(q, {"held"})
      BY <1>6, <2>2, QueryMoves DEF Check, Moved
    <3>2. UNCHANGED <<ig, cg, cgRev, cgFp, callRev, ackAt, locals>>
      BY <1>6, <2>2 DEF Check, cache, revs, ghosts
    <3>3. cg.files >= need[q]
      <4>1. /\ cg.tag = rev[q] /\ cg.files >= ackAt[rev[q]]
            /\ rev[q] <= callRev /\ need[q] <= ackAt[rev[q]]
        BY <1>6, <2>2 DEF Check, IsHit, CacheInv, CacheCoversItsTag, OrderInv,
                          RevisionsCoverNeeds, TypeOK, Nothing
      <4>2. rev[q] \in 0..callRev
        BY <4>1 DEF TypeOK
      <4>3. ackAt[rev[q]] \in Nat /\ need[q] \in Nat /\ cg.files \in Nat
        BY <4>2 DEF TypeOK, CallGraphs
      <4> QED
        BY <4>1, <4>3
    <3>4. cg.dep >= needPkgs[q]
      <4>1. cg # NoCalls /\ cgFp = fp[q]
        BY <2>2 DEF IsHit
      <4>2. /\ fp[q] \in Nat /\ needPkgs[q] \in Nat /\ cg.dep \in Nat
            /\ cgFp # Nothing
        BY <4>1 DEF TypeOK, CallGraphs, Nothing
      <4>3. fp[q] <= cg.dep
        BY <4>1, <4>2 DEF CacheInv, CacheCoversItsTag
      <4>4. needPkgs[q] <= fp[q]
        BY <1>6 DEF Check, OrderInv, SourcesInOrder
      <4> QED
        BY <4>2, <4>3, <4>4
    <3>5. CacheCoversItsTag' /\ CacheIsOneBuild' /\ FilledFromItsInsight'
      BY <3>2 DEF CacheInv, CacheCoversItsTag, CacheIsOneBuild,
               FilledFromItsInsight
    <3>6. BuildLockPinsCache'
      BY <1>6, <3>1, <3>2
         DEF CacheInv, Check, BuildLockPinsCache, Moved, lookup, built, locals
    <3>7. ServedCallGraphIsFresh' /\ ServedSourcesAreFresh'
      BY <3>1, <3>2, <3>3, <3>4
         DEF CacheInv, ServedCallGraphIsFresh, ServedSourcesAreFresh, Moved,
             needs, locals
    <3> QED
      BY <3>5, <3>6, <3>7 DEF CacheInv
  <2> QED
    BY <2>1, <2>2
<1>7. ASSUME NEW q \in Queries, AcquireBuildLock(q)
      PROVE  CacheInv'
  <2>1. CASE Return(q)
    <3>1. Moved(q, {"idle"})
      BY <2>1, ReturnTyped
    <3>2. OthersKeep(q)
      BY <1>7, <2>1 DEF Return, Forget, OthersKeep, TypeOK
    <3>3. UNCHANGED <<ig, cg, cgRev, cgFp, callRev, ackAt>>
      BY <1>7, <2>1 DEF AcquireBuildLock, cache, revs, ghosts
    <3> QED
      BY <3>1, <3>2, <3>3, CacheFrame DEF KnowingSteps
  <2>2. CASE ~Return(q)
    <3>1. Moved(q, {"fingerprint"})
      BY <1>7, <2>2, QueryMoves DEF AcquireBuildLock, AfterBuildLock, Moved
    <3>2. OthersKeep(q)
      BY <1>7, <2>2
         DEF AcquireBuildLock, OthersKeep, TypeOK, lookup, built, needs, locals
    <3>3. UNCHANGED <<ig, cg, cgRev, cgFp, callRev, ackAt>>
      BY <1>7, <2>2 DEF AcquireBuildLock, cache, revs, ghosts
    <3> QED
      BY <3>1, <3>2, <3>3, CacheFrame DEF KnowingSteps
  <2> QED
    BY <2>1, <2>2
<1>8. ASSUME NEW q \in Queries, TagBuild(q)
      PROVE  CacheInv'
  <2>1. Moved(q, {"nodes"})
    BY <1>8, QueryMoves DEF TagBuild, Moved
  <2>2. OthersKeep(q)
    BY <1>8 DEF TagBuild, OthersKeep, TypeOK, lookup, built, needs, locals
  <2>3. UNCHANGED <<ig, cg, cgRev, cgFp, callRev, ackAt>>
    BY <1>8 DEF TagBuild, cache, revs, ghosts
  <2> QED
    BY <2>1, <2>2, <2>3, CacheFrame DEF KnowingSteps
<1>9. ASSUME NEW q \in Queries, BuildNodes(q)
      PROVE  CacheInv'
  <2>1. Moved(q, {"edges"})
    BY <1>9, QueryMoves DEF BuildNodes, Moved
  <2>2. OthersKeep(q)
    BY <1>9 DEF BuildNodes, OthersKeep, TypeOK, lookup, built, needs, locals
  <2>3. UNCHANGED <<ig, cg, cgRev, cgFp, callRev, ackAt>>
    BY <1>9 DEF BuildNodes, cache, revs, ghosts
  <2> QED
    BY <2>1, <2>2, <2>3, CacheFrame DEF KnowingSteps
<1>10. ASSUME NEW q \in Queries, BuildEdges(q)
      PROVE  CacheInv'
  <2>1. Moved(q, {"publish_insight"})
    BY <1>10, QueryMoves DEF BuildEdges, Moved
  <2>2. OthersKeep(q)
    BY <1>10 DEF BuildEdges, OthersKeep, TypeOK, lookup, built, needs, locals
  <2>3. UNCHANGED <<ig, cg, cgRev, cgFp, callRev, ackAt>>
    BY <1>10 DEF BuildEdges, cache, revs, ghosts
  <2> QED
    BY <2>1, <2>2, <2>3, CacheFrame DEF KnowingSteps
<1>11. ASSUME NEW q \in Queries, PublishInsight(q)
      PROVE  CacheInv'
  <2>1. Moved(q, {"publish_calls"})
    BY <1>11, QueryMoves DEF PublishInsight, Moved
  <2>2. OthersKeep(q)
    BY <1>11
       DEF PublishInsight, OthersKeep, TypeOK, lookup, built, needs, locals
  <2>3. UNCHANGED <<ig, cg, cgRev, cgFp, callRev, ackAt>>
    BY <1>11 DEF PublishInsight, cache, revs, ghosts
  <2> QED
    BY <2>1, <2>2, <2>3, CacheFrame DEF KnowingSteps
<1>12. ASSUME NEW q \in Queries, PublishCalls(q)
      PROVE  CacheInv'
  <2>1. CASE Return(q)
    <3>1. Moved(q, {"idle"})
      BY <2>1, ReturnTyped
    <3>2. OthersKeep(q)
      BY <1>12, <2>1 DEF Return, Forget, OthersKeep, TypeOK
    <3>3. UNCHANGED <<ig, cg, cgRev, cgFp, callRev, ackAt>>
      BY <1>12, <2>1 DEF PublishCalls, cache, revs, ghosts
    <3> QED
      BY <3>1, <3>2, <3>3, CacheFrame DEF KnowingSteps
  <2>2. CASE ~Return(q)
    <3>1. Moved(q, {"publish_all"})
      BY <1>12, <2>2, QueryMoves DEF PublishCalls, Moved
    <3>2. OthersKeep(q)
      BY <1>12, <2>2
         DEF PublishCalls, OthersKeep, TypeOK, lookup, built, needs, locals
    <3>3. UNCHANGED <<ig, cg, cgRev, cgFp, callRev, ackAt>>
      BY <1>12, <2>2 DEF PublishCalls, cache, revs, ghosts
    <3> QED
      BY <3>1, <3>2, <3>3, CacheFrame DEF KnowingSteps
  <2> QED
    BY <2>1, <2>2
<1>13. ASSUME NEW q \in Queries, PublishAll(q)
      PROVE  CacheInv'
  <2>1. Moved(q, {"mark"})
    BY <1>13, QueryMoves DEF PublishAll
  <2>2. \A p \in Queries \ {q} : pc[p] \notin KnowingSteps
    BY <1>13 DEF PublishAll, LocksMatchSteps, BuildSteps, FillSteps, KnowingSteps
  <2>3. /\ ig' = ins[q] /\ cg' = new[q] /\ cgFp' = fp[q] /\ cgRev' = tagC[q]
        /\ UNCHANGED <<callRev, ackAt, tagC, dep>>
    BY <1>13 DEF PublishAll, revs, ghosts, lookup
  <2>4. /\ new[q].tag = tagC[q] /\ new[q].files >= ackAt[tagC[q]]
        /\ new[q].dep = dep[q] /\ new[q].build = ins[q].build
        /\ new[q].filled = 0 /\ tagC[q] <= callRev /\ fp[q] <= dep[q]
    BY <1>13 DEF PublishAll, OrderInv, RevisionsCoverNeeds, SourcesInOrder,
                BuildSteps
  <2>5. CacheCoversItsTag' /\ CacheIsOneBuild' /\ FilledFromItsInsight'
    BY <2>3, <2>4 DEF CacheCoversItsTag, CacheIsOneBuild, FilledFromItsInsight
  <2>6. BuildLockPinsCache' /\ ServedCallGraphIsFresh' /\ ServedSourcesAreFresh'
    BY <2>1, <2>2, <2>3, <2>4
       DEF BuildLockPinsCache, ServedCallGraphIsFresh, ServedSourcesAreFresh,
           Moved, KnowingSteps
  <2> QED
    BY <2>5, <2>6 DEF CacheInv
<1>14. ASSUME NEW q \in Queries, MarkReady(q)
      PROVE  CacheInv'
  <2>1. Moved(q, {"reread"})
    BY <1>14, QueryMoves DEF MarkReady, Moved
  <2>2. UNCHANGED <<ig, cg, cgRev, cgFp, callRev, ackAt, locals>>
    BY <1>14 DEF MarkReady, cache, revs, ghosts
  <2>5. CacheCoversItsTag' /\ CacheIsOneBuild' /\ FilledFromItsInsight'
    BY <2>2 DEF CacheInv, CacheCoversItsTag, CacheIsOneBuild,
             FilledFromItsInsight
  <2>6. BuildLockPinsCache'
    BY <1>14, <2>1, <2>2
       DEF CacheInv, MarkReady, BuildLockPinsCache, Moved, lookup, built, locals
  <2>7. ServedCallGraphIsFresh' /\ ServedSourcesAreFresh'
    BY <2>1, <2>2
       DEF CacheInv, ServedCallGraphIsFresh, ServedSourcesAreFresh, Moved,
           needs, locals
  <2> QED
    BY <2>5, <2>6, <2>7 DEF CacheInv
<1>15. ASSUME NEW q \in Queries, Reread(q)
      PROVE  CacheInv'
  <2>1. CASE Return(q)
    <3>1. Moved(q, {"idle"})
      BY <2>1, ReturnTyped
    <3>2. OthersKeep(q)
      BY <1>15, <2>1 DEF Return, Forget, OthersKeep, TypeOK
    <3>3. UNCHANGED <<ig, cg, cgRev, cgFp, callRev, ackAt>>
      BY <1>15, <2>1 DEF Reread, cache, revs, ghosts
    <3> QED
      BY <3>1, <3>2, <3>3, CacheFrame DEF KnowingSteps
  <2>2. CASE ~Return(q)
    <3>1. Moved(q, {"held"})
      BY <1>15, <2>2, QueryMoves DEF Reread, Moved
    <3>2. UNCHANGED <<ig, cg, cgRev, cgFp, callRev, ackAt, locals>>
      BY <1>15, <2>2 DEF Reread, cache, revs, ghosts
    <3>3. cg # NoCalls => cg.files >= need[q]
      <4> SUFFICES ASSUME cg # NoCalls PROVE cg.files >= need[q]
        OBVIOUS
      <4>1. /\ cg.tag = tagC[q] /\ cg.files >= ackAt[cg.tag]
            /\ tagC[q] <= callRev /\ need[q] <= ackAt[tagC[q]]
        BY <1>15 DEF Reread, CacheInv, BuildLockPinsCache, CacheCoversItsTag,
                    OrderInv, RevisionsCoverNeeds
      <4>2. tagC[q] \in 0..callRev
        BY <4>1 DEF TypeOK
      <4>3. ackAt[tagC[q]] \in Nat /\ need[q] \in Nat /\ cg.files \in Nat
        BY <4>2 DEF TypeOK, CallGraphs
      <4> QED
        BY <4>1, <4>3
    <3>4. cg # NoCalls => cg.dep >= needPkgs[q]
      <4> SUFFICES ASSUME cg # NoCalls PROVE cg.dep >= needPkgs[q]
        OBVIOUS
      <4>1. cg.dep = dep[q] /\ fp[q] <= dep[q] /\ needPkgs[q] <= fp[q]
        BY <1>15 DEF Reread, CacheInv, BuildLockPinsCache, OrderInv,
                    SourcesInOrder
      <4> QED
        BY <4>1 DEF TypeOK
    <3>5. CacheCoversItsTag' /\ CacheIsOneBuild' /\ FilledFromItsInsight'
      BY <3>2 DEF CacheInv, CacheCoversItsTag, CacheIsOneBuild,
               FilledFromItsInsight
    <3>6. BuildLockPinsCache'
      BY <1>15, <3>1, <3>2
         DEF CacheInv, Reread, BuildLockPinsCache, Moved, lookup, built, locals
    <3>7. ServedCallGraphIsFresh' /\ ServedSourcesAreFresh'
      BY <3>1, <3>2, <3>3, <3>4
         DEF CacheInv, ServedCallGraphIsFresh, ServedSourcesAreFresh, Moved,
             needs, locals
    <3> QED
      BY <3>5, <3>6, <3>7 DEF CacheInv
  <2> QED
    BY <2>1, <2>2
<1>16. ASSUME NEW q \in Queries, DropGuard(q)
      PROVE  CacheInv'
  <2>1. CASE Return(q)
    <3>1. Moved(q, {"idle"})
      BY <2>1, ReturnTyped
    <3>2. OthersKeep(q)
      BY <1>16, <2>1 DEF Return, Forget, OthersKeep, TypeOK
    <3>3. UNCHANGED <<ig, cg, cgRev, cgFp, callRev, ackAt>>
      BY <1>16, <2>1 DEF DropGuard, cache, revs, ghosts
    <3> QED
      BY <3>1, <3>2, <3>3, CacheFrame DEF KnowingSteps
  <2>2. CASE ~Return(q)
    <3>1. Moved(q, {"relock"})
      BY <1>16, <2>2, QueryMoves DEF DropGuard, Moved
    <3>2. OthersKeep(q)
      BY <1>16, <2>2
         DEF DropGuard, OthersKeep, TypeOK, lookup, built, needs, locals
    <3>3. UNCHANGED <<ig, cg, cgRev, cgFp, callRev, ackAt>>
      BY <1>16, <2>2 DEF DropGuard, cache, revs, ghosts
    <3> QED
      BY <3>1, <3>2, <3>3, CacheFrame DEF KnowingSteps
  <2> QED
    BY <2>1, <2>2
<1>17. ASSUME NEW q \in Queries, FillLock(q)
      PROVE  CacheInv'
  <2>1. CASE Return(q)
    <3>1. Moved(q, {"idle"})
      BY <2>1, ReturnTyped
    <3>2. OthersKeep(q)
      BY <1>17, <2>1 DEF Return, Forget, OthersKeep, TypeOK
    <3>3. UNCHANGED <<ig, cg, cgRev, cgFp, callRev, ackAt>>
      BY <1>17, <2>1 DEF FillLock, cache, revs, ghosts
    <3> QED
      BY <3>1, <3>2, <3>3, CacheFrame DEF KnowingSteps
  <2>2. CASE ~Return(q)
    <3>1. Moved(q, {"fill_insight"})
      BY <1>17, <2>2, QueryMoves DEF FillLock, Moved
    <3>2. OthersKeep(q)
      BY <1>17, <2>2
         DEF FillLock, OthersKeep, TypeOK, lookup, built, needs, locals
    <3>3. UNCHANGED <<ig, cg, cgRev, cgFp, callRev, ackAt>>
      BY <1>17, <2>2 DEF FillLock, cache, revs, ghosts
    <3> QED
      BY <3>1, <3>2, <3>3, CacheFrame DEF KnowingSteps
  <2> QED
    BY <2>1, <2>2
<1>18. ASSUME NEW q \in Queries, FillInsight(q)
      PROVE  CacheInv'
  <2>1. CASE Return(q)
    <3>1. Moved(q, {"idle"})
      BY <2>1, ReturnTyped
    <3>2. OthersKeep(q)
      BY <1>18, <2>1 DEF Return, Forget, OthersKeep, TypeOK
    <3>3. UNCHANGED <<ig, cg, cgRev, cgFp, callRev, ackAt>>
      BY <1>18, <2>1 DEF FillInsight, cache, revs, ghosts
    <3> QED
      BY <3>1, <3>2, <3>3, CacheFrame DEF KnowingSteps
  <2>2. CASE ~Return(q)
    <3>1. Moved(q, {"fill_calls"})
      BY <1>18, <2>2, QueryMoves DEF FillInsight
    <3>2. /\ ig # NoInsight /\ ins'[q] = ig
          /\ \A p \in Queries \ {q} : ins'[p] = ins[p]
          /\ UNCHANGED <<tagC, dep, need, needPkgs>>
      BY <1>18, <2>2 DEF FillInsight, TypeOK, built, needs
    <3>3. UNCHANGED <<ig, cg, cgRev, cgFp, callRev, ackAt>>
      BY <1>18 DEF FillInsight, cache, revs, ghosts
    <3>4. cg # NoCalls => cg.build = ins'[q].build
      BY <3>2 DEF CacheInv, CacheIsOneBuild
    <3>5. CacheCoversItsTag' /\ CacheIsOneBuild' /\ FilledFromItsInsight'
      BY <3>3 DEF CacheInv, CacheCoversItsTag, CacheIsOneBuild,
                  FilledFromItsInsight
    <3>6. BuildLockPinsCache'
      BY <3>1, <3>2, <3>3, <3>4 DEF CacheInv, BuildLockPinsCache, Moved
    <3>7. ServedCallGraphIsFresh' /\ ServedSourcesAreFresh'
      BY <3>1, <3>2, <3>3
         DEF CacheInv, ServedCallGraphIsFresh, ServedSourcesAreFresh, Moved
    <3> QED
      BY <3>5, <3>6, <3>7 DEF CacheInv
  <2> QED
    BY <2>1, <2>2
<1>19. ASSUME NEW q \in Queries, FillCalls(q)
      PROVE  CacheInv'
  <2>1. CASE Return(q)
    <3>1. Moved(q, {"idle"})
      BY <2>1, ReturnTyped
    <3>2. OthersKeep(q)
      BY <1>19, <2>1 DEF Return, Forget, OthersKeep, TypeOK
    <3>3. UNCHANGED <<ig, cg, cgRev, cgFp, callRev, ackAt>>
      BY <1>19, <2>1 DEF FillCalls, cache, revs, ghosts
    <3> QED
      BY <3>1, <3>2, <3>3, CacheFrame DEF KnowingSteps
  <2>2. CASE ~Return(q)
    <3>1. Moved(q, {"fill"})
      BY <1>19, <2>2, QueryMoves DEF FillCalls, Moved
    <3>2. UNCHANGED <<ig, cg, cgRev, cgFp, callRev, ackAt, locals>>
      BY <1>19, <2>2 DEF FillCalls, cache, revs, ghosts
    <3>3. cg # NoCalls
      BY <1>19, <2>2 DEF FillCalls
    <3>5. CacheCoversItsTag' /\ CacheIsOneBuild' /\ FilledFromItsInsight'
      BY <3>2 DEF CacheInv, CacheCoversItsTag, CacheIsOneBuild,
               FilledFromItsInsight
    <3>6. BuildLockPinsCache'
      BY <1>19, <3>1, <3>2, <3>3
         DEF CacheInv, FillCalls, BuildLockPinsCache, Moved, lookup, built, locals
    <3>7. ServedCallGraphIsFresh' /\ ServedSourcesAreFresh'
      BY <3>1, <3>2
         DEF CacheInv, ServedCallGraphIsFresh, ServedSourcesAreFresh, Moved,
             needs, locals
    <3> QED
      BY <3>5, <3>6, <3>7 DEF CacheInv
  <2> QED
    BY <2>1, <2>2
<1>20. ASSUME NEW q \in Queries, Fill(q)
      PROVE  CacheInv'
  <2>1. Moved(q, {"idle"})
    BY <1>20, ReturnTyped DEF Fill
  <2>2. \A p \in Queries \ {q} : pc[p] \notin KnowingSteps
    BY <1>20 DEF Fill, LocksMatchSteps, BuildSteps, FillSteps, KnowingSteps
  <2>3. /\ cg' = [cg EXCEPT !.filled = ins[q].build]
        /\ UNCHANGED <<ig, cgRev, cgFp, callRev, ackAt>>
    BY <1>20 DEF Fill, revs, ghosts
  <2>4. /\ cg # NoCalls /\ ins[q].build = cg.build
    BY <1>20 DEF Fill, CacheInv, BuildLockPinsCache
  <2>5. /\ cg'.build = cg.build /\ cg'.files = cg.files /\ cg'.dep = cg.dep
        /\ cg'.tag = cg.tag /\ cg'.filled = cg.build
    BY <2>3, <2>4 DEF TypeOK, CallGraphs
  <2>6. CacheCoversItsTag' /\ CacheIsOneBuild' /\ FilledFromItsInsight'
    BY <2>3, <2>4, <2>5
       DEF CacheInv, CacheCoversItsTag, CacheIsOneBuild, FilledFromItsInsight
  <2>7. BuildLockPinsCache' /\ ServedCallGraphIsFresh' /\ ServedSourcesAreFresh'
    BY <2>1, <2>2
       DEF BuildLockPinsCache, ServedCallGraphIsFresh, ServedSourcesAreFresh,
           Moved, KnowingSteps
  <2> QED
    BY <2>6, <2>7 DEF CacheInv
<1>21. ASSUME NEW q \in Queries, NEW m \in {"query", "complete"},
             Begin(q, m)
      PROVE  CacheInv'
  <2>1. Moved(q, {"fingerprint"})
    BY <1>21, QueryMoves DEF Begin, Moved
  <2>2. OthersKeep(q)
    BY <1>21 DEF Begin, OthersKeep, TypeOK, lookup, built, needs, locals
  <2>3. UNCHANGED <<ig, cg, cgRev, cgFp, callRev, ackAt>>
    BY <1>21 DEF Begin, cache, revs, ghosts
  <2> QED
    BY <2>1, <2>2, <2>3, CacheFrame DEF KnowingSteps
<1>22. ASSUME NEW q \in Queries, NEW panic \in BOOLEAN,
             BuildFails(q, panic)
      PROVE  CacheInv'
  <2>1. Moved(q, {"idle"})
    BY <1>22, ReturnTyped DEF BuildFails
  <2>2. OthersKeep(q)
    BY <1>22 DEF BuildFails, Return, Forget, OthersKeep, TypeOK
  <2>3. UNCHANGED <<ig, cg, cgRev, cgFp, callRev, ackAt>>
    BY <1>22 DEF BuildFails, cache, revs, ghosts
  <2> QED
    BY <2>1, <2>2, <2>3, CacheFrame DEF KnowingSteps
<1>23. ASSUME NEW q \in Queries, NEW panic \in BOOLEAN,
             FillFails(q, panic)
      PROVE  CacheInv'
  <2>1. Moved(q, {"idle"})
    BY <1>23, ReturnTyped DEF FillFails
  <2>2. OthersKeep(q)
    BY <1>23 DEF FillFails, Return, Forget, OthersKeep, TypeOK
  <2>3. UNCHANGED <<ig, cg, cgRev, cgFp, callRev, ackAt>>
    BY <1>23 DEF FillFails, cache, revs, ghosts
  <2> QED
    BY <2>1, <2>2, <2>3, CacheFrame DEF KnowingSteps
<1>40. ASSUME NEW q \in Queries, NEW panic \in BOOLEAN,
             SourcesFail(q, panic)
      PROVE  CacheInv'
  <2>1. Moved(q, {"idle"})
    BY <1>40, ReturnTyped DEF SourcesFail
  <2>2. OthersKeep(q)
    BY <1>40 DEF SourcesFail, Return, Forget, OthersKeep, TypeOK
  <2>3. UNCHANGED <<ig, cg, cgRev, cgFp, callRev, ackAt>>
    BY <1>40 DEF SourcesFail, cache, revs, ghosts
  <2> QED
    BY <2>1, <2>2, <2>3, CacheFrame DEF KnowingSteps
<1>24. ASSUME NEW e \in Editors, BumpRevisions(e)
      PROVE  CacheInv'
  <2>1. \A p \in Queries : pc'[p] = pc[p]
    BY <1>24, EditorMoves, ThreadsAssumption DEF BumpRevisions, Moved
  <2>2. /\ callRev \in Nat /\ callRev' = callRev + 1
        /\ \A r \in 0..callRev : ackAt'[r] = ackAt[r]
        /\ UNCHANGED <<ig, cg, cgRev, cgFp, locals>>
    BY <1>24 DEF BumpRevisions, TypeOK, cache
  <2>3. CacheCoversItsTag'
    BY <2>2 DEF CacheInv, CacheCoversItsTag, TypeOK, CallGraphs
  <2> QED
    BY <2>1, <2>2, <2>3
       DEF CacheInv, BuildLockPinsCache, CacheIsOneBuild, FilledFromItsInsight,
           ServedCallGraphIsFresh, ServedSourcesAreFresh, lookup, built, needs,
           locals
<1>25. ASSUME NEW e \in Editors, ResetInsight(e)
      PROVE  CacheInv'
  <2>1. \A p \in Queries : pc'[p] = pc[p]
    BY <1>25, EditorMoves, ThreadsAssumption DEF ResetInsight, Moved
  <2> QED
    BY <1>25, <2>1
       DEF ResetInsight, NoInsight, CacheInv, CacheCoversItsTag,
           BuildLockPinsCache, CacheIsOneBuild, FilledFromItsInsight,
           ServedCallGraphIsFresh, ServedSourcesAreFresh, cache, revs, lookup,
           built, needs, locals, ghosts
<1>26. ASSUME NEW e \in Editors, ResetCalls(e)
      PROVE  CacheInv'
  <2>1. \A p \in Queries : pc'[p] = pc[p]
    BY <1>26, EditorMoves, ThreadsAssumption DEF ResetCalls, Moved
  <2>2. \A p \in Queries : pc[p] \notin {"fill", "held"}
    BY <1>26 DEF ResetCalls, CanWrite, LocksMatchSteps
  <2>3. cg' = NoCalls /\ UNCHANGED <<ig, cgRev, cgFp, callRev, ackAt, locals>>
    BY <1>26 DEF ResetCalls, revs, ghosts
  <2> QED
    BY <2>1, <2>2, <2>3
       DEF CacheInv, CacheCoversItsTag, BuildLockPinsCache, CacheIsOneBuild,
           FilledFromItsInsight, ServedCallGraphIsFresh, ServedSourcesAreFresh,
           NoCalls
<1>27. ASSUME NEW e \in Editors, ResetCallsRev(e)
      PROVE  CacheInv'
  <2>1. \A p \in Queries : pc'[p] = pc[p]
    BY <1>27, EditorMoves, ThreadsAssumption DEF ResetCallsRev, Moved
  <2> QED
    BY <1>27, <2>1
       DEF ResetCallsRev, CacheInv, CacheCoversItsTag, BuildLockPinsCache,
           CacheIsOneBuild, FilledFromItsInsight, ServedCallGraphIsFresh,
           ServedSourcesAreFresh, cache, revs, lookup, built, needs, locals,
           ghosts
<1>28. ASSUME NEW e \in Editors, ResetFingerprint(e)
      PROVE  CacheInv'
  <2>1. \A p \in Queries : pc'[p] = pc[p]
    BY <1>28, EditorMoves, ThreadsAssumption DEF ResetFingerprint, Moved
  <2> QED
    BY <1>28, <2>1
       DEF ResetFingerprint, CacheInv, CacheCoversItsTag, BuildLockPinsCache,
           CacheIsOneBuild, FilledFromItsInsight, ServedCallGraphIsFresh,
           ServedSourcesAreFresh, cache, revs, lookup, built, needs, locals,
           ghosts
<1>29. ASSUME NEW e \in Editors, EditBody(e)
      PROVE  CacheInv'
  <2>1. \A p \in Queries : pc'[p] = pc[p]
    BY <1>29, EditorMoves, ThreadsAssumption DEF EditBody, Moved
  <2> QED
    BY <1>29, <2>1
       DEF EditBody, CacheInv, CacheCoversItsTag, BuildLockPinsCache,
           CacheIsOneBuild, FilledFromItsInsight, ServedCallGraphIsFresh,
           ServedSourcesAreFresh, cache, revs, lookup, built, needs, locals,
           ghosts
<1>30. ASSUME NEW e \in Editors, EditTopology(e)
      PROVE  CacheInv'
  <2>1. \A p \in Queries : pc'[p] = pc[p]
    BY <1>30, EditorMoves, ThreadsAssumption DEF EditTopology, Moved
  <2> QED
    BY <1>30, <2>1
       DEF EditTopology, CacheInv, CacheCoversItsTag, BuildLockPinsCache,
           CacheIsOneBuild, FilledFromItsInsight, ServedCallGraphIsFresh,
           ServedSourcesAreFresh, cache, revs, lookup, built, needs, locals,
           ghosts
<1>31. CASE ReplacePackage
  BY <1>31
     DEF ReplacePackage, CacheInv, CacheCoversItsTag, BuildLockPinsCache,
         CacheIsOneBuild, FilledFromItsInsight, ServedCallGraphIsFresh,
         ServedSourcesAreFresh, cache, revs, lookup, built, needs, locals,
         ghosts
<1>32. CASE UNCHANGED vars
  BY <1>32
     DEF vars, CacheInv, CacheCoversItsTag, BuildLockPinsCache,
         CacheIsOneBuild, FilledFromItsInsight, ServedCallGraphIsFresh,
         ServedSourcesAreFresh, cache, revs, lookup, built, needs, locals,
         ghosts
<1>33. ASSUME NEW q \in Queries, QueryStep(q) PROVE CacheInv'
  BY <1>33, <1>1, <1>2, <1>3, <1>4, <1>5, <1>6, <1>7, <1>8, <1>9, <1>10, <1>11,
     <1>12, <1>13, <1>14, <1>15, <1>16, <1>17, <1>18, <1>19, <1>20,
     <1>40 DEF QueryStep
<1>34. ASSUME NEW e \in Editors, EditStep(e) PROVE CacheInv'
  BY <1>34, <1>24, <1>25, <1>26, <1>27, <1>28
     DEF EditStep
<1> QED
  BY <1>21, <1>22, <1>23, <1>40, <1>29, <1>30, <1>31, <1>32, <1>33, <1>34
     DEF Next

-----------------------------------------------------------------------------
\* A step that leaves the progress alone and neither enters nor leaves a build.
LEMMA ProgressFrame ==
  ASSUME ProgressIsHonest, NEW q \in Queries, NEW S, Moved(q, S),
         progress' = progress,
         pc[q] \in BuildSteps <=> pc'[q] \in BuildSteps
  PROVE  ProgressIsHonest'
<1>1. \A p \in Queries : pc[p] \in BuildSteps <=> pc'[p] \in BuildSteps
  BY DEF Moved
<1> QED
  BY <1>1 DEF ProgressIsHonest

\* The build mark follows the one thread that builds: only the holder of the
\* build lock is in a build, so the end of its build is the end of all builds.
LEMMA ProgressStep ==
  /\ TypeOK /\ LocksMatchSteps /\ ProgressIsHonest
  /\ [Next]_vars
  => ProgressIsHonest'
<1> SUFFICES ASSUME TypeOK, LocksMatchSteps, ProgressIsHonest, [Next]_vars
             PROVE  ProgressIsHonest'
  OBVIOUS
<1>1. ASSUME NEW q \in Queries, ReadFingerprint(q)
      PROVE  ProgressIsHonest'
  <2>1. Moved(q, {"sources"})
    BY <1>1, QueryMoves DEF ReadFingerprint, Moved
  <2> QED
    BY <1>1, <2>1, ProgressFrame DEF ReadFingerprint, Moved, BuildSteps, status
<1>2. ASSUME NEW q \in Queries, LoadSources(q)
      PROVE  ProgressIsHonest'
  <2>1. Moved(q, {"revision"})
    BY <1>2, QueryMoves DEF LoadSources, Moved
  <2> QED
    BY <1>2, <2>1, ProgressFrame DEF LoadSources, Moved, BuildSteps, status
<1>3. ASSUME NEW q \in Queries, ReadRevision(q)
      PROVE  ProgressIsHonest'
  <2>1. Moved(q, {"insight"})
    BY <1>3, QueryMoves DEF ReadRevision, Moved
  <2> QED
    BY <1>3, <2>1, ProgressFrame DEF ReadRevision, Moved, BuildSteps, status
<1>4. ASSUME NEW q \in Queries, CloneInsight(q)
      PROVE  ProgressIsHonest'
  <2>1. Moved(q, {"calls"})
    BY <1>4, QueryMoves DEF CloneInsight, Moved
  <2> QED
    BY <1>4, <2>1, ProgressFrame DEF CloneInsight, Moved, BuildSteps, status
<1>5. ASSUME NEW q \in Queries, LockCalls(q)
      PROVE  ProgressIsHonest'
  <2>1. CASE Return(q)
    <3>1. Moved(q, {"idle"})
      BY <2>1, ReturnTyped
    <3> QED
      BY <1>5, <3>1, ProgressFrame DEF LockCalls, Moved, BuildSteps, status
  <2>2. CASE ~Return(q)
    <3>1. Moved(q, {"check"})
      BY <1>5, <2>2, QueryMoves DEF LockCalls, Moved
    <3> QED
      BY <1>5, <3>1, ProgressFrame DEF LockCalls, Moved, BuildSteps, status
  <2> QED
    BY <2>1, <2>2
<1>6. ASSUME NEW q \in Queries, Check(q)
      PROVE  ProgressIsHonest'
  <2>1. Moved(q, {"held", "tag", "lock"})
    BY <1>6, QueryMoves DEF Check, Moved
  <2> QED
    BY <1>6, <2>1, ProgressFrame DEF Check, Moved, BuildSteps, status
<1>7. ASSUME NEW q \in Queries, AcquireBuildLock(q)
      PROVE  ProgressIsHonest'
  <2>1. CASE Return(q)
    <3>1. Moved(q, {"idle"})
      BY <2>1, ReturnTyped
    <3> QED
      BY <1>7, <3>1, ProgressFrame
         DEF AcquireBuildLock, Moved, BuildSteps, status
  <2>2. CASE ~Return(q)
    <3>1. Moved(q, {"fingerprint"})
      BY <1>7, <2>2, QueryMoves DEF AcquireBuildLock, AfterBuildLock, Moved
    <3> QED
      BY <1>7, <3>1, ProgressFrame
         DEF AcquireBuildLock, Moved, BuildSteps, status
  <2> QED
    BY <2>1, <2>2
<1>8. ASSUME NEW q \in Queries, TagBuild(q)
      PROVE  ProgressIsHonest'
  <2>1. Moved(q, {"nodes"})
    BY <1>8, QueryMoves DEF TagBuild
  <2> QED
    BY <1>8, <2>1 DEF TagBuild, Moved, ProgressIsHonest, BuildSteps
<1>9. ASSUME NEW q \in Queries, BuildNodes(q)
      PROVE  ProgressIsHonest'
  <2>1. Moved(q, {"edges"})
    BY <1>9, QueryMoves DEF BuildNodes, Moved
  <2> QED
    BY <1>9, <2>1, ProgressFrame DEF BuildNodes, Moved, BuildSteps, status
<1>10. ASSUME NEW q \in Queries, BuildEdges(q)
      PROVE  ProgressIsHonest'
  <2>1. Moved(q, {"publish_insight"})
    BY <1>10, QueryMoves DEF BuildEdges, Moved
  <2> QED
    BY <1>10, <2>1, ProgressFrame DEF BuildEdges, Moved, BuildSteps, status
<1>11. ASSUME NEW q \in Queries, PublishInsight(q)
      PROVE  ProgressIsHonest'
  <2>1. Moved(q, {"publish_calls"})
    BY <1>11, QueryMoves DEF PublishInsight, Moved
  <2> QED
    BY <1>11, <2>1, ProgressFrame DEF PublishInsight, Moved, BuildSteps, status
<1>12. ASSUME NEW q \in Queries, PublishCalls(q)
      PROVE  ProgressIsHonest'
  <2>1. CASE Return(q)
    <3>1. Moved(q, {"idle"})
      BY <2>1, ReturnTyped
    <3>2. \A p \in Queries \ {q} : pc[p] \notin BuildSteps
      BY <1>12 DEF PublishCalls, LocksMatchSteps, BuildSteps
    <3>3. progress' = "Failed"
      BY <1>12, <3>1 DEF PublishCalls, Goto, Moved, TypeOK
    <3> QED
      BY <3>1, <3>2, <3>3 DEF Moved, ProgressIsHonest, BuildSteps
  <2>2. CASE ~Return(q)
    <3>1. Moved(q, {"publish_all"})
      BY <1>12, <2>2, QueryMoves DEF PublishCalls
    <3> QED
      BY <1>12, <2>2, <3>1, ProgressFrame DEF PublishCalls, Moved, BuildSteps
  <2> QED
    BY <2>1, <2>2
<1>13. ASSUME NEW q \in Queries, PublishAll(q)
      PROVE  ProgressIsHonest'
  <2>1. Moved(q, {"mark"})
    BY <1>13, QueryMoves DEF PublishAll, Moved
  <2> QED
    BY <1>13, <2>1, ProgressFrame DEF PublishAll, Moved, BuildSteps, status
<1>14. ASSUME NEW q \in Queries, MarkReady(q)
      PROVE  ProgressIsHonest'
  <2>1. Moved(q, {"reread"})
    BY <1>14, QueryMoves DEF MarkReady
  <2>2. \A p \in Queries \ {q} : pc[p] \notin BuildSteps
    BY <1>14 DEF MarkReady, LocksMatchSteps, BuildSteps
  <2> QED
    BY <1>14, <2>1, <2>2 DEF MarkReady, Moved, ProgressIsHonest, BuildSteps
<1>15. ASSUME NEW q \in Queries, Reread(q)
      PROVE  ProgressIsHonest'
  <2>1. CASE Return(q)
    <3>1. Moved(q, {"idle"})
      BY <2>1, ReturnTyped
    <3> QED
      BY <1>15, <3>1, ProgressFrame DEF Reread, Moved, BuildSteps, status
  <2>2. CASE ~Return(q)
    <3>1. Moved(q, {"held"})
      BY <1>15, <2>2, QueryMoves DEF Reread, Moved
    <3> QED
      BY <1>15, <3>1, ProgressFrame DEF Reread, Moved, BuildSteps, status
  <2> QED
    BY <2>1, <2>2
<1>16. ASSUME NEW q \in Queries, DropGuard(q)
      PROVE  ProgressIsHonest'
  <2>1. CASE Return(q)
    <3>1. Moved(q, {"idle"})
      BY <2>1, ReturnTyped
    <3> QED
      BY <1>16, <3>1, ProgressFrame DEF DropGuard, Moved, BuildSteps, status
  <2>2. CASE ~Return(q)
    <3>1. Moved(q, {"relock"})
      BY <1>16, <2>2, QueryMoves DEF DropGuard, Moved
    <3> QED
      BY <1>16, <3>1, ProgressFrame DEF DropGuard, Moved, BuildSteps, status
  <2> QED
    BY <2>1, <2>2
<1>17. ASSUME NEW q \in Queries, FillLock(q)
      PROVE  ProgressIsHonest'
  <2>1. CASE Return(q)
    <3>1. Moved(q, {"idle"})
      BY <2>1, ReturnTyped
    <3> QED
      BY <1>17, <3>1, ProgressFrame DEF FillLock, Moved, BuildSteps, status
  <2>2. CASE ~Return(q)
    <3>1. Moved(q, {"fill_insight"})
      BY <1>17, <2>2, QueryMoves DEF FillLock, Moved
    <3> QED
      BY <1>17, <3>1, ProgressFrame DEF FillLock, Moved, BuildSteps, status
  <2> QED
    BY <2>1, <2>2
<1>18. ASSUME NEW q \in Queries, FillInsight(q)
      PROVE  ProgressIsHonest'
  <2>1. CASE Return(q)
    <3>1. Moved(q, {"idle"})
      BY <2>1, ReturnTyped
    <3> QED
      BY <1>18, <3>1, ProgressFrame DEF FillInsight, Moved, BuildSteps, status
  <2>2. CASE ~Return(q)
    <3>1. Moved(q, {"fill_calls"})
      BY <1>18, <2>2, QueryMoves DEF FillInsight, Moved
    <3> QED
      BY <1>18, <3>1, ProgressFrame DEF FillInsight, Moved, BuildSteps, status
  <2> QED
    BY <2>1, <2>2
<1>19. ASSUME NEW q \in Queries, FillCalls(q)
      PROVE  ProgressIsHonest'
  <2>1. CASE Return(q)
    <3>1. Moved(q, {"idle"})
      BY <2>1, ReturnTyped
    <3> QED
      BY <1>19, <3>1, ProgressFrame DEF FillCalls, Moved, BuildSteps, status
  <2>2. CASE ~Return(q)
    <3>1. Moved(q, {"fill"})
      BY <1>19, <2>2, QueryMoves DEF FillCalls, Moved
    <3> QED
      BY <1>19, <3>1, ProgressFrame DEF FillCalls, Moved, BuildSteps, status
  <2> QED
    BY <2>1, <2>2
<1>20. ASSUME NEW q \in Queries, Fill(q)
      PROVE  ProgressIsHonest'
  <2>1. Moved(q, {"idle"})
    BY <1>20, ReturnTyped DEF Fill
  <2> QED
    BY <1>20, <2>1, ProgressFrame DEF Fill, Moved, BuildSteps, status
<1>21. ASSUME NEW q \in Queries, NEW m \in {"query", "complete"},
             Begin(q, m)
      PROVE  ProgressIsHonest'
  <2>1. Moved(q, {"fingerprint"})
    BY <1>21, QueryMoves DEF Begin, Moved
  <2> QED
    BY <1>21, <2>1, ProgressFrame DEF Begin, Moved, BuildSteps, status
<1>22. ASSUME NEW q \in Queries, NEW panic \in BOOLEAN,
             BuildFails(q, panic)
      PROVE  ProgressIsHonest'
  <2>1. Moved(q, {"idle"})
    BY <1>22, ReturnTyped DEF BuildFails
  <2>2. \A p \in Queries \ {q} : pc[p] \notin BuildSteps
    BY <1>22 DEF BuildFails, LocksMatchSteps, BuildSteps
  <2> QED
    BY <1>22, <2>1, <2>2 DEF BuildFails, Moved, ProgressIsHonest, BuildSteps
<1>23. ASSUME NEW q \in Queries, NEW panic \in BOOLEAN,
             FillFails(q, panic)
      PROVE  ProgressIsHonest'
  <2>1. Moved(q, {"idle"})
    BY <1>23, ReturnTyped DEF FillFails
  <2> QED
    BY <1>23, <2>1, ProgressFrame DEF FillFails, Moved, BuildSteps, status
<1>40. ASSUME NEW q \in Queries, NEW panic \in BOOLEAN,
             SourcesFail(q, panic)
      PROVE  ProgressIsHonest'
  <2>1. Moved(q, {"idle"})
    BY <1>40, ReturnTyped DEF SourcesFail
  <2> QED
    BY <1>40, <2>1, ProgressFrame DEF SourcesFail, Moved, BuildSteps, status
<1>24. ASSUME NEW e \in Editors, BumpRevisions(e)
      PROVE  ProgressIsHonest'
  <2>1. \A p \in Queries : pc'[p] = pc[p]
    BY <1>24, EditorMoves, ThreadsAssumption DEF BumpRevisions, Moved
  <2> QED
    BY <1>24, <2>1 DEF BumpRevisions, ProgressIsHonest, status
<1>25. ASSUME NEW e \in Editors, ResetInsight(e)
      PROVE  ProgressIsHonest'
  <2>1. \A p \in Queries : pc'[p] = pc[p]
    BY <1>25, EditorMoves, ThreadsAssumption DEF ResetInsight, Moved
  <2> QED
    BY <1>25, <2>1 DEF ResetInsight, ProgressIsHonest, status
<1>26. ASSUME NEW e \in Editors, ResetCalls(e)
      PROVE  ProgressIsHonest'
  <2>1. \A p \in Queries : pc'[p] = pc[p]
    BY <1>26, EditorMoves, ThreadsAssumption DEF ResetCalls, Moved
  <2> QED
    BY <1>26, <2>1 DEF ResetCalls, ProgressIsHonest, status
<1>27. ASSUME NEW e \in Editors, ResetCallsRev(e)
      PROVE  ProgressIsHonest'
  <2>1. \A p \in Queries : pc'[p] = pc[p]
    BY <1>27, EditorMoves, ThreadsAssumption DEF ResetCallsRev, Moved
  <2> QED
    BY <1>27, <2>1 DEF ResetCallsRev, ProgressIsHonest, status
<1>28. ASSUME NEW e \in Editors, ResetFingerprint(e)
      PROVE  ProgressIsHonest'
  <2>1. \A p \in Queries : pc'[p] = pc[p]
    BY <1>28, EditorMoves, ThreadsAssumption DEF ResetFingerprint, Moved
  <2> QED
    BY <1>28, <2>1 DEF ResetFingerprint, ProgressIsHonest, status
<1>29. ASSUME NEW e \in Editors, EditBody(e)
      PROVE  ProgressIsHonest'
  <2>1. \A p \in Queries : pc'[p] = pc[p]
    BY <1>29, EditorMoves, ThreadsAssumption DEF EditBody, Moved
  <2> QED
    BY <1>29, <2>1 DEF EditBody, ProgressIsHonest, status
<1>30. ASSUME NEW e \in Editors, EditTopology(e)
      PROVE  ProgressIsHonest'
  <2>1. \A p \in Queries : pc'[p] = pc[p]
    BY <1>30, EditorMoves, ThreadsAssumption DEF EditTopology, Moved
  <2> QED
    BY <1>30, <2>1 DEF EditTopology, ProgressIsHonest, status
<1>31. CASE ReplacePackage
  BY <1>31 DEF ReplacePackage, ProgressIsHonest, status
<1>32. CASE UNCHANGED vars
  BY <1>32 DEF vars, ProgressIsHonest, status
<1>33. ASSUME NEW q \in Queries, QueryStep(q) PROVE ProgressIsHonest'
  BY <1>33, <1>1, <1>2, <1>3, <1>4, <1>5, <1>6, <1>7, <1>8, <1>9, <1>10, <1>11,
     <1>12, <1>13, <1>14, <1>15, <1>16, <1>17, <1>18, <1>19, <1>20,
     <1>40 DEF QueryStep
<1>34. ASSUME NEW e \in Editors, EditStep(e) PROVE ProgressIsHonest'
  BY <1>34, <1>24, <1>25, <1>26, <1>27, <1>28
     DEF EditStep
<1> QED
  BY <1>21, <1>22, <1>23, <1>40, <1>29, <1>30, <1>31, <1>32, <1>33, <1>34
     DEF Next

-----------------------------------------------------------------------------
\* A workspace starts with empty caches, free locks and no request.
LEMMA InitInv == Init => GraphInv
<1> SUFFICES ASSUME Init PROVE GraphInv
  OBVIOUS
<1>1. TypeOK
  <2>1. NoInsight \in Insights /\ NoCalls \in CallGraphs
    BY DEF NoInsight, Insights, NoCalls, CallGraphs
  <2>2. /\ edit \in [Editors -> [version : Nat, topology : BOOLEAN]]
        /\ depCache \in [fp : Nat \cup {Nothing}, content : Nat]
    BY DEF Init, NewEdit
  <2>3. StepsTyped
    BY ThreadsAssumption DEF Init, StepsTyped, QuerySteps, EditSteps
  <2>4. LocalsTyped
    BY <2>1 DEF Init, LocalsTyped
  <2>5. ackAt \in [0..callRev -> Nat]
    BY DEF Init
  <2> QED
    BY <2>1, <2>2, <2>3, <2>4, <2>5
       DEF Init, TypeOK, StepsTyped, LocalsTyped
<1>2. \A q \in Queries : pc[q] = "idle"
  BY DEF Init
<1>3. LocksMatchSteps
  BY <1>2 DEF Init, LocksMatchSteps, BuildSteps, FillSteps, GraphLocks
<1>4. VersionsInOrder
  <2>1. 0..callRev = {0} /\ ackAt[callRev] = 0 /\ ackAt[0] = 0
    BY DEF Init
  <2>2. \A e \in Editors : edit[e].version = 0
    BY DEF Init, NewEdit
  <2> QED
    BY <2>1, <2>2 DEF Init, VersionsInOrder
<1>5. SourcesInOrder /\ RevisionsCoverNeeds
  BY <1>2 DEF Init, SourcesInOrder, RevisionsCoverNeeds, BuildSteps
<1>6. CacheInv
  BY <1>2
     DEF Init, CacheInv, CacheCoversItsTag, BuildLockPinsCache,
         CacheIsOneBuild, FilledFromItsInsight, ServedCallGraphIsFresh,
         ServedSourcesAreFresh, NoCalls
<1>7. ProgressIsHonest
  BY <1>2 DEF Init, ProgressIsHonest, BuildSteps
<1> QED
  BY <1>1, <1>3, <1>4, <1>5, <1>6, <1>7 DEF GraphInv, CacheInv

\* GraphInv is inductive: the lemmas above, each from the layers below it.
LEMMA StepInv == GraphInv /\ [Next]_vars => GraphInv'
<1> SUFFICES ASSUME GraphInv, [Next]_vars PROVE GraphInv'
  OBVIOUS
<1>1. TypeOK /\ LocksMatchSteps /\ OrderInv /\ CacheInv /\ ProgressIsHonest
  BY DEF GraphInv, OrderInv, CacheInv
<1>2. TypeOK' /\ LocksMatchSteps' /\ OrderInv' /\ CacheInv' /\ ProgressIsHonest'
  BY <1>1, TypesStep, LocksStep, OrderStep, CacheStep, ProgressStep
<1> QED
  BY <1>2 DEF GraphInv, OrderInv, CacheInv

\* The inductive invariant holds in every state of every behaviour, for any
\* number of query and editor threads and any bounds on what they do.
THEOREM GraphInvariant == Spec => []GraphInv
BY InitInv, StepInv, PTL DEF Spec

\* The caches, locks, revisions and locals keep their types; in particular a
\* tag is a revision or nothing and every thread is at a step of its code.
THEOREM Typed == Spec => []TypeOK
<1>1. GraphInv => TypeOK
  BY DEF GraphInv
<1> QED
  BY <1>1, GraphInvariant, PTL

\* get_or_build_call_graph never hands out a call graph that misses an edit
\* acknowledged before the request started: reading the revision tag before
\* the indexes and comparing it on every lookup is enough, with any number of
\* threads.
THEOREM FreshCallGraph == Spec => []ServedCallGraphIsFresh
<1>1. GraphInv => ServedCallGraphIsFresh
  BY DEF GraphInv
<1> QED
  BY <1>1, GraphInvariant, PTL

\* get_or_build_call_graph never hands out dependency sources older than the
\* packages on disk when the request started, because the fingerprint is taken
\* before the packages are read.
THEOREM FreshSources == Spec => []ServedSourcesAreFresh
<1>1. GraphInv => ServedSourcesAreFresh
  BY DEF GraphInv
<1> QED
  BY <1>1, GraphInvariant, PTL

\* Publication under both write locks and invalidation one lock at a time
\* never leave graphs of two builds side by side in the cache.
THEOREM OneBuildCached == Spec => []CacheIsOneBuild
<1>1. GraphInv => CacheIsOneBuild
  BY DEF GraphInv
<1> QED
  BY <1>1, GraphInvariant, PTL

\* The build lock keeps complete_workspace_call_edges from numbering edges by
\* the insight graph of another build.
THEOREM EdgesOfOneBuild == Spec => []FilledFromItsInsight
<1>1. GraphInv => FilledFromItsInsight
  BY DEF GraphInv
<1> QED
  BY <1>1, GraphInvariant, PTL

\* The progress reported to status says building exactly while a thread
\* builds, on every path out of a build.
THEOREM HonestProgress == Spec => []ProgressIsHonest
<1>1. GraphInv => ProgressIsHonest
  BY DEF GraphInv
<1> QED
  BY <1>1, GraphInvariant, PTL

=============================================================================
