------------------------- MODULE GraphServiceProofs -------------------------
(***************************************************************************)
(* Three promises of get_or_build_call_graph, proved for every set of      *)
(* threads and every bound from the invariant of GraphCacheProofs: it      *)
(* implements GraphService, it never builds twice for one cause, and its   *)
(* waits for locks never form a circle.                                    *)
(*                                                                         *)
(* Refinement. A step of the code is seen by the service as a step of one  *)
(* caller or as none. What the mapping needs from the invariant is that a  *)
(* call graph handed out is new enough (ServedCallGraphIsFresh), that none *)
(* comes from the future (FilesInOrder, proved here), and that nobody      *)
(* holds a guard while the cached graph is replaced, filled or reset       *)
(* (LocksMatchSteps).                                                      *)
(*                                                                         *)
(* Single flight.  That a build has a cause of its own is a matter of      *)
(* credit: FlightInv says what must be left over at every step of the      *)
(* thread that holds the build lock.                                       *)
(*                                                                         *)
(* Lock order.  A thread that holds a lock is at a step where it waits for *)
(* none, or for one later in the order (HoldersAtWork).                    *)
(***************************************************************************)
EXTENDS GraphCacheProofs

\* No graph contains an edit that has not been made.
FilesInOrder ==
    /\ cg.files <= files
    /\ \A q \in Queries : new[q].files <= files

\* The steps at which the service sees a thread as idle.
AtRest == {"idle", "relock"} \cup FillSteps

\* The calls as the service sees them.
Calls == [q \in Queries |-> CallState(q)]

ServiceStep == [Service!Next]_(Service!vars)

-----------------------------------------------------------------------------
\* Only the thread that moves changes its call, unless the cached graph
\* changes, and then no thread has it in its hands.
LEMMA OneCallMoves ==
  ASSUME TypeOK, LocksMatchSteps,
         NEW q \in Queries, NEW S, Moved(q, S),
         \A o \in Queries \ {q} : need'[o] = need[o],
         cg' = cg \/ readers = {}
  PROVE  Calls' = [Calls EXCEPT ![q] = Calls'[q]]
<1>1. ASSUME NEW c \in Queries \ {q} PROVE Calls'[c] = Calls[c]
  <2>1. pc'[c] = pc[c] /\ need'[c] = need[c]
    BY DEF Moved
  <2>2. pc[c] = "held" => cg' = cg
    BY DEF LocksMatchSteps
  <2> QED
    BY <2>1, <2>2 DEF Calls, CallState
<1>2. /\ Calls = [o \in Queries |-> Calls[o]]
      /\ Calls' = [o \in Queries |-> Calls'[o]]
  BY DEF Calls
<1> QED
  BY <1>1, <1>2

\* A step inside a request, or of a thread at rest, is invisible.
LEMMA Invisible ==
  ASSUME TypeOK, LocksMatchSteps,
         NEW q \in Queries, NEW S, Moved(q, S),
         UNCHANGED <<files, callRev, ackAt, need>>,
         cg' = cg \/ readers = {},
         \/ pc[q] \in AnsweringSteps /\ pc'[q] \in AnsweringSteps
         \/ pc[q] \in AtRest /\ pc'[q] \in AtRest
  PROVE  ServiceStep
<1>1. Calls'[q] = Calls[q]
  BY DEF Calls, CallState, AnsweringSteps, AtRest, BuildSteps, FillSteps
<1>2. Calls' = [Calls EXCEPT ![q] = Calls'[q]]
  BY OneCallMoves
<1>3. Calls' = Calls
  BY <1>1, <1>2 DEF Calls
<1> QED
  BY <1>3 DEF ServiceStep, Service!vars, Calls

\* A return gives the answer back, or gives the request up.
LEMMA Releases ==
  ASSUME TypeOK, LocksMatchSteps,
         NEW q \in Queries, Return(q),
         UNCHANGED <<files, callRev, ackAt>>,
         cg' = cg \/ readers = {}
  PROVE  ServiceStep
<1>1. Moved(q, {"idle"})
  BY ReturnTyped
<1>2. Calls'[q] = Service!Idle
  BY <1>1
     DEF Moved, Calls, CallState, AnsweringSteps, BuildSteps, Service!Idle
<1>3. \A o \in Queries \ {q} : need'[o] = need[o]
  BY DEF Return, Forget, TypeOK
<1>4. Calls' = [Calls EXCEPT ![q] = Service!Idle]
  BY <1>1, <1>2, <1>3, OneCallMoves
<1>5. CASE Calls[q] = Service!Idle
  <2>1. Calls' = Calls
    BY <1>4, <1>5 DEF Calls
  <2> QED
    BY <2>1 DEF ServiceStep, Service!vars, Calls
<1>6. CASE Calls[q] # Service!Idle
  <2>1. Service!Release(q)
    BY <1>4, <1>6 DEF Service!Release, Calls
  <2> QED
    BY <2>1 DEF ServiceStep, Service!Next
<1> QED
  BY <1>5, <1>6

\* A thread that takes its guard on the cached call graph is answered: with
\* the graph, which is new enough and not from the future, or with nothing.
LEMMA Answers ==
  ASSUME TypeOK, LocksMatchSteps, FilesInOrder, ServedCallGraphIsFresh',
         NEW q \in Queries, Moved(q, {"held"}),
         pc[q] \in AnsweringSteps,
         UNCHANGED <<files, callRev, ackAt, need, cg>>
  PROVE  ServiceStep
<1>1. Calls[q] = [at |-> "asked", need |-> need[q], got |-> 0]
  BY DEF Calls, CallState
<1>2. Calls' = [Calls EXCEPT ![q] = Calls'[q]]
  BY OneCallMoves
<1>3. pc'[q] = "held" /\ "held" \notin AnsweringSteps
  BY DEF Moved, AnsweringSteps, BuildSteps
<1>4. CASE cg = NoCalls
  <2>1. Calls'[q] = [at |-> "empty", need |-> need[q], got |-> 0]
    BY <1>3, <1>4 DEF Calls, CallState
  <2>2. Calls' = [Calls EXCEPT ![q].at = "empty"]
    BY <1>1, <1>2, <2>1
  <2>3. Service!AnswerEmpty(q)
    BY <1>1, <2>2 DEF Service!AnswerEmpty, Calls
  <2> QED
    BY <2>3 DEF ServiceStep, Service!Next
<1>5. CASE cg # NoCalls
  <2>1. Calls'[q] = [at |-> "answered", need |-> need[q], got |-> cg.files]
    BY <1>3, <1>5 DEF Calls, CallState
  <2>2. cg.files \in need[q]..files
    <3>1. cg.files >= need[q]
      BY <1>3, <1>5 DEF ServedCallGraphIsFresh
    <3> QED
      BY <3>1 DEF FilesInOrder, TypeOK, CallGraphs
  <2>3. Calls' = [Calls EXCEPT ![q].at = "answered", ![q].got = cg.files]
    <3>1. Calls'[q] =
            [[Calls[q] EXCEPT !.at = "answered"] EXCEPT !.got = cg.files]
      <4>1. [Calls[q] EXCEPT !.at = "answered"] =
              [at |-> "answered", need |-> need[q], got |-> 0]
        BY <1>1
      <4>2. [[at |-> "answered", need |-> need[q], got |-> 0]
               EXCEPT !.got = cg.files] =
              [at |-> "answered", need |-> need[q], got |-> cg.files]
        OBVIOUS
      <4> QED
        BY <2>1, <4>1, <4>2
    <3>2. q \in DOMAIN Calls
      BY DEF Calls
    <3> HIDE DEF Calls
    <3> QED
      BY <1>2, <3>1, <3>2
  <2>4. Service!Answer(q)
    <3>1. \E v \in Calls[q].need..files :
            Calls' = [Calls EXCEPT ![q].at = "answered", ![q].got = v]
      <4>1. cg.files \in Calls[q].need..files
        BY <1>1, <2>2
      <4> QED
        BY <2>3, <4>1
    <3>2. Calls[q].at = "asked"
      BY <1>1
    <3> QED
      BY <3>1, <3>2, Zenon DEF Service!Answer, Calls
  <2> QED
    BY <2>4 DEF ServiceStep, Service!Next
<1> QED
  BY <1>4, <1>5

\* Every step of every thread is a step of the service or invisible to it.
LEMMA RefinesStep ==
  GraphInv /\ GraphInv' /\ FilesInOrder /\ [Next]_vars => ServiceStep
<1> SUFFICES ASSUME GraphInv, GraphInv', FilesInOrder, [Next]_vars
             PROVE  ServiceStep
  OBVIOUS
<1>a. /\ TypeOK /\ LocksMatchSteps /\ ServedCallGraphIsFresh'
      /\ VersionsInOrder
  BY DEF GraphInv
<1> USE <1>a

<1>1. ASSUME NEW q \in Queries, ReadFingerprint(q)
      PROVE  ServiceStep
  <2>1. Moved(q, {"sources"})
    BY <1>1, QueryMoves DEF ReadFingerprint
  <2>2. UNCHANGED <<files, callRev, ackAt, need, cg>>
    BY <1>1, Zenon
       DEF ReadFingerprint, data, revs, cache, ghosts, needs, locals
  <2>3. pc[q] = "fingerprint" /\ pc'[q] = "sources"
    BY <1>1, <2>1 DEF ReadFingerprint, Moved
  <2> QED
    BY <2>1, <2>2, <2>3, Invisible DEF AnsweringSteps, BuildSteps
<1>2. ASSUME NEW q \in Queries, LoadSources(q)
      PROVE  ServiceStep
  <2>1. Moved(q, {"revision"})
    BY <1>2, QueryMoves DEF LoadSources
  <2>2. UNCHANGED <<files, callRev, ackAt, need, cg>>
    BY <1>2, Zenon
       DEF LoadSources, data, revs, cache, ghosts, needs, locals
  <2>3. pc[q] = "sources" /\ pc'[q] = "revision"
    BY <1>2, <2>1 DEF LoadSources, Moved
  <2> QED
    BY <2>1, <2>2, <2>3, Invisible DEF AnsweringSteps, BuildSteps
<1>3. ASSUME NEW q \in Queries, ReadRevision(q)
      PROVE  ServiceStep
  <2>1. Moved(q, {"insight"})
    BY <1>3, QueryMoves DEF ReadRevision
  <2>2. UNCHANGED <<files, callRev, ackAt, need, cg>>
    BY <1>3, Zenon
       DEF ReadRevision, data, revs, cache, ghosts, needs, locals
  <2>3. pc[q] = "revision" /\ pc'[q] = "insight"
    BY <1>3, <2>1 DEF ReadRevision, Moved
  <2> QED
    BY <2>1, <2>2, <2>3, Invisible DEF AnsweringSteps, BuildSteps
<1>4. ASSUME NEW q \in Queries, CloneInsight(q)
      PROVE  ServiceStep
  <2>1. Moved(q, {"calls"})
    BY <1>4, QueryMoves DEF CloneInsight
  <2>2. UNCHANGED <<files, callRev, ackAt, need, cg>>
    BY <1>4, Zenon
       DEF CloneInsight, data, revs, cache, ghosts, needs, locals
  <2>3. pc[q] = "insight" /\ pc'[q] = "calls"
    BY <1>4, <2>1 DEF CloneInsight, Moved
  <2> QED
    BY <2>1, <2>2, <2>3, Invisible DEF AnsweringSteps, BuildSteps
<1>5. ASSUME NEW q \in Queries, LockCalls(q)
      PROVE  ServiceStep
  <2>1. UNCHANGED <<files, callRev, ackAt, cg>>
    BY <1>5, Zenon DEF LockCalls, data, revs, cache, ghosts
  <2>2. CASE Return(q)
    BY <2>1, <2>2, Releases
  <2>3. CASE ~Return(q)
    <3>1. Moved(q, {"check"})
      BY <1>5, <2>3, QueryMoves DEF LockCalls
    <3>2. need' = need
      BY <1>5, <2>3, Zenon DEF LockCalls, needs, locals
    <3>3. pc[q] = "calls" /\ pc'[q] = "check"
      BY <1>5, <3>1 DEF LockCalls, Moved
    <3> QED
      BY <2>1, <3>1, <3>2, <3>3, Invisible DEF AnsweringSteps, BuildSteps
  <2> QED
    BY <2>2, <2>3
<1>6. ASSUME NEW q \in Queries, Check(q)
      PROVE  ServiceStep
  <2>1. UNCHANGED <<files, callRev, ackAt, need, cg>>
    BY <1>6, Zenon
       DEF Check, data, revs, cache, ghosts, needs, locals
  <2>2. pc[q] = "check" /\ "check" \in AnsweringSteps
    BY <1>6 DEF Check, AnsweringSteps
  <2>3. CASE IsHit(q)
    <3>1. Moved(q, {"held"})
      BY <1>6, <2>3, QueryMoves DEF Check
    <3> QED
      BY <2>1, <2>2, <3>1, Answers
  <2>4. CASE ~IsHit(q)
    <3>1. Moved(q, {IF q \in buildLock THEN "tag" ELSE "lock"})
      BY <1>6, <2>4, QueryMoves DEF Check
    <3>2. pc'[q] \in AnsweringSteps
      BY <3>1 DEF Moved, AnsweringSteps
    <3> QED
      BY <2>1, <2>2, <3>1, <3>2, Invisible
  <2> QED
    BY <2>3, <2>4
<1>7. ASSUME NEW q \in Queries, AcquireBuildLock(q)
      PROVE  ServiceStep
  <2>1. UNCHANGED <<files, callRev, ackAt, cg>>
    BY <1>7, Zenon DEF AcquireBuildLock, data, revs, cache, ghosts
  <2>2. CASE Return(q)
    BY <2>1, <2>2, Releases
  <2>3. CASE ~Return(q)
    <3>1. Moved(q, {"fingerprint"})
      BY <1>7, <2>3, QueryMoves DEF AcquireBuildLock, AfterBuildLock
    <3>2. need' = need
      BY <1>7, <2>3, Zenon DEF AcquireBuildLock, needs, locals
    <3>3. pc[q] = "lock" /\ pc'[q] = "fingerprint"
      BY <1>7, <3>1 DEF AcquireBuildLock, Moved
    <3> QED
      BY <2>1, <3>1, <3>2, <3>3, Invisible DEF AnsweringSteps, BuildSteps
  <2> QED
    BY <2>2, <2>3
<1>8. ASSUME NEW q \in Queries, TagBuild(q)
      PROVE  ServiceStep
  <2>1. Moved(q, {"nodes"})
    BY <1>8, QueryMoves DEF TagBuild
  <2>2. UNCHANGED <<files, callRev, ackAt, need, cg>>
    BY <1>8, Zenon
       DEF TagBuild, data, revs, cache, ghosts, needs, locals
  <2>3. pc[q] = "tag" /\ pc'[q] = "nodes"
    BY <1>8, <2>1 DEF TagBuild, Moved
  <2> QED
    BY <2>1, <2>2, <2>3, Invisible DEF AnsweringSteps, BuildSteps
<1>9. ASSUME NEW q \in Queries, BuildNodes(q)
      PROVE  ServiceStep
  <2>1. Moved(q, {"edges"})
    BY <1>9, QueryMoves DEF BuildNodes
  <2>2. UNCHANGED <<files, callRev, ackAt, need, cg>>
    BY <1>9, Zenon
       DEF BuildNodes, data, revs, cache, ghosts, needs, locals
  <2>3. pc[q] = "nodes" /\ pc'[q] = "edges"
    BY <1>9, <2>1 DEF BuildNodes, Moved
  <2> QED
    BY <2>1, <2>2, <2>3, Invisible DEF AnsweringSteps, BuildSteps
<1>10. ASSUME NEW q \in Queries, BuildEdges(q)
      PROVE  ServiceStep
  <2>1. Moved(q, {"publish_insight"})
    BY <1>10, QueryMoves DEF BuildEdges
  <2>2. UNCHANGED <<files, callRev, ackAt, need, cg>>
    BY <1>10, Zenon
       DEF BuildEdges, data, revs, cache, ghosts, needs, locals
  <2>3. pc[q] = "edges" /\ pc'[q] = "publish_insight"
    BY <1>10, <2>1 DEF BuildEdges, Moved
  <2> QED
    BY <2>1, <2>2, <2>3, Invisible DEF AnsweringSteps, BuildSteps
<1>11. ASSUME NEW q \in Queries, PublishInsight(q)
      PROVE  ServiceStep
  <2>1. Moved(q, {"publish_calls"})
    BY <1>11, QueryMoves DEF PublishInsight
  <2>2. UNCHANGED <<files, callRev, ackAt, need, cg>>
    BY <1>11, Zenon
       DEF PublishInsight, data, revs, cache, ghosts, needs, locals
  <2>3. pc[q] = "publish_insight" /\ pc'[q] = "publish_calls"
    BY <1>11, <2>1 DEF PublishInsight, Moved
  <2> QED
    BY <2>1, <2>2, <2>3, Invisible DEF AnsweringSteps, BuildSteps
<1>12. ASSUME NEW q \in Queries, PublishCalls(q)
      PROVE  ServiceStep
  <2>1. UNCHANGED <<files, callRev, ackAt, cg>>
    BY <1>12, Zenon DEF PublishCalls, data, revs, cache, ghosts
  <2>2. CASE Return(q)
    BY <2>1, <2>2, Releases
  <2>3. CASE ~Return(q)
    <3>1. Moved(q, {"publish_all"})
      BY <1>12, <2>3, QueryMoves DEF PublishCalls
    <3>2. need' = need
      BY <1>12, <2>3, Zenon DEF PublishCalls, needs, locals
    <3>3. pc[q] = "publish_calls" /\ pc'[q] = "publish_all"
      BY <1>12, <3>1 DEF PublishCalls, Moved
    <3> QED
      BY <2>1, <3>1, <3>2, <3>3, Invisible DEF AnsweringSteps, BuildSteps
  <2> QED
    BY <2>2, <2>3
<1>13. ASSUME NEW q \in Queries, PublishAll(q)
      PROVE  ServiceStep
  <2>1. Moved(q, {"mark"})
    BY <1>13, QueryMoves DEF PublishAll
  <2>2. UNCHANGED <<files, callRev, ackAt, need>>
    BY <1>13, Zenon DEF PublishAll, data, revs, ghosts, needs
  <2>3. pc[q] = "publish_all" /\ pc'[q] = "mark"
    BY <1>13, <2>1 DEF PublishAll, Moved
  <2>4. readers = {}
    BY <2>3 DEF LocksMatchSteps
  <2> QED
    BY <2>1, <2>2, <2>3, <2>4, Invisible DEF AnsweringSteps, BuildSteps
<1>14. ASSUME NEW q \in Queries, MarkReady(q)
      PROVE  ServiceStep
  <2>1. Moved(q, {"reread"})
    BY <1>14, QueryMoves DEF MarkReady
  <2>2. UNCHANGED <<files, callRev, ackAt, need, cg>>
    BY <1>14, Zenon
       DEF MarkReady, data, revs, cache, ghosts, needs, locals
  <2>3. pc[q] = "mark" /\ pc'[q] = "reread"
    BY <1>14, <2>1 DEF MarkReady, Moved
  <2> QED
    BY <2>1, <2>2, <2>3, Invisible DEF AnsweringSteps, BuildSteps
<1>15. ASSUME NEW q \in Queries, Reread(q)
      PROVE  ServiceStep
  <2>1. UNCHANGED <<files, callRev, ackAt, cg>>
    BY <1>15, Zenon DEF Reread, data, revs, cache, ghosts
  <2>2. CASE Return(q)
    BY <2>1, <2>2, Releases
  <2>3. CASE ~Return(q)
    <3>1. Moved(q, {"held"})
      BY <1>15, <2>3, QueryMoves DEF Reread
    <3>2. need' = need
      BY <1>15, <2>3, Zenon DEF Reread, needs, locals
    <3>3. pc[q] \in AnsweringSteps
      BY <1>15 DEF Reread, AnsweringSteps
    <3> QED
      BY <2>1, <3>1, <3>2, <3>3, Answers
  <2> QED
    BY <2>2, <2>3
<1>16. ASSUME NEW q \in Queries, DropGuard(q)
      PROVE  ServiceStep
  <2>1. UNCHANGED <<files, callRev, ackAt, cg>>
    BY <1>16, Zenon DEF DropGuard, data, revs, cache, ghosts
  <2>2. CASE Return(q)
    BY <2>1, <2>2, Releases
  <2>3. CASE ~Return(q)
    <3>1. Moved(q, {"relock"})
      BY <1>16, <2>3, QueryMoves DEF DropGuard
    <3>2. need' = need
      BY <1>16, <2>3, Zenon DEF DropGuard, needs, locals
    <3>3. pc[q] = "held" /\ pc'[q] = "relock"
      BY <1>16, <3>1 DEF DropGuard, Moved
    <3>4. Calls' = [Calls EXCEPT ![q] = Calls'[q]]
      BY <2>1, <3>1, <3>2, OneCallMoves
    <3>5. Calls[q] # Service!Idle /\ Calls'[q] = Service!Idle
      BY <3>3
         DEF Calls, CallState, AnsweringSteps, BuildSteps, Service!Idle
    <3>6. Service!Release(q)
      BY <2>1, <3>4, <3>5 DEF Service!Release, Calls
    <3> QED
      BY <3>6 DEF ServiceStep, Service!Next
  <2> QED
    BY <2>2, <2>3
<1>17. ASSUME NEW q \in Queries, FillLock(q)
      PROVE  ServiceStep
  <2>1. UNCHANGED <<files, callRev, ackAt, cg>>
    BY <1>17, Zenon DEF FillLock, data, revs, cache, ghosts
  <2>2. CASE Return(q)
    BY <2>1, <2>2, Releases
  <2>3. CASE ~Return(q)
    <3>1. Moved(q, {"fill_insight"})
      BY <1>17, <2>3, QueryMoves DEF FillLock
    <3>2. need' = need
      BY <1>17, <2>3, Zenon DEF FillLock, needs, locals
    <3>3. pc[q] = "relock" /\ pc'[q] = "fill_insight"
      BY <1>17, <3>1 DEF FillLock, Moved
    <3> QED
      BY <2>1, <3>1, <3>2, <3>3, Invisible DEF AtRest, FillSteps
  <2> QED
    BY <2>2, <2>3
<1>18. ASSUME NEW q \in Queries, FillInsight(q)
      PROVE  ServiceStep
  <2>1. UNCHANGED <<files, callRev, ackAt, cg>>
    BY <1>18, Zenon DEF FillInsight, data, revs, cache, ghosts
  <2>2. CASE Return(q)
    BY <2>1, <2>2, Releases
  <2>3. CASE ~Return(q)
    <3>1. Moved(q, {"fill_calls"})
      BY <1>18, <2>3, QueryMoves DEF FillInsight
    <3>2. need' = need
      BY <1>18, <2>3, Zenon DEF FillInsight, needs, locals
    <3>3. pc[q] = "fill_insight" /\ pc'[q] = "fill_calls"
      BY <1>18, <3>1 DEF FillInsight, Moved
    <3> QED
      BY <2>1, <3>1, <3>2, <3>3, Invisible DEF AtRest, FillSteps
  <2> QED
    BY <2>2, <2>3
<1>19. ASSUME NEW q \in Queries, FillCalls(q)
      PROVE  ServiceStep
  <2>1. UNCHANGED <<files, callRev, ackAt, cg>>
    BY <1>19, Zenon DEF FillCalls, data, revs, cache, ghosts
  <2>2. CASE Return(q)
    BY <2>1, <2>2, Releases
  <2>3. CASE ~Return(q)
    <3>1. Moved(q, {"fill"})
      BY <1>19, <2>3, QueryMoves DEF FillCalls
    <3>2. need' = need
      BY <1>19, <2>3, Zenon DEF FillCalls, needs, locals
    <3>3. pc[q] = "fill_calls" /\ pc'[q] = "fill"
      BY <1>19, <3>1 DEF FillCalls, Moved
    <3> QED
      BY <2>1, <3>1, <3>2, <3>3, Invisible DEF AtRest, FillSteps
  <2> QED
    BY <2>2, <2>3
<1>20. ASSUME NEW q \in Queries, Fill(q)
      PROVE  ServiceStep
  <2>1. UNCHANGED <<files, callRev, ackAt>> /\ Return(q) /\ pc[q] = "fill"
    BY <1>20, Zenon DEF Fill, data, revs, ghosts
  <2>2. readers = {}
    BY <2>1 DEF LocksMatchSteps
  <2> QED
    BY <2>1, <2>2, Releases
<1>21. ASSUME NEW q \in Queries, NEW m \in {"query", "complete"}, Begin(q, m)
      PROVE  ServiceStep
  <2>1. Moved(q, {"fingerprint"})
    BY <1>21, QueryMoves DEF Begin
  <2>2. UNCHANGED <<files, callRev, ackAt, cg>>
    BY <1>21, Zenon DEF Begin, data, revs, cache, ghosts
  <2>3. /\ need'[q] = ackAt[callRev]
        /\ \A o \in Queries \ {q} : need'[o] = need[o]
    BY <1>21 DEF Begin, TypeOK
  <2>4. pc[q] = "idle" /\ pc'[q] = "fingerprint"
    BY <1>21, <2>1 DEF Begin, Moved
  <2>5. Calls[q] = Service!Idle
    BY <2>4 DEF Calls, CallState, AnsweringSteps, BuildSteps, Service!Idle
  <2>6. Calls'[q] = [at |-> "asked", need |-> ackAt[callRev], got |-> 0]
    BY <2>3, <2>4 DEF Calls, CallState, AnsweringSteps
  <2>7. Calls' = [Calls EXCEPT ![q] = Calls'[q]]
    BY <2>1, <2>2, <2>3, OneCallMoves
  <2>8. Service!Ask(q)
    BY <2>2, <2>5, <2>6, <2>7 DEF Service!Ask, Calls
  <2> QED
    BY <2>8 DEF ServiceStep, Service!Next
<1>22. ASSUME NEW q \in Queries, NEW panic \in BOOLEAN, BuildFails(q, panic)
      PROVE  ServiceStep
  <2>1. UNCHANGED <<files, callRev, ackAt, cg>> /\ Return(q)
    BY <1>22, Zenon DEF BuildFails, data, revs, cache, ghosts
  <2> QED
    BY <2>1, Releases
<1>23. ASSUME NEW q \in Queries, NEW panic \in BOOLEAN, FillFails(q, panic)
      PROVE  ServiceStep
  <2>1. UNCHANGED <<files, callRev, ackAt, cg>> /\ Return(q)
    BY <1>23, Zenon DEF FillFails, data, revs, cache, ghosts
  <2> QED
    BY <2>1, Releases
<1>40. ASSUME NEW q \in Queries, NEW panic \in BOOLEAN, SourcesFail(q, panic)
      PROVE  ServiceStep
  <2>1. UNCHANGED <<files, callRev, ackAt, cg>> /\ Return(q)
    BY <1>40, Zenon DEF SourcesFail, data, revs, cache, ghosts
  <2> QED
    BY <2>1, Releases
<1>24. ASSUME NEW e \in Editors, BumpRevisions(e)
      PROVE  ServiceStep
  <2>1. \A o \in Queries : pc'[o] = pc[o]
    BY <1>24, EditorMoves, ThreadsAssumption DEF BumpRevisions, Moved
  <2>2. UNCHANGED <<files, cg, need>>
    BY <1>24, Zenon DEF BumpRevisions, data, cache, needs, locals
  <2>3. Calls' = Calls
    BY <2>1, <2>2 DEF Calls, CallState
  <2>4. ackAt'[callRev'] = MaxOf(ackAt[callRev], edit[e].version)
    BY <1>24 DEF BumpRevisions, TypeOK
  <2>5. ackAt'[callRev'] \in ackAt[callRev]..files
    <3>1. ackAt[callRev] \in Nat /\ edit[e].version \in Nat /\ files \in Nat
      BY DEF TypeOK
    <3>2. ackAt[callRev] <= files /\ edit[e].version <= files
      BY DEF VersionsInOrder
    <3> QED
      BY <2>4, <3>1, <3>2 DEF MaxOf
  <2>6. Service!Acknowledge
    BY <2>2, <2>3, <2>5 DEF Service!Acknowledge, Calls
  <2> QED
    BY <2>6 DEF ServiceStep, Service!Next
<1>25. ASSUME NEW e \in Editors, ResetInsight(e)
      PROVE  ServiceStep
  <2>1. \A o \in Queries : pc'[o] = pc[o]
    BY <1>25, EditorMoves, ThreadsAssumption DEF ResetInsight, Moved
  <2>2. UNCHANGED <<files, callRev, ackAt, need, cg>>
    BY <1>25, Zenon DEF ResetInsight, data, revs, cache, ghosts, needs, locals
  <2>3. Calls' = Calls
    BY <2>1, <2>2 DEF Calls, CallState
  <2> QED
    BY <2>2, <2>3 DEF ServiceStep, Service!vars, Calls
<1>26. ASSUME NEW e \in Editors, ResetCalls(e)
      PROVE  ServiceStep
  <2>1. \A o \in Queries : pc'[o] = pc[o]
    BY <1>26, EditorMoves, ThreadsAssumption DEF ResetCalls, Moved
  <2>2. UNCHANGED <<files, callRev, ackAt, need>>
    BY <1>26, Zenon DEF ResetCalls, data, revs, ghosts, needs, locals
  <2>3. readers = {}
    BY <1>26 DEF ResetCalls, CanWrite
  <2>4. \A o \in Queries : pc[o] # "held"
    BY <2>3 DEF LocksMatchSteps
  <2>5. Calls' = Calls
    BY <2>1, <2>2, <2>4 DEF Calls, CallState
  <2> QED
    BY <2>2, <2>5 DEF ServiceStep, Service!vars, Calls
<1>27. ASSUME NEW e \in Editors, ResetCallsRev(e)
      PROVE  ServiceStep
  <2>1. \A o \in Queries : pc'[o] = pc[o]
    BY <1>27, EditorMoves, ThreadsAssumption DEF ResetCallsRev, Moved
  <2>2. UNCHANGED <<files, callRev, ackAt, need, cg>>
    BY <1>27, Zenon DEF ResetCallsRev, data, revs, cache, ghosts, needs, locals
  <2>3. Calls' = Calls
    BY <2>1, <2>2 DEF Calls, CallState
  <2> QED
    BY <2>2, <2>3 DEF ServiceStep, Service!vars, Calls
<1>28. ASSUME NEW e \in Editors, ResetFingerprint(e)
      PROVE  ServiceStep
  <2>1. \A o \in Queries : pc'[o] = pc[o]
    BY <1>28, EditorMoves, ThreadsAssumption DEF ResetFingerprint, Moved
  <2>2. UNCHANGED <<files, callRev, ackAt, need, cg>>
    BY <1>28, Zenon
       DEF ResetFingerprint, data, revs, cache, ghosts, needs, locals
  <2>3. Calls' = Calls
    BY <2>1, <2>2 DEF Calls, CallState
  <2> QED
    BY <2>2, <2>3 DEF ServiceStep, Service!vars, Calls
<1>29. ASSUME NEW e \in Editors, EditBody(e)
      PROVE  ServiceStep
  <2>1. \A o \in Queries : pc'[o] = pc[o]
    BY <1>29, EditorMoves, ThreadsAssumption DEF EditBody, Moved
  <2>2. files' = files + 1 /\ UNCHANGED <<callRev, ackAt, cg, need>>
    BY <1>29, Zenon
       DEF EditBody, revs, cache, ghosts, needs, locals
  <2>3. Calls' = Calls
    BY <2>1, <2>2 DEF Calls, CallState
  <2>4. Service!Change
    BY <2>2, <2>3 DEF Service!Change, Calls
  <2> QED
    BY <2>4 DEF ServiceStep, Service!Next
<1>30. ASSUME NEW e \in Editors, EditTopology(e)
      PROVE  ServiceStep
  <2>1. \A o \in Queries : pc'[o] = pc[o]
    BY <1>30, EditorMoves, ThreadsAssumption DEF EditTopology, Moved
  <2>2. files' = files + 1 /\ UNCHANGED <<callRev, ackAt, cg, need>>
    BY <1>30, Zenon
       DEF EditTopology, revs, cache, ghosts, needs, locals
  <2>3. Calls' = Calls
    BY <2>1, <2>2 DEF Calls, CallState
  <2>4. Service!Change
    BY <2>2, <2>3 DEF Service!Change, Calls
  <2> QED
    BY <2>4 DEF ServiceStep, Service!Next
<1>31. CASE ReplacePackage \/ UNCHANGED vars
  <2>1. UNCHANGED <<files, callRev, ackAt, need, cg, pc>>
    BY <1>31, Zenon
       DEF ReplacePackage, vars, revs, cache, ghosts, needs, locals, data
  <2>2. Calls' = Calls
    BY <2>1 DEF Calls, CallState
  <2> QED
    BY <2>1, <2>2 DEF ServiceStep, Service!vars, Calls
<1>32. ASSUME NEW q \in Queries, QueryStep(q) PROVE ServiceStep
  BY <1>32, <1>1, <1>2, <1>3, <1>4, <1>5, <1>6, <1>7, <1>8, <1>9, <1>10,
     <1>11, <1>12, <1>13, <1>14, <1>15, <1>16, <1>17, <1>18, <1>19, <1>20,
     <1>40 DEF QueryStep
<1>33. ASSUME NEW e \in Editors, EditStep(e) PROVE ServiceStep
  BY <1>33, <1>24, <1>25, <1>26, <1>27, <1>28 DEF EditStep
<1> QED
  BY <1>21, <1>22, <1>23, <1>40, <1>29, <1>30, <1>31, <1>32, <1>33
     DEF Next

-----------------------------------------------------------------------------
\* Graphs are read from the indexes as they are, dropped or kept, and the
\* indexes only grow.
LEMMA FilesFrame ==
  ASSUME TypeOK, TypeOK', FilesInOrder, files' >= files,
         cg'.files = 0 \/ cg'.files <= files,
         \A q \in Queries : new'[q].files = 0 \/ new'[q].files <= files
  PROVE  FilesInOrder'
<1>1. files \in Nat /\ files' \in Nat /\ cg'.files \in Nat
  BY DEF TypeOK, CallGraphs
<1>2. \A q \in Queries : new'[q].files \in Nat
  BY DEF TypeOK, CallGraphs
<1> QED
  BY <1>1, <1>2 DEF FilesInOrder

\* A return drops the graph a failed build was making.
LEMMA FilesReturn ==
  ASSUME TypeOK, TypeOK', FilesInOrder, NEW q \in Queries, Return(q),
         files' = files, cg'.files = cg.files
  PROVE  FilesInOrder'
<1>1. \A o \in Queries : new'[o] = NoCalls \/ new'[o] = new[o]
  BY DEF Return, Forget, TypeOK
<1>2. NoCalls.files = 0
  BY DEF NoCalls
<1>3. \A o \in Queries : new'[o].files = 0 \/ new'[o].files <= files
  BY <1>1, <1>2 DEF FilesInOrder
<1>4. files' >= files
  BY DEF TypeOK
<1> QED
  BY <1>3, <1>4, FilesFrame DEF FilesInOrder

\* No graph contains an edit that has not been made.
LEMMA FilesStep == TypeOK /\ FilesInOrder /\ [Next]_vars => FilesInOrder'
<1> SUFFICES ASSUME TypeOK, FilesInOrder, [Next]_vars PROVE FilesInOrder'
  OBVIOUS
<1>a. TypeOK'
  BY TypesStep
<1>b. ASSUME UNCHANGED <<files, cg, new>> PROVE FilesInOrder'
  BY <1>b DEF FilesInOrder
<1>c. files \in Nat /\ files >= files /\ files + 1 >= files /\ NoCalls.files = 0
  BY DEF TypeOK, NoCalls
<1>1. ASSUME NEW q \in Queries, ReadFingerprint(q)
      PROVE  FilesInOrder'
  BY <1>1, <1>b, Zenon DEF ReadFingerprint, data, cache, built, locals
<1>2. ASSUME NEW q \in Queries, LoadSources(q)
      PROVE  FilesInOrder'
  BY <1>2, <1>b, Zenon DEF LoadSources, data, cache, built, locals
<1>3. ASSUME NEW q \in Queries, ReadRevision(q)
      PROVE  FilesInOrder'
  BY <1>3, <1>b, Zenon DEF ReadRevision, data, cache, built, locals
<1>4. ASSUME NEW q \in Queries, CloneInsight(q)
      PROVE  FilesInOrder'
  BY <1>4, <1>b, Zenon DEF CloneInsight, data, cache, built, locals
<1>5. ASSUME NEW q \in Queries, LockCalls(q)
      PROVE  FilesInOrder'
  <2>1. UNCHANGED <<files, cg>>
    BY <1>5, Zenon DEF LockCalls, data, cache
  <2>2. CASE Return(q)
    BY <1>a, <2>1, <2>2, FilesReturn
  <2>3. CASE ~Return(q)
    BY <1>5, <1>b, <2>1, <2>3, Zenon DEF LockCalls, built, locals
  <2> QED
    BY <2>2, <2>3
<1>6. ASSUME NEW q \in Queries, Check(q)
      PROVE  FilesInOrder'
  BY <1>6, <1>b, Zenon DEF Check, data, cache, built, locals
<1>7. ASSUME NEW q \in Queries, AcquireBuildLock(q)
      PROVE  FilesInOrder'
  <2>1. UNCHANGED <<files, cg>>
    BY <1>7, Zenon DEF AcquireBuildLock, data, cache
  <2>2. CASE Return(q)
    BY <1>a, <2>1, <2>2, FilesReturn
  <2>3. CASE ~Return(q)
    BY <1>7, <1>b, <2>1, <2>3, Zenon DEF AcquireBuildLock, built, locals
  <2> QED
    BY <2>2, <2>3
<1>8. ASSUME NEW q \in Queries, TagBuild(q)
      PROVE  FilesInOrder'
  BY <1>8, <1>b, Zenon DEF TagBuild, data, cache, built, locals
<1>9. ASSUME NEW q \in Queries, BuildNodes(q)
      PROVE  FilesInOrder'
  BY <1>9, <1>b, Zenon DEF BuildNodes, data, cache, built, locals
<1>10. ASSUME NEW q \in Queries, BuildEdges(q)
      PROVE  FilesInOrder'
  <2>1. UNCHANGED <<files, cg>>
    BY <1>10, Zenon DEF BuildEdges, data, cache
  <2>2. \A o \in Queries : new'[o].files = files \/ new'[o] = new[o]
    BY <1>10 DEF BuildEdges, TypeOK
  <2>3. \A o \in Queries : new'[o].files <= files
    BY <1>c, <2>2 DEF FilesInOrder
  <2> QED
    BY <2>1, <2>3 DEF FilesInOrder
<1>11. ASSUME NEW q \in Queries, PublishInsight(q)
      PROVE  FilesInOrder'
  BY <1>11, <1>b, Zenon DEF PublishInsight, data, cache, built, locals
<1>12. ASSUME NEW q \in Queries, PublishCalls(q)
      PROVE  FilesInOrder'
  <2>1. UNCHANGED <<files, cg>>
    BY <1>12, Zenon DEF PublishCalls, data, cache
  <2>2. CASE Return(q)
    BY <1>a, <2>1, <2>2, FilesReturn
  <2>3. CASE ~Return(q)
    BY <1>12, <1>b, <2>1, <2>3, Zenon DEF PublishCalls, built, locals
  <2> QED
    BY <2>2, <2>3
<1>13. ASSUME NEW q \in Queries, PublishAll(q)
      PROVE  FilesInOrder'
  <2>1. files' = files /\ cg' = new[q]
    BY <1>13, Zenon DEF PublishAll, data
  <2>2. \A o \in Queries : new'[o] = NoCalls \/ new'[o] = new[o]
    BY <1>13 DEF PublishAll, TypeOK
  <2>3. \A o \in Queries : new'[o].files = 0 \/ new'[o].files <= files
    BY <1>c, <2>2 DEF FilesInOrder
  <2>4. cg'.files <= files
    BY <2>1 DEF FilesInOrder
  <2> QED
    BY <1>a, <1>c, <2>1, <2>3, <2>4, FilesFrame
<1>14. ASSUME NEW q \in Queries, MarkReady(q)
      PROVE  FilesInOrder'
  BY <1>14, <1>b, Zenon DEF MarkReady, data, cache, built, locals
<1>15. ASSUME NEW q \in Queries, Reread(q)
      PROVE  FilesInOrder'
  <2>1. UNCHANGED <<files, cg>>
    BY <1>15, Zenon DEF Reread, data, cache
  <2>2. CASE Return(q)
    BY <1>a, <2>1, <2>2, FilesReturn
  <2>3. CASE ~Return(q)
    BY <1>15, <1>b, <2>1, <2>3, Zenon DEF Reread, built, locals
  <2> QED
    BY <2>2, <2>3
<1>16. ASSUME NEW q \in Queries, DropGuard(q)
      PROVE  FilesInOrder'
  <2>1. UNCHANGED <<files, cg>>
    BY <1>16, Zenon DEF DropGuard, data, cache
  <2>2. CASE Return(q)
    BY <1>a, <2>1, <2>2, FilesReturn
  <2>3. CASE ~Return(q)
    BY <1>16, <1>b, <2>1, <2>3, Zenon DEF DropGuard, built, locals
  <2> QED
    BY <2>2, <2>3
<1>17. ASSUME NEW q \in Queries, FillLock(q)
      PROVE  FilesInOrder'
  <2>1. UNCHANGED <<files, cg>>
    BY <1>17, Zenon DEF FillLock, data, cache
  <2>2. CASE Return(q)
    BY <1>a, <2>1, <2>2, FilesReturn
  <2>3. CASE ~Return(q)
    BY <1>17, <1>b, <2>1, <2>3, Zenon DEF FillLock, built, locals
  <2> QED
    BY <2>2, <2>3
<1>18. ASSUME NEW q \in Queries, FillInsight(q)
      PROVE  FilesInOrder'
  <2>1. UNCHANGED <<files, cg>>
    BY <1>18, Zenon DEF FillInsight, data, cache
  <2>2. CASE Return(q)
    BY <1>a, <2>1, <2>2, FilesReturn
  <2>3. CASE ~Return(q)
    BY <1>18, <1>b, <2>1, <2>3, Zenon DEF FillInsight, built, locals
  <2> QED
    BY <2>2, <2>3
<1>19. ASSUME NEW q \in Queries, FillCalls(q)
      PROVE  FilesInOrder'
  <2>1. UNCHANGED <<files, cg>>
    BY <1>19, Zenon DEF FillCalls, data, cache
  <2>2. CASE Return(q)
    BY <1>a, <2>1, <2>2, FilesReturn
  <2>3. CASE ~Return(q)
    BY <1>19, <1>b, <2>1, <2>3, Zenon DEF FillCalls, built, locals
  <2> QED
    BY <2>2, <2>3
<1>20. ASSUME NEW q \in Queries, Fill(q)
      PROVE  FilesInOrder'
  <2>1. files' = files /\ Return(q)
    BY <1>20, Zenon DEF Fill, data
  <2>2. cg'.files = cg.files
    BY <1>20 DEF Fill, TypeOK, CallGraphs
  <2> QED
    BY <1>a, <2>1, <2>2, FilesReturn
<1>21. ASSUME NEW q \in Queries, NEW m \in {"query", "complete"}, Begin(q, m)
      PROVE  FilesInOrder'
  BY <1>21, <1>b, Zenon DEF Begin, data, cache, built, locals
<1>22. ASSUME NEW q \in Queries, NEW panic \in BOOLEAN, BuildFails(q, panic)
      PROVE  FilesInOrder'
  <2>1. UNCHANGED <<files, cg>>
    BY <1>22, Zenon DEF BuildFails, data, cache
  <2>2. CASE Return(q)
    BY <1>a, <2>1, <2>2, FilesReturn
  <2>3. CASE ~Return(q)
    BY <1>22, <1>b, <2>1, <2>3, Zenon DEF BuildFails, built, locals
  <2> QED
    BY <2>2, <2>3
<1>23. ASSUME NEW q \in Queries, NEW panic \in BOOLEAN, FillFails(q, panic)
      PROVE  FilesInOrder'
  <2>1. UNCHANGED <<files, cg>>
    BY <1>23, Zenon DEF FillFails, data, cache
  <2>2. CASE Return(q)
    BY <1>a, <2>1, <2>2, FilesReturn
  <2>3. CASE ~Return(q)
    BY <1>23, <1>b, <2>1, <2>3, Zenon DEF FillFails, built, locals
  <2> QED
    BY <2>2, <2>3
<1>40. ASSUME NEW q \in Queries, NEW panic \in BOOLEAN, SourcesFail(q, panic)
      PROVE  FilesInOrder'
  <2>1. UNCHANGED <<files, cg>>
    BY <1>40, Zenon DEF SourcesFail, data, cache
  <2>2. CASE Return(q)
    BY <1>a, <2>1, <2>2, FilesReturn
  <2>3. CASE ~Return(q)
    BY <1>40, <1>b, <2>1, <2>3, Zenon DEF SourcesFail, built, locals
  <2> QED
    BY <2>2, <2>3
<1>24. ASSUME NEW e \in Editors, BumpRevisions(e)
      PROVE  FilesInOrder'
  BY <1>24, <1>b, Zenon DEF BumpRevisions, data, cache, built, locals
<1>25. ASSUME NEW e \in Editors, ResetInsight(e)
      PROVE  FilesInOrder'
  BY <1>25, <1>b, Zenon DEF ResetInsight, data, cache, built, locals
<1>26. ASSUME NEW e \in Editors, ResetCalls(e)
      PROVE  FilesInOrder'
  <2>1. UNCHANGED <<files, new>> /\ cg' = NoCalls
    BY <1>26, Zenon DEF ResetCalls, data, built, locals
  <2> QED
    BY <1>c, <2>1 DEF FilesInOrder
<1>27. ASSUME NEW e \in Editors, ResetCallsRev(e)
      PROVE  FilesInOrder'
  BY <1>27, <1>b, Zenon DEF ResetCallsRev, data, cache, built, locals
<1>28. ASSUME NEW e \in Editors, ResetFingerprint(e)
      PROVE  FilesInOrder'
  BY <1>28, <1>b, Zenon DEF ResetFingerprint, data, cache, built, locals
<1>29. ASSUME NEW e \in Editors, EditBody(e)
      PROVE  FilesInOrder'
  <2>1. files' = files + 1 /\ UNCHANGED <<cg, new>>
    BY <1>29, Zenon DEF EditBody, cache, built, locals
  <2> QED
    BY <1>a, <1>c, <2>1, FilesFrame DEF FilesInOrder
<1>30. ASSUME NEW e \in Editors, EditTopology(e)
      PROVE  FilesInOrder'
  <2>1. files' = files + 1 /\ UNCHANGED <<cg, new>>
    BY <1>30, Zenon DEF EditTopology, cache, built, locals
  <2> QED
    BY <1>a, <1>c, <2>1, FilesFrame DEF FilesInOrder
<1>31. CASE ReplacePackage \/ UNCHANGED vars
  BY <1>31, <1>b, Zenon DEF ReplacePackage, vars, data, cache, built, locals
<1>32. ASSUME NEW q \in Queries, QueryStep(q) PROVE FilesInOrder'
  BY <1>32, <1>1, <1>2, <1>3, <1>4, <1>5, <1>6, <1>7, <1>8, <1>9, <1>10,
     <1>11, <1>12, <1>13, <1>14, <1>15, <1>16, <1>17, <1>18, <1>19, <1>20,
     <1>40 DEF QueryStep
<1>33. ASSUME NEW e \in Editors, EditStep(e) PROVE FilesInOrder'
  BY <1>33, <1>24, <1>25, <1>26, <1>27, <1>28 DEF EditStep
<1> QED
  BY <1>21, <1>22, <1>23, <1>40, <1>29, <1>30, <1>31, <1>32, <1>33
     DEF Next

\* An empty workspace is a service nobody has asked.
LEMMA RefinesInit == Init => Service!Init /\ FilesInOrder
<1> SUFFICES ASSUME Init PROVE Service!Init /\ FilesInOrder
  OBVIOUS
<1>1. files = 0 /\ ackAt[callRev] = 0
  BY DEF Init
<1>2. [q \in Queries |-> CallState(q)] = [q \in Queries |-> Service!Idle]
  <2>1. \A q \in Queries : pc[q] = "idle"
    BY DEF Init
  <2> QED
    BY <2>1 DEF CallState, AnsweringSteps, BuildSteps, Service!Idle
<1>3. FilesInOrder
  BY DEF Init, FilesInOrder, NoCalls
<1> QED
  BY <1>1, <1>2, <1>3 DEF Service!Init

\* get_or_build_call_graph implements the service: with any number of threads
\* and edits, a request is answered once, with a graph at least as new as what
\* was acknowledged when it was asked and not newer than the workspace, and the
\* answer does not change until the caller drops its guard.
THEOREM CacheImplementsService == Spec => ImplementsService
<1>1. GraphInv => TypeOK
  BY DEF GraphInv
<1> QED
  BY <1>1, RefinesInit, GraphInvariant, FilesStep, RefinesStep, PTL
     DEF Spec, ImplementsService, Service!Spec, ServiceStep

-----------------------------------------------------------------------------
(* Single flight.  A build uses up a credit: the first one is free, every  *)
(* other is paid for by a cause.  While no credit is left the cached pair  *)
(* is a hit for whoever looks it up from now on, and the holder of the     *)
(* build lock that has begun to look will find it.                         *)

\* The steps of a lookup after the fingerprint has been read, and the steps
\* of a build before the cache is replaced.
LookupSteps == {"sources", "revision", "insight", "calls", "check"}
MakingSteps == {"nodes", "edges", "publish_insight", "publish_calls",
                "publish_all"}

\* A lookup that starts now is a hit.
CacheIsCurrent ==
    ig # NoInsight /\ cg # NoCalls /\ cgRev = callRev /\ cgFp = pkgs

\* The lookup q is in the middle of is a hit if nothing happens before its
\* end: what it has read counts, and what it has still to read.
WillHit(q) ==
    /\ cg # NoCalls
    /\ cgFp = fp[q]
    /\ cgRev = IF pc[q] \in {"sources", "revision"} THEN callRev ELSE rev[q]
    /\ NoInsight # IF pc[q] \in {"calls", "check"} THEN ins[q] ELSE ig

\* What the holder of the build lock owes to a cause: one if its lookup will
\* miss or its fingerprint is old, two if both.
Owes(q) ==
    q \in buildLock =>
        /\ pc[q] \in LookupSteps =>
              /\ ~WillHit(q) \/ fp[q] # pkgs => builds <= causes
              /\ ~WillHit(q) /\ fp[q] # pkgs => builds + 1 <= causes
        /\ pc[q] = "tag" =>
              /\ builds <= causes
              /\ fp[q] # pkgs => builds + 1 <= causes
        /\ pc[q] \in MakingSteps =>
              (fp[q] # pkgs \/ tagC[q] # callRev => builds <= causes)

FlightInv ==
    /\ builds <= 1 + causes
    /\ CacheIsCurrent
       \/ (\E q \in Queries : pc[q] \in MakingSteps \cup {"tag"})
       \/ builds <= causes
    /\ \A q \in Queries : Owes(q)

\* Build numbers start at one, so a graph that was built is not the empty one.
BuildsNumbered ==
    /\ \A q \in Queries :
          /\ pc[q] \in MakingSteps => builds >= 1
          /\ pc[q] \in MakingSteps \ {"nodes"} => ins[q].build >= 1
    /\ cg # NoCalls => cg.build >= 1

\* A step that leaves the cache and the builder alone.
LEMMA NumbersFrame ==
  ASSUME BuildsNumbered, NEW q \in Queries, NEW S, Moved(q, S),
         builds' = builds, cg' = cg \/ cg' = NoCalls,
         \A o \in Queries \ {q} : ins'[o] = ins[o],
         pc'[q] \in MakingSteps =>
            pc[q] \in MakingSteps \ {"nodes"} /\ ins'[q] = ins[q]
  PROVE  BuildsNumbered'
<1>1. cg' # NoCalls => cg'.build >= 1
  BY DEF BuildsNumbered
<1>2. \A o \in Queries : pc'[o] \in MakingSteps => builds' >= 1
  BY DEF BuildsNumbered, Moved
<1>3. \A o \in Queries :
         pc'[o] \in MakingSteps \ {"nodes"} => ins'[o].build >= 1
  BY DEF BuildsNumbered, Moved
<1> QED
  BY <1>1, <1>2, <1>3 DEF BuildsNumbered

\* A return drops the thread's own build.
LEMMA NumbersReturn ==
  ASSUME TypeOK, BuildsNumbered, NEW q \in Queries, Return(q),
         builds' = builds, cg' = cg
  PROVE  BuildsNumbered'
<1>1. Moved(q, {"idle"})
  BY ReturnTyped
<1>2. \A o \in Queries \ {q} : ins'[o] = ins[o]
  BY DEF Return, Forget, TypeOK
<1>3. pc'[q] \notin MakingSteps
  BY <1>1 DEF Moved, MakingSteps
<1> QED
  BY <1>1, <1>2, <1>3, NumbersFrame

\* Every graph carries the number of its build.
LEMMA NumbersStep ==
  TypeOK /\ OrderInv /\ CacheInv /\ BuildsNumbered /\ [Next]_vars
  => BuildsNumbered'
<1> SUFFICES ASSUME TypeOK, OrderInv, CacheInv, BuildsNumbered, [Next]_vars
             PROVE  BuildsNumbered'
  OBVIOUS
<1>1. ASSUME NEW q \in Queries, ReadFingerprint(q)
      PROVE  BuildsNumbered'
  <2>1. Moved(q, {"sources"})
    BY <1>1, QueryMoves DEF ReadFingerprint, Moved
  <2>2. UNCHANGED <<builds, cg>>
    BY <1>1, Zenon DEF ReadFingerprint, status, cache
  <2>3. UNCHANGED ins
    BY <1>1, Zenon DEF ReadFingerprint, lookup, locals
  <2>4. pc[q] = "fingerprint"
    BY <1>1 DEF ReadFingerprint
  <2> QED
    BY <2>1, <2>2, <2>3, <2>4, NumbersFrame DEF Moved, MakingSteps
<1>2. ASSUME NEW q \in Queries, LoadSources(q)
      PROVE  BuildsNumbered'
  <2>1. Moved(q, {"revision"})
    BY <1>2, QueryMoves DEF LoadSources, Moved
  <2>2. UNCHANGED <<builds, cg>>
    BY <1>2, Zenon DEF LoadSources, status, cache
  <2>3. UNCHANGED ins
    BY <1>2, Zenon DEF LoadSources, lookup, locals
  <2>4. pc[q] = "sources"
    BY <1>2 DEF LoadSources
  <2> QED
    BY <2>1, <2>2, <2>3, <2>4, NumbersFrame DEF Moved, MakingSteps
<1>3. ASSUME NEW q \in Queries, ReadRevision(q)
      PROVE  BuildsNumbered'
  <2>1. Moved(q, {"insight"})
    BY <1>3, QueryMoves DEF ReadRevision, Moved
  <2>2. UNCHANGED <<builds, cg>>
    BY <1>3, Zenon DEF ReadRevision, status, cache
  <2>3. UNCHANGED ins
    BY <1>3, Zenon DEF ReadRevision, lookup, locals
  <2>4. pc[q] = "revision"
    BY <1>3 DEF ReadRevision
  <2> QED
    BY <2>1, <2>2, <2>3, <2>4, NumbersFrame DEF Moved, MakingSteps
<1>4. ASSUME NEW q \in Queries, CloneInsight(q)
      PROVE  BuildsNumbered'
  <2>1. Moved(q, {"calls"})
    BY <1>4, QueryMoves DEF CloneInsight, Moved
  <2>2. UNCHANGED <<builds, cg>>
    BY <1>4, Zenon DEF CloneInsight, status, cache
  <2>3. \A o \in Queries \ {q} : ins'[o] = ins[o]
    BY <1>4 DEF CloneInsight, TypeOK
  <2>4. pc[q] = "insight"
    BY <1>4 DEF CloneInsight
  <2> QED
    BY <2>1, <2>2, <2>3, <2>4, NumbersFrame DEF Moved, MakingSteps
<1>5. ASSUME NEW q \in Queries, LockCalls(q)
      PROVE  BuildsNumbered'
  <2>1. UNCHANGED <<builds, cg>>
    BY <1>5, Zenon DEF LockCalls, status, cache
  <2>2. CASE Return(q)
    BY <2>1, <2>2, NumbersReturn
  <2>3. CASE ~Return(q)
    <3>1. Moved(q, {"check"})
      BY <1>5, <2>3, QueryMoves DEF LockCalls
    <3>2. UNCHANGED ins
      BY <1>5, <2>3, Zenon DEF LockCalls, lookup, locals
    <3>3. pc[q] = "calls"
      BY <1>5 DEF LockCalls
    <3> QED
      BY <2>1, <3>1, <3>2, <3>3, NumbersFrame DEF Moved, MakingSteps
  <2> QED
    BY <2>2, <2>3
<1>6. ASSUME NEW q \in Queries, Check(q)
      PROVE  BuildsNumbered'
  <2>1. Moved(q, {"held", "tag", "lock"})
    BY <1>6, QueryMoves DEF Check, Moved
  <2>2. UNCHANGED <<builds, cg>>
    BY <1>6, Zenon DEF Check, status, cache
  <2>3. UNCHANGED ins
    BY <1>6, Zenon DEF Check, lookup, locals
  <2>4. pc[q] = "check"
    BY <1>6 DEF Check
  <2> QED
    BY <2>1, <2>2, <2>3, <2>4, NumbersFrame DEF Moved, MakingSteps
<1>7. ASSUME NEW q \in Queries, AcquireBuildLock(q)
      PROVE  BuildsNumbered'
  <2>1. UNCHANGED <<builds, cg>>
    BY <1>7, Zenon DEF AcquireBuildLock, status, cache
  <2>2. CASE Return(q)
    BY <2>1, <2>2, NumbersReturn
  <2>3. CASE ~Return(q)
    <3>1. Moved(q, {"fingerprint"})
      BY <1>7, <2>3, QueryMoves DEF AcquireBuildLock, AfterBuildLock
    <3>2. UNCHANGED ins
      BY <1>7, <2>3, Zenon DEF AcquireBuildLock, lookup, locals
    <3>3. pc[q] = "lock"
      BY <1>7 DEF AcquireBuildLock
    <3> QED
      BY <2>1, <3>1, <3>2, <3>3, NumbersFrame DEF Moved, MakingSteps
  <2> QED
    BY <2>2, <2>3
<1>8. ASSUME NEW q \in Queries, TagBuild(q)
      PROVE  BuildsNumbered'
  <2>1. Moved(q, {"nodes"})
    BY <1>8, QueryMoves DEF TagBuild
  <2>2. UNCHANGED <<cg, ins>>
    BY <1>8, Zenon DEF TagBuild, cache, lookup
  <2>3. builds' = builds + 1 /\ builds \in Nat
    BY <1>8 DEF TagBuild, TypeOK
  <2> QED
    BY <2>1, <2>2, <2>3 DEF Moved, BuildsNumbered
<1>9. ASSUME NEW q \in Queries, BuildNodes(q)
      PROVE  BuildsNumbered'
  <2>1. Moved(q, {"edges"}) /\ pc[q] = "nodes"
    BY <1>9, QueryMoves DEF BuildNodes
  <2>2. UNCHANGED <<cg, builds>>
    BY <1>9, Zenon DEF BuildNodes, cache, status
  <2>3. /\ ins'[q].build = builds
        /\ \A o \in Queries \ {q} : ins'[o] = ins[o]
    BY <1>9 DEF BuildNodes, TypeOK
  <2>4. builds >= 1
    BY <2>1 DEF BuildsNumbered, MakingSteps
  <2> QED
    BY <2>1, <2>2, <2>3, <2>4 DEF Moved, BuildsNumbered
<1>10. ASSUME NEW q \in Queries, BuildEdges(q)
      PROVE  BuildsNumbered'
  <2>1. Moved(q, {"publish_insight"})
    BY <1>10, QueryMoves DEF BuildEdges, Moved
  <2>2. UNCHANGED <<builds, cg>>
    BY <1>10, Zenon DEF BuildEdges, status, cache
  <2>3. UNCHANGED ins
    BY <1>10, Zenon DEF BuildEdges, lookup, locals
  <2>4. pc[q] = "edges"
    BY <1>10 DEF BuildEdges
  <2> QED
    BY <2>1, <2>2, <2>3, <2>4, NumbersFrame DEF Moved, MakingSteps
<1>11. ASSUME NEW q \in Queries, PublishInsight(q)
      PROVE  BuildsNumbered'
  <2>1. Moved(q, {"publish_calls"})
    BY <1>11, QueryMoves DEF PublishInsight, Moved
  <2>2. UNCHANGED <<builds, cg>>
    BY <1>11, Zenon DEF PublishInsight, status, cache
  <2>3. UNCHANGED ins
    BY <1>11, Zenon DEF PublishInsight, lookup, locals
  <2>4. pc[q] = "publish_insight"
    BY <1>11 DEF PublishInsight
  <2> QED
    BY <2>1, <2>2, <2>3, <2>4, NumbersFrame DEF Moved, MakingSteps
<1>12. ASSUME NEW q \in Queries, PublishCalls(q)
      PROVE  BuildsNumbered'
  <2>1. UNCHANGED <<builds, cg>>
    BY <1>12, Zenon DEF PublishCalls, status, cache
  <2>2. CASE Return(q)
    BY <2>1, <2>2, NumbersReturn
  <2>3. CASE ~Return(q)
    <3>1. Moved(q, {"publish_all"})
      BY <1>12, <2>3, QueryMoves DEF PublishCalls
    <3>2. UNCHANGED ins
      BY <1>12, <2>3, Zenon DEF PublishCalls, lookup, locals
    <3>3. pc[q] = "publish_calls"
      BY <1>12 DEF PublishCalls
    <3> QED
      BY <2>1, <3>1, <3>2, <3>3, NumbersFrame DEF Moved, MakingSteps
  <2> QED
    BY <2>2, <2>3
<1>13. ASSUME NEW q \in Queries, PublishAll(q)
      PROVE  BuildsNumbered'
  <2>1. Moved(q, {"mark"}) /\ pc[q] = "publish_all"
    BY <1>13, QueryMoves DEF PublishAll
  <2>2. UNCHANGED <<ins, builds>> /\ cg' = new[q]
    BY <1>13, Zenon DEF PublishAll, lookup, status
  <2>3. new[q].build >= 1
    BY <2>1
       DEF OrderInv, RevisionsCoverNeeds, BuildsNumbered, MakingSteps
  <2> QED
    BY <2>1, <2>2, <2>3 DEF Moved, BuildsNumbered, MakingSteps
<1>14. ASSUME NEW q \in Queries, MarkReady(q)
      PROVE  BuildsNumbered'
  <2>1. Moved(q, {"reread"})
    BY <1>14, QueryMoves DEF MarkReady, Moved
  <2>2. UNCHANGED <<builds, cg>>
    BY <1>14, Zenon DEF MarkReady, status, cache
  <2>3. UNCHANGED ins
    BY <1>14, Zenon DEF MarkReady, lookup, locals
  <2>4. pc[q] = "mark"
    BY <1>14 DEF MarkReady
  <2> QED
    BY <2>1, <2>2, <2>3, <2>4, NumbersFrame DEF Moved, MakingSteps
<1>15. ASSUME NEW q \in Queries, Reread(q)
      PROVE  BuildsNumbered'
  <2>1. UNCHANGED <<builds, cg>>
    BY <1>15, Zenon DEF Reread, status, cache
  <2>2. CASE Return(q)
    BY <2>1, <2>2, NumbersReturn
  <2>3. CASE ~Return(q)
    <3>1. Moved(q, {"held"})
      BY <1>15, <2>3, QueryMoves DEF Reread
    <3>2. UNCHANGED ins
      BY <1>15, <2>3, Zenon DEF Reread, lookup, locals
    <3>3. pc[q] = "reread"
      BY <1>15 DEF Reread
    <3> QED
      BY <2>1, <3>1, <3>2, <3>3, NumbersFrame DEF Moved, MakingSteps
  <2> QED
    BY <2>2, <2>3
<1>16. ASSUME NEW q \in Queries, DropGuard(q)
      PROVE  BuildsNumbered'
  <2>1. UNCHANGED <<builds, cg>>
    BY <1>16, Zenon DEF DropGuard, status, cache
  <2>2. CASE Return(q)
    BY <2>1, <2>2, NumbersReturn
  <2>3. CASE ~Return(q)
    <3>1. Moved(q, {"relock"})
      BY <1>16, <2>3, QueryMoves DEF DropGuard
    <3>2. UNCHANGED ins
      BY <1>16, <2>3, Zenon DEF DropGuard, lookup, locals
    <3>3. pc[q] = "held"
      BY <1>16 DEF DropGuard
    <3> QED
      BY <2>1, <3>1, <3>2, <3>3, NumbersFrame DEF Moved, MakingSteps
  <2> QED
    BY <2>2, <2>3
<1>17. ASSUME NEW q \in Queries, FillLock(q)
      PROVE  BuildsNumbered'
  <2>1. UNCHANGED <<builds, cg>>
    BY <1>17, Zenon DEF FillLock, status, cache
  <2>2. CASE Return(q)
    BY <2>1, <2>2, NumbersReturn
  <2>3. CASE ~Return(q)
    <3>1. Moved(q, {"fill_insight"})
      BY <1>17, <2>3, QueryMoves DEF FillLock
    <3>2. UNCHANGED ins
      BY <1>17, <2>3, Zenon DEF FillLock, lookup, locals
    <3>3. pc[q] = "relock"
      BY <1>17 DEF FillLock
    <3> QED
      BY <2>1, <3>1, <3>2, <3>3, NumbersFrame DEF Moved, MakingSteps
  <2> QED
    BY <2>2, <2>3
<1>18. ASSUME NEW q \in Queries, FillInsight(q)
      PROVE  BuildsNumbered'
  <2>1. UNCHANGED <<builds, cg>>
    BY <1>18, Zenon DEF FillInsight, status, cache
  <2>2. CASE Return(q)
    BY <2>1, <2>2, NumbersReturn
  <2>3. CASE ~Return(q)
    <3>1. Moved(q, {"fill_calls"})
      BY <1>18, <2>3, QueryMoves DEF FillInsight
    <3>2. \A o \in Queries \ {q} : ins'[o] = ins[o]
      BY <1>18, <2>3 DEF FillInsight, TypeOK
    <3>3. pc[q] = "fill_insight"
      BY <1>18 DEF FillInsight
    <3> QED
      BY <2>1, <3>1, <3>2, <3>3, NumbersFrame DEF Moved, MakingSteps
  <2> QED
    BY <2>2, <2>3
<1>19. ASSUME NEW q \in Queries, FillCalls(q)
      PROVE  BuildsNumbered'
  <2>1. UNCHANGED <<builds, cg>>
    BY <1>19, Zenon DEF FillCalls, status, cache
  <2>2. CASE Return(q)
    BY <2>1, <2>2, NumbersReturn
  <2>3. CASE ~Return(q)
    <3>1. Moved(q, {"fill"})
      BY <1>19, <2>3, QueryMoves DEF FillCalls
    <3>2. UNCHANGED ins
      BY <1>19, <2>3, Zenon DEF FillCalls, lookup, locals
    <3>3. pc[q] = "fill_calls"
      BY <1>19 DEF FillCalls
    <3> QED
      BY <2>1, <3>1, <3>2, <3>3, NumbersFrame DEF Moved, MakingSteps
  <2> QED
    BY <2>2, <2>3
<1>20. ASSUME NEW q \in Queries, Fill(q)
      PROVE  BuildsNumbered'
  <2>1. builds' = builds /\ Return(q) /\ pc[q] = "fill"
    BY <1>20, Zenon DEF Fill, status
  <2>2. Moved(q, {"idle"})
    BY <2>1, ReturnTyped
  <2>3. \A o \in Queries \ {q} : ins'[o] = ins[o]
    BY <2>1 DEF Return, Forget, TypeOK
  <2>4. cg'.build = cg.build /\ cg # NoCalls
    BY <1>20, <2>1 DEF Fill, TypeOK, CallGraphs, CacheInv, BuildLockPinsCache
  <2> QED
    BY <2>1, <2>2, <2>3, <2>4 DEF Moved, BuildsNumbered, MakingSteps
<1>21. ASSUME NEW q \in Queries, NEW m \in {"query", "complete"}, Begin(q, m)
      PROVE  BuildsNumbered'
  <2>1. Moved(q, {"fingerprint"})
    BY <1>21, QueryMoves DEF Begin, Moved
  <2>2. UNCHANGED <<builds, cg>>
    BY <1>21, Zenon DEF Begin, status, cache
  <2>3. UNCHANGED ins
    BY <1>21, Zenon DEF Begin, lookup, locals
  <2>4. pc[q] = "idle"
    BY <1>21 DEF Begin
  <2> QED
    BY <2>1, <2>2, <2>3, <2>4, NumbersFrame DEF Moved, MakingSteps
<1>22. ASSUME NEW q \in Queries, NEW panic \in BOOLEAN, BuildFails(q, panic)
      PROVE  BuildsNumbered'
  <2>1. UNCHANGED <<builds, cg>> /\ Return(q)
    BY <1>22, Zenon DEF BuildFails, status, cache
  <2> QED
    BY <2>1, NumbersReturn
<1>23. ASSUME NEW q \in Queries, NEW panic \in BOOLEAN, FillFails(q, panic)
      PROVE  BuildsNumbered'
  <2>1. UNCHANGED <<builds, cg>> /\ Return(q)
    BY <1>23, Zenon DEF FillFails, status, cache
  <2> QED
    BY <2>1, NumbersReturn
<1>40. ASSUME NEW q \in Queries, NEW panic \in BOOLEAN, SourcesFail(q, panic)
      PROVE  BuildsNumbered'
  <2>1. UNCHANGED <<builds, cg>> /\ Return(q)
    BY <1>40, Zenon DEF SourcesFail, status, cache
  <2> QED
    BY <2>1, NumbersReturn
<1>24. ASSUME NEW e \in Editors, BumpRevisions(e)
      PROVE  BuildsNumbered'
  <2>1. \A o \in Queries : pc'[o] = pc[o]
    BY <1>24, EditorMoves, ThreadsAssumption DEF BumpRevisions, Moved
  <2>2. UNCHANGED <<builds, ins>> /\ (cg' = cg \/ cg' = NoCalls)
    BY <1>24, Zenon DEF BumpRevisions, status, cache, lookup, locals
  <2> QED
    BY <2>1, <2>2 DEF BuildsNumbered
<1>25. ASSUME NEW e \in Editors, ResetInsight(e)
      PROVE  BuildsNumbered'
  <2>1. \A o \in Queries : pc'[o] = pc[o]
    BY <1>25, EditorMoves, ThreadsAssumption DEF ResetInsight, Moved
  <2>2. UNCHANGED <<builds, ins>> /\ (cg' = cg \/ cg' = NoCalls)
    BY <1>25, Zenon DEF ResetInsight, status, cache, lookup, locals
  <2> QED
    BY <2>1, <2>2 DEF BuildsNumbered
<1>26. ASSUME NEW e \in Editors, ResetCalls(e)
      PROVE  BuildsNumbered'
  <2>1. \A o \in Queries : pc'[o] = pc[o]
    BY <1>26, EditorMoves, ThreadsAssumption DEF ResetCalls, Moved
  <2>2. UNCHANGED <<builds, ins>> /\ (cg' = cg \/ cg' = NoCalls)
    BY <1>26, Zenon DEF ResetCalls, status, cache, lookup, locals
  <2> QED
    BY <2>1, <2>2 DEF BuildsNumbered
<1>27. ASSUME NEW e \in Editors, ResetCallsRev(e)
      PROVE  BuildsNumbered'
  <2>1. \A o \in Queries : pc'[o] = pc[o]
    BY <1>27, EditorMoves, ThreadsAssumption DEF ResetCallsRev, Moved
  <2>2. UNCHANGED <<builds, ins>> /\ (cg' = cg \/ cg' = NoCalls)
    BY <1>27, Zenon DEF ResetCallsRev, status, cache, lookup, locals
  <2> QED
    BY <2>1, <2>2 DEF BuildsNumbered
<1>28. ASSUME NEW e \in Editors, ResetFingerprint(e)
      PROVE  BuildsNumbered'
  <2>1. \A o \in Queries : pc'[o] = pc[o]
    BY <1>28, EditorMoves, ThreadsAssumption DEF ResetFingerprint, Moved
  <2>2. UNCHANGED <<builds, ins>> /\ (cg' = cg \/ cg' = NoCalls)
    BY <1>28, Zenon DEF ResetFingerprint, status, cache, lookup, locals
  <2> QED
    BY <2>1, <2>2 DEF BuildsNumbered
<1>29. ASSUME NEW e \in Editors, EditBody(e)
      PROVE  BuildsNumbered'
  <2>1. \A o \in Queries : pc'[o] = pc[o]
    BY <1>29, EditorMoves, ThreadsAssumption DEF EditBody, Moved
  <2>2. UNCHANGED <<builds, ins>> /\ (cg' = cg \/ cg' = NoCalls)
    BY <1>29, Zenon DEF EditBody, status, cache, lookup, locals
  <2> QED
    BY <2>1, <2>2 DEF BuildsNumbered
<1>30. ASSUME NEW e \in Editors, EditTopology(e)
      PROVE  BuildsNumbered'
  <2>1. \A o \in Queries : pc'[o] = pc[o]
    BY <1>30, EditorMoves, ThreadsAssumption DEF EditTopology, Moved
  <2>2. UNCHANGED <<builds, ins>> /\ (cg' = cg \/ cg' = NoCalls)
    BY <1>30, Zenon DEF EditTopology, status, cache, lookup, locals
  <2> QED
    BY <2>1, <2>2 DEF BuildsNumbered
<1>31. CASE ReplacePackage \/ UNCHANGED vars
  <2>1. UNCHANGED <<builds, ins, cg, pc>>
    BY <1>31, Zenon DEF ReplacePackage, vars, status, cache, lookup, locals
  <2> QED
    BY <2>1 DEF BuildsNumbered
<1>32. ASSUME NEW q \in Queries, QueryStep(q) PROVE BuildsNumbered'
  BY <1>32, <1>1, <1>2, <1>3, <1>4, <1>5, <1>6, <1>7, <1>8, <1>9, <1>10,
     <1>11, <1>12, <1>13, <1>14, <1>15, <1>16, <1>17, <1>18, <1>19, <1>20,
     <1>40 DEF QueryStep
<1>33. ASSUME NEW e \in Editors, EditStep(e) PROVE BuildsNumbered'
  BY <1>33, <1>24, <1>25, <1>26, <1>27, <1>28 DEF EditStep
<1> QED
  BY <1>21, <1>22, <1>23, <1>40, <1>29, <1>30, <1>31, <1>32, <1>33
     DEF Next

\* The locals FlightInv mentions, of every thread but q.
OwersKeep(q) ==
    \A o \in Queries \ {q} :
        /\ fp'[o] = fp[o] /\ rev'[o] = rev[o]
        /\ ins'[o] = ins[o] /\ tagC'[o] = tagC[o]

\* A thread takes a step that neither uses a credit nor gives one, and leaves
\* the cache as good as it was: only its own debt can change.
LEMMA QuietFrame ==
  ASSUME TypeOK, FlightInv, NEW q \in Queries, NEW S, Moved(q, S),
         UNCHANGED <<builds, causes, callRev, pkgs, ig, cgRev, cgFp>>,
         cg' = NoCalls <=> cg = NoCalls,
         OwersKeep(q),
         \A o \in Queries \ {q} : o \in buildLock' => o \in buildLock,
         pc[q] \in MakingSteps \cup {"tag"} =>
            pc'[q] \in MakingSteps \cup {"tag"},
         Owes(q)'
  PROVE  FlightInv'
<1>1. builds' <= 1 + causes'
  BY DEF FlightInv
<1>2. \/ CacheIsCurrent'
      \/ \E o \in Queries : pc'[o] \in MakingSteps \cup {"tag"}
      \/ builds' <= causes'
  BY DEF FlightInv, CacheIsCurrent, Moved
<1>3. ASSUME NEW o \in Queries PROVE Owes(o)'
  <2>1. CASE o = q
    BY <2>1
  <2>2. CASE o # q
    <3>1. o \in Queries \cup Editors
      OBVIOUS
    <3>2. pc'[o] = pc[o]
      BY <2>2, <3>1 DEF Moved
    <3>3. /\ fp'[o] = fp[o] /\ rev'[o] = rev[o] /\ ins'[o] = ins[o]
          /\ tagC'[o] = tagC[o]
      BY <2>2 DEF OwersKeep
    <3>4. WillHit(o)' <=> WillHit(o)
      BY <3>2, <3>3 DEF WillHit
    <3>5. Owes(o) /\ (o \in buildLock' => o \in buildLock)
      BY <2>2 DEF FlightInv
    <3> QED
      BY <3>2, <3>3, <3>4, <3>5 DEF Owes
  <2> QED
    BY <2>1, <2>2
<1> QED
  BY <1>1, <1>2, <1>3 DEF FlightInv

\* A step that is a cause pays for what it makes stale: it changes the packages
\* or the rest, never both, so a debt grows by at most one.
LEMMA CauseFrame ==
  ASSUME TypeOK, FlightInv,
         builds' = builds, causes' = causes + 1,
         \A o \in Queries : o \in buildLock' =>
            /\ o \in buildLock
            /\ pc'[o] = pc[o] /\ fp'[o] = fp[o] /\ rev'[o] = rev[o]
            /\ ins'[o] = ins[o],
         pkgs' = pkgs \/ UNCHANGED <<cg, cgFp, cgRev, callRev, ig>>
  PROVE  FlightInv'
<1>1. builds' \in Nat /\ causes' \in Nat /\ builds' <= causes'
      /\ builds \in Nat /\ causes \in Nat
  BY DEF FlightInv, TypeOK
<1>2. ASSUME NEW o \in Queries, o \in buildLock' PROVE Owes(o)'
  <2>1. /\ o \in buildLock
        /\ pc'[o] = pc[o] /\ fp'[o] = fp[o] /\ rev'[o] = rev[o]
        /\ ins'[o] = ins[o]
    BY <1>2
  <2>2. Owes(o)
    BY DEF FlightInv
  <2>3. CASE pkgs' = pkgs
    <3>1. fp[o] # pkgs => (pc[o] \in LookupSteps => builds + 1 <= causes')
      BY <1>1, <2>1, <2>2 DEF Owes
    <3>2. pc[o] = "tag" => builds + 1 <= causes'
      BY <1>1, <2>1, <2>2 DEF Owes
    <3> QED
      BY <1>1, <2>1, <2>3, <3>1, <3>2 DEF Owes
  <2>4. CASE UNCHANGED <<cg, cgFp, cgRev, callRev, ig>>
    <3>1. WillHit(o)' <=> WillHit(o)
      BY <2>1, <2>4 DEF WillHit
    <3>2. ~WillHit(o) => (pc[o] \in LookupSteps => builds + 1 <= causes')
      BY <1>1, <2>1, <2>2 DEF Owes
    <3>3. pc[o] = "tag" => builds + 1 <= causes'
      BY <1>1, <2>1, <2>2 DEF Owes
    <3> QED
      BY <1>1, <2>1, <3>1, <3>2, <3>3 DEF Owes
  <2> QED
    BY <2>3, <2>4
<1>3. ASSUME NEW o \in Queries PROVE Owes(o)'
  <2>1. CASE o \in buildLock'
    BY <2>1, <1>2
  <2>2. CASE o \notin buildLock'
    BY <2>2 DEF Owes
  <2> QED
    BY <2>1, <2>2
<1> QED
  BY <1>1, <1>3 DEF FlightInv

\* A thread that returns owes nothing.
LEMMA QuietReturn ==
  ASSUME TypeOK, FlightInv, NEW q \in Queries, Return(q),
         UNCHANGED <<builds, causes, callRev, pkgs, ig, cgRev, cgFp>>,
         cg' = NoCalls <=> cg = NoCalls,
         pc[q] \notin MakingSteps \cup {"tag"}
  PROVE  FlightInv'
<1>1. Moved(q, {"idle"})
  BY ReturnTyped
<1>2. OwersKeep(q)
  BY DEF Return, Forget, OwersKeep, TypeOK
<1>3. buildLock' = buildLock \ {q}
  BY DEF Return
<1>4. Owes(q)'
  BY <1>3 DEF Owes
<1> QED
  BY <1>1, <1>2, <1>3, <1>4, QuietFrame

\* A build needs a credit and the others keep theirs.
LEMMA FlightStep ==
  GraphInv /\ BuildsNumbered /\ FlightInv /\ [Next]_vars => FlightInv'
<1> SUFFICES ASSUME GraphInv, BuildsNumbered, FlightInv, [Next]_vars
             PROVE  FlightInv'
  OBVIOUS
<1>a. TypeOK /\ LocksMatchSteps /\ OrderInv /\ CacheInv
  BY DEF GraphInv, OrderInv, CacheInv
<1> USE <1>a
<1>1. ASSUME NEW q \in Queries, ReadFingerprint(q)
      PROVE  FlightInv'
  <2>1. Moved(q, {"sources"}) /\ pc[q] = "fingerprint"
    BY <1>1, QueryMoves DEF ReadFingerprint, Moved
  <2>2. UNCHANGED <<builds, causes, callRev, pkgs, ig, cgRev, cgFp, cg>>
    BY <1>1, Zenon DEF ReadFingerprint, status, revs, data, cache
  <2>3. OwersKeep(q)
    BY <1>1 DEF ReadFingerprint, OwersKeep, lookup, built, locals, TypeOK
  <2>4. buildLock' = buildLock
    BY <1>1, Zenon DEF ReadFingerprint
  <2>5. Owes(q)'
    <3>1. SUFFICES ASSUME q \in buildLock PROVE Owes(q)'
      BY <2>4 DEF Owes
    <3>2. \A o \in Queries : pc[o] \notin MakingSteps \cup {"tag"}
      BY <2>1, <3>1 DEF LocksMatchSteps, MakingSteps, BuildSteps
    <3>3. CacheIsCurrent \/ builds <= causes
      BY <3>2 DEF FlightInv
    <3>4. fp'[q] = pkgs /\ pc'[q] = "sources"
      BY <1>1, <2>1 DEF ReadFingerprint, Moved, TypeOK
    <3>5. CacheIsCurrent => WillHit(q)'
      BY <2>2, <3>4 DEF CacheIsCurrent, WillHit
    <3> QED
      BY <2>2, <3>3, <3>4, <3>5 DEF Owes, MakingSteps
  <2> QED
    BY <2>1, <2>2, <2>3, <2>4, <2>5, QuietFrame DEF Moved, MakingSteps
<1>2. ASSUME NEW q \in Queries, LoadSources(q)
      PROVE  FlightInv'
  <2>1. Moved(q, {"revision"}) /\ pc[q] = "sources"
    BY <1>2, QueryMoves DEF LoadSources, Moved
  <2>2. UNCHANGED <<builds, causes, callRev, pkgs, ig, cgRev, cgFp, cg>>
    BY <1>2, Zenon DEF LoadSources, status, revs, data, cache
  <2>3. OwersKeep(q)
    BY <1>2 DEF LoadSources, OwersKeep, lookup, built, locals
  <2>4. buildLock' = buildLock
    BY <1>2, Zenon DEF LoadSources
  <2>5. Owes(q)'
    <3>1. pc'[q] = "revision" /\ fp'[q] = fp[q]
      BY <1>2, <2>1 DEF LoadSources, Moved, lookup, locals
    <3>2. WillHit(q)' <=> WillHit(q)
      BY <1>2, <2>1, <2>2, <3>1 DEF LoadSources, WillHit, TypeOK
    <3>3. Owes(q)
      BY DEF FlightInv
    <3> QED
      BY <2>1, <2>2, <2>4, <3>1, <3>2, <3>3
         DEF Owes, LookupSteps, MakingSteps
  <2> QED
    BY <2>1, <2>2, <2>3, <2>4, <2>5, QuietFrame DEF Moved, MakingSteps
<1>3. ASSUME NEW q \in Queries, ReadRevision(q)
      PROVE  FlightInv'
  <2>1. Moved(q, {"insight"}) /\ pc[q] = "revision"
    BY <1>3, QueryMoves DEF ReadRevision, Moved
  <2>2. UNCHANGED <<builds, causes, callRev, pkgs, ig, cgRev, cgFp, cg>>
    BY <1>3, Zenon DEF ReadRevision, status, revs, data, cache
  <2>3. OwersKeep(q)
    BY <1>3 DEF ReadRevision, OwersKeep, lookup, built, locals, TypeOK
  <2>4. buildLock' = buildLock
    BY <1>3, Zenon DEF ReadRevision
  <2>5. Owes(q)'
    <3>1. pc'[q] = "insight" /\ fp'[q] = fp[q]
      BY <1>3, <2>1 DEF ReadRevision, Moved, lookup, locals
    <3>2. WillHit(q)' <=> WillHit(q)
      BY <1>3, <2>1, <2>2, <3>1 DEF ReadRevision, WillHit, TypeOK
    <3>3. Owes(q)
      BY DEF FlightInv
    <3> QED
      BY <2>1, <2>2, <2>4, <3>1, <3>2, <3>3
         DEF Owes, LookupSteps, MakingSteps
  <2> QED
    BY <2>1, <2>2, <2>3, <2>4, <2>5, QuietFrame DEF Moved, MakingSteps
<1>4. ASSUME NEW q \in Queries, CloneInsight(q)
      PROVE  FlightInv'
  <2>1. Moved(q, {"calls"}) /\ pc[q] = "insight"
    BY <1>4, QueryMoves DEF CloneInsight, Moved
  <2>2. UNCHANGED <<builds, causes, callRev, pkgs, ig, cgRev, cgFp, cg>>
    BY <1>4, Zenon DEF CloneInsight, status, revs, data, cache
  <2>3. OwersKeep(q)
    BY <1>4 DEF CloneInsight, OwersKeep, lookup, built, locals, TypeOK
  <2>4. buildLock' = buildLock
    BY <1>4, Zenon DEF CloneInsight
  <2>5. Owes(q)'
    <3>1. pc'[q] = "calls" /\ fp'[q] = fp[q]
      BY <1>4, <2>1 DEF CloneInsight, Moved, lookup, locals
    <3>2. WillHit(q)' <=> WillHit(q)
      BY <1>4, <2>1, <2>2, <3>1 DEF CloneInsight, WillHit, TypeOK
    <3>3. Owes(q)
      BY DEF FlightInv
    <3> QED
      BY <2>1, <2>2, <2>4, <3>1, <3>2, <3>3
         DEF Owes, LookupSteps, MakingSteps
  <2> QED
    BY <2>1, <2>2, <2>3, <2>4, <2>5, QuietFrame DEF Moved, MakingSteps
<1>5. ASSUME NEW q \in Queries, LockCalls(q)
      PROVE  FlightInv'
  <2>1. /\ UNCHANGED <<builds, causes, callRev, pkgs, ig, cgRev, cgFp, cg>>
        /\ pc[q] = "calls"
    BY <1>5, Zenon DEF LockCalls, status, revs, data, cache
  <2>2. CASE Return(q)
    BY <2>1, <2>2, QuietReturn DEF MakingSteps
  <2>3. CASE ~Return(q)
    <3>1. Moved(q, {"check"})
      BY <1>5, <2>3, QueryMoves DEF LockCalls
    <3>2. OwersKeep(q)
      BY <1>5, <2>3 DEF LockCalls, OwersKeep, lookup, built, locals
    <3>3. buildLock' \ {q} \subseteq buildLock
      BY <1>5, <2>3 DEF LockCalls, rw
    <3>4. Owes(q)'
      <4>1. UNCHANGED <<fp, rev, ins, buildLock>> /\ pc'[q] = "check"
        BY <1>5, <2>3, <3>1 DEF LockCalls, Moved, lookup, locals
      <4>2. WillHit(q)' <=> WillHit(q)
        BY <2>1, <4>1 DEF WillHit
      <4>3. Owes(q)
        BY DEF FlightInv
      <4> QED
        BY <2>1, <4>1, <4>2, <4>3 DEF Owes, LookupSteps, MakingSteps
    <3> QED
      BY <2>1, <3>1, <3>2, <3>3, <3>4, QuietFrame DEF MakingSteps
  <2> QED
    BY <2>2, <2>3
<1>6. ASSUME NEW q \in Queries, Check(q)
      PROVE  FlightInv'
  <2>1. UNCHANGED <<builds, causes, callRev, pkgs, ig, cgRev, cgFp, cg>>
        /\ UNCHANGED <<fp, rev, ins, tagC>> /\ pc[q] = "check"
    BY <1>6, Zenon DEF Check, status, revs, data, cache, lookup, built, locals
  <2>2. OwersKeep(q)
    BY <2>1 DEF OwersKeep
  <2>3. WillHit(q) <=> IsHit(q)
    BY <2>1 DEF WillHit, IsHit
  <2>4. CASE IsHit(q)
    <3>1. Moved(q, {"held"}) /\ buildLock' = buildLock \ {q}
      BY <1>6, <2>4, QueryMoves DEF Check
    <3>2. Owes(q)'
      BY <3>1 DEF Owes
    <3> QED
      BY <2>1, <2>2, <3>1, <3>2, QuietFrame DEF MakingSteps
  <2>5. CASE ~IsHit(q)
    <3>1. /\ Moved(q, {IF q \in buildLock THEN "tag" ELSE "lock"})
          /\ buildLock' = buildLock
      BY <1>6, <2>5, QueryMoves DEF Check
    <3>2. Owes(q)
      BY DEF FlightInv
    <3>3. q \in buildLock => pc'[q] = "tag"
      BY <3>1 DEF Moved
    <3>4. Owes(q)'
      BY <2>1, <2>3, <2>5, <3>1, <3>2, <3>3
         DEF Owes, LookupSteps, MakingSteps
    <3> QED
      BY <2>1, <2>2, <3>1, <3>4, QuietFrame DEF MakingSteps
  <2> QED
    BY <2>4, <2>5
<1>7. ASSUME NEW q \in Queries, AcquireBuildLock(q)
      PROVE  FlightInv'
  <2>1. /\ UNCHANGED <<builds, causes, callRev, pkgs, ig, cgRev, cgFp, cg>>
        /\ pc[q] = "lock"
    BY <1>7, Zenon DEF AcquireBuildLock, status, revs, data, cache
  <2>2. CASE Return(q)
    BY <2>1, <2>2, QuietReturn DEF MakingSteps
  <2>3. CASE ~Return(q)
    <3>1. Moved(q, {"fingerprint"})
      BY <1>7, <2>3, QueryMoves DEF AcquireBuildLock, AfterBuildLock
    <3>2. OwersKeep(q)
      BY <1>7, <2>3 DEF AcquireBuildLock, OwersKeep, lookup, built, locals
    <3>3. buildLock' \ {q} \subseteq buildLock
      BY <1>7, <2>3 DEF AcquireBuildLock, rw
    <3>4. Owes(q)'
      BY <3>1 DEF Moved, Owes, LookupSteps, MakingSteps
    <3> QED
      BY <2>1, <3>1, <3>2, <3>3, <3>4, QuietFrame DEF MakingSteps
  <2> QED
    BY <2>2, <2>3
<1>8. ASSUME NEW q \in Queries, TagBuild(q)
      PROVE  FlightInv'
  <2>1. Moved(q, {"nodes"}) /\ pc[q] = "tag"
    BY <1>8, QueryMoves DEF TagBuild
  <2>2. UNCHANGED <<causes, callRev, pkgs, fp, buildLock>>
    BY <1>8, Zenon DEF TagBuild, revs, data, lookup
  <2>3. builds' = builds + 1 /\ tagC'[q] = callRev
    BY <1>8 DEF TagBuild, TypeOK
  <2>4. \A o \in Queries : o \in buildLock <=> o = q
    BY <2>1 DEF LocksMatchSteps
  <2>5. Owes(q) /\ builds \in Nat /\ causes \in Nat
    BY DEF FlightInv, TypeOK
  <2>6. builds' <= 1 + causes' /\ (fp[q] # pkgs => builds' <= causes')
    BY <2>1, <2>2, <2>3, <2>4, <2>5 DEF Owes
  <2>7. pc'[q] = "nodes"
    BY <2>1 DEF Moved
  <2>8. Owes(q)'
    BY <2>2, <2>3, <2>6, <2>7 DEF Owes, LookupSteps
  <2>9. ASSUME NEW o \in Queries PROVE Owes(o)'
    <3>1. CASE o = q
      BY <2>8, <3>1
    <3>2. CASE o # q
      BY <2>2, <2>4, <3>2 DEF Owes
    <3> QED
      BY <3>1, <3>2
  <2> QED
    BY <2>6, <2>7, <2>9 DEF FlightInv, MakingSteps
<1>9. ASSUME NEW q \in Queries, BuildNodes(q)
      PROVE  FlightInv'
  <2>1. Moved(q, {"edges"}) /\ pc[q] = "nodes"
    BY <1>9, QueryMoves DEF BuildNodes, Moved
  <2>2. UNCHANGED <<builds, causes, callRev, pkgs, ig, cgRev, cgFp, cg>>
    BY <1>9, Zenon DEF BuildNodes, status, revs, data, cache
  <2>3. OwersKeep(q)
    BY <1>9 DEF BuildNodes, OwersKeep, lookup, built, locals, TypeOK
  <2>4. buildLock' = buildLock
    BY <1>9, Zenon DEF BuildNodes
  <2>5. Owes(q)'
    <3>1. UNCHANGED <<fp, tagC>> /\ pc'[q] = "edges"
      BY <1>9, <2>1 DEF BuildNodes, Moved, lookup, built, locals
    <3>2. Owes(q)
      BY DEF FlightInv
    <3> QED
      BY <2>1, <2>2, <2>4, <3>1, <3>2
         DEF Owes, LookupSteps, MakingSteps
  <2> QED
    BY <2>1, <2>2, <2>3, <2>4, <2>5, QuietFrame DEF Moved, MakingSteps
<1>10. ASSUME NEW q \in Queries, BuildEdges(q)
      PROVE  FlightInv'
  <2>1. Moved(q, {"publish_insight"}) /\ pc[q] = "edges"
    BY <1>10, QueryMoves DEF BuildEdges, Moved
  <2>2. UNCHANGED <<builds, causes, callRev, pkgs, ig, cgRev, cgFp, cg>>
    BY <1>10, Zenon DEF BuildEdges, status, revs, data, cache
  <2>3. OwersKeep(q)
    BY <1>10 DEF BuildEdges, OwersKeep, lookup, built, locals
  <2>4. buildLock' = buildLock
    BY <1>10, Zenon DEF BuildEdges
  <2>5. Owes(q)'
    <3>1. UNCHANGED <<fp, tagC>> /\ pc'[q] = "publish_insight"
      BY <1>10, <2>1 DEF BuildEdges, Moved, lookup, built, locals
    <3>2. Owes(q)
      BY DEF FlightInv
    <3> QED
      BY <2>1, <2>2, <2>4, <3>1, <3>2
         DEF Owes, LookupSteps, MakingSteps
  <2> QED
    BY <2>1, <2>2, <2>3, <2>4, <2>5, QuietFrame DEF Moved, MakingSteps
<1>11. ASSUME NEW q \in Queries, PublishInsight(q)
      PROVE  FlightInv'
  <2>1. Moved(q, {"publish_calls"}) /\ pc[q] = "publish_insight"
    BY <1>11, QueryMoves DEF PublishInsight, Moved
  <2>2. UNCHANGED <<builds, causes, callRev, pkgs, ig, cgRev, cgFp, cg>>
    BY <1>11, Zenon DEF PublishInsight, status, revs, data, cache
  <2>3. OwersKeep(q)
    BY <1>11 DEF PublishInsight, OwersKeep, lookup, built, locals
  <2>4. buildLock' = buildLock
    BY <1>11, Zenon DEF PublishInsight
  <2>5. Owes(q)'
    <3>1. UNCHANGED <<fp, tagC>> /\ pc'[q] = "publish_calls"
      BY <1>11, <2>1 DEF PublishInsight, Moved, lookup, built, locals
    <3>2. Owes(q)
      BY DEF FlightInv
    <3> QED
      BY <2>1, <2>2, <2>4, <3>1, <3>2
         DEF Owes, LookupSteps, MakingSteps
  <2> QED
    BY <2>1, <2>2, <2>3, <2>4, <2>5, QuietFrame DEF Moved, MakingSteps
<1>12. ASSUME NEW q \in Queries, PublishCalls(q)
      PROVE  FlightInv'
  <2>1. UNCHANGED <<builds, callRev, pkgs, ig, cgRev, cgFp, cg>>
        /\ pc[q] = "publish_calls"
    BY <1>12, Zenon DEF PublishCalls, status, revs, data, cache
  <2>2. CASE Return(q)
    <3>1. Moved(q, {"idle"}) /\ buildLock' = buildLock \ {q}
      BY <2>2, ReturnTyped DEF Return
    <3>2. causes' = causes + 1
      BY <1>12, <2>1, <3>1 DEF PublishCalls, Moved, Goto, TypeOK
    <3>3. \A o \in Queries : o \notin buildLock'
      BY <2>1, <3>1 DEF LocksMatchSteps, BuildSteps
    <3> QED
      BY <2>1, <3>2, <3>3, CauseFrame
  <2>3. CASE ~Return(q)
    <3>1. Moved(q, {"publish_all"})
      BY <1>12, <2>3, QueryMoves DEF PublishCalls
    <3>2. UNCHANGED <<causes, buildLock, fp, rev, ins, tagC>>
      BY <1>12, <2>3, Zenon DEF PublishCalls, lookup, built, locals
    <3>3. OwersKeep(q)
      BY <3>2 DEF OwersKeep
    <3>4. Owes(q) /\ pc'[q] = "publish_all"
      BY <3>1 DEF FlightInv, Moved
    <3>5. Owes(q)'
      BY <2>1, <3>2, <3>4 DEF Owes, LookupSteps, MakingSteps
    <3> QED
      BY <2>1, <3>1, <3>2, <3>3, <3>5, QuietFrame DEF Moved, MakingSteps
  <2> QED
    BY <2>2, <2>3
<1>13. ASSUME NEW q \in Queries, PublishAll(q)
      PROVE  FlightInv'
  <2>1. Moved(q, {"mark"}) /\ pc[q] = "publish_all"
    BY <1>13, QueryMoves DEF PublishAll
  <2>2. UNCHANGED <<builds, causes, callRev, pkgs, buildLock>>
    BY <1>13, Zenon DEF PublishAll, status, revs, data
  <2>3. ig' = ins[q] /\ cg' = new[q] /\ cgFp' = fp[q] /\ cgRev' = tagC[q]
    BY <1>13 DEF PublishAll
  <2>4. ins[q].build >= 1 /\ new[q].build = ins[q].build
    BY <2>1
       DEF OrderInv, RevisionsCoverNeeds, BuildsNumbered, MakingSteps
  <2>5. ins[q] # NoInsight /\ new[q] # NoCalls
    BY <2>4 DEF NoInsight, NoCalls
  <2>6. q \in buildLock /\ \A o \in Queries : o \in buildLock => o = q
    BY <2>1 DEF LocksMatchSteps, BuildSteps
  <2>7. fp[q] # pkgs \/ tagC[q] # callRev => builds <= causes
    BY <2>1, <2>6 DEF FlightInv, Owes, MakingSteps
  <2>8. CacheIsCurrent' \/ builds' <= causes'
    BY <2>2, <2>3, <2>5, <2>7 DEF CacheIsCurrent
  <2>9. pc'[q] = "mark"
    BY <2>1 DEF Moved
  <2>10. ASSUME NEW o \in Queries PROVE Owes(o)'
    BY <2>2, <2>6, <2>9 DEF Owes, LookupSteps, MakingSteps
  <2>11. builds' <= 1 + causes'
    BY <2>2 DEF FlightInv
  <2> QED
    BY <2>8, <2>10, <2>11 DEF FlightInv
<1>14. ASSUME NEW q \in Queries, MarkReady(q)
      PROVE  FlightInv'
  <2>1. Moved(q, {"reread"}) /\ pc[q] = "mark"
    BY <1>14, QueryMoves DEF MarkReady, Moved
  <2>2. UNCHANGED <<builds, causes, callRev, pkgs, ig, cgRev, cgFp, cg>>
    BY <1>14, Zenon DEF MarkReady, status, revs, data, cache
  <2>3. OwersKeep(q)
    BY <1>14 DEF MarkReady, OwersKeep, lookup, built, locals
  <2>4. buildLock' = buildLock
    BY <1>14, Zenon DEF MarkReady
  <2>5. Owes(q)'
    BY <2>1 DEF Moved, Owes, LookupSteps, MakingSteps
  <2> QED
    BY <2>1, <2>2, <2>3, <2>4, <2>5, QuietFrame DEF Moved, MakingSteps
<1>15. ASSUME NEW q \in Queries, Reread(q)
      PROVE  FlightInv'
  <2>1. /\ UNCHANGED <<builds, causes, callRev, pkgs, ig, cgRev, cgFp, cg>>
        /\ pc[q] = "reread"
    BY <1>15, Zenon DEF Reread, status, revs, data, cache
  <2>2. CASE Return(q)
    BY <2>1, <2>2, QuietReturn DEF MakingSteps
  <2>3. CASE ~Return(q)
    <3>1. Moved(q, {"held"})
      BY <1>15, <2>3, QueryMoves DEF Reread
    <3>2. OwersKeep(q)
      BY <1>15, <2>3 DEF Reread, OwersKeep, lookup, built, locals
    <3>3. buildLock' \ {q} \subseteq buildLock
      BY <1>15, <2>3 DEF Reread, rw
    <3>4. Owes(q)'
      BY <3>1 DEF Moved, Owes, LookupSteps, MakingSteps
    <3> QED
      BY <2>1, <3>1, <3>2, <3>3, <3>4, QuietFrame DEF MakingSteps
  <2> QED
    BY <2>2, <2>3
<1>16. ASSUME NEW q \in Queries, DropGuard(q)
      PROVE  FlightInv'
  <2>1. /\ UNCHANGED <<builds, causes, callRev, pkgs, ig, cgRev, cgFp, cg>>
        /\ pc[q] = "held"
    BY <1>16, Zenon DEF DropGuard, status, revs, data, cache
  <2>2. CASE Return(q)
    BY <2>1, <2>2, QuietReturn DEF MakingSteps
  <2>3. CASE ~Return(q)
    <3>1. Moved(q, {"relock"})
      BY <1>16, <2>3, QueryMoves DEF DropGuard
    <3>2. OwersKeep(q)
      BY <1>16, <2>3 DEF DropGuard, OwersKeep, lookup, built, locals
    <3>3. buildLock' \ {q} \subseteq buildLock
      BY <1>16, <2>3 DEF DropGuard, rw
    <3>4. Owes(q)'
      BY <3>1 DEF Moved, Owes, LookupSteps, MakingSteps
    <3> QED
      BY <2>1, <3>1, <3>2, <3>3, <3>4, QuietFrame DEF MakingSteps
  <2> QED
    BY <2>2, <2>3
<1>17. ASSUME NEW q \in Queries, FillLock(q)
      PROVE  FlightInv'
  <2>1. /\ UNCHANGED <<builds, causes, callRev, pkgs, ig, cgRev, cgFp, cg>>
        /\ pc[q] = "relock"
    BY <1>17, Zenon DEF FillLock, status, revs, data, cache
  <2>2. CASE Return(q)
    BY <2>1, <2>2, QuietReturn DEF MakingSteps
  <2>3. CASE ~Return(q)
    <3>1. Moved(q, {"fill_insight"})
      BY <1>17, <2>3, QueryMoves DEF FillLock
    <3>2. OwersKeep(q)
      BY <1>17, <2>3 DEF FillLock, OwersKeep, lookup, built, locals
    <3>3. buildLock' \ {q} \subseteq buildLock
      BY <1>17, <2>3 DEF FillLock, rw
    <3>4. Owes(q)'
      BY <3>1 DEF Moved, Owes, LookupSteps, MakingSteps
    <3> QED
      BY <2>1, <3>1, <3>2, <3>3, <3>4, QuietFrame DEF MakingSteps
  <2> QED
    BY <2>2, <2>3
<1>18. ASSUME NEW q \in Queries, FillInsight(q)
      PROVE  FlightInv'
  <2>1. /\ UNCHANGED <<builds, causes, callRev, pkgs, ig, cgRev, cgFp, cg>>
        /\ pc[q] = "fill_insight"
    BY <1>18, Zenon DEF FillInsight, status, revs, data, cache
  <2>2. CASE Return(q)
    BY <2>1, <2>2, QuietReturn DEF MakingSteps
  <2>3. CASE ~Return(q)
    <3>1. Moved(q, {"fill_calls"})
      BY <1>18, <2>3, QueryMoves DEF FillInsight
    <3>2. OwersKeep(q)
      BY <1>18, <2>3 DEF FillInsight, OwersKeep, lookup, built, locals, TypeOK
    <3>3. buildLock' \ {q} \subseteq buildLock
      BY <1>18, <2>3 DEF FillInsight, rw
    <3>4. Owes(q)'
      BY <3>1 DEF Moved, Owes, LookupSteps, MakingSteps
    <3> QED
      BY <2>1, <3>1, <3>2, <3>3, <3>4, QuietFrame DEF MakingSteps
  <2> QED
    BY <2>2, <2>3
<1>19. ASSUME NEW q \in Queries, FillCalls(q)
      PROVE  FlightInv'
  <2>1. /\ UNCHANGED <<builds, causes, callRev, pkgs, ig, cgRev, cgFp, cg>>
        /\ pc[q] = "fill_calls"
    BY <1>19, Zenon DEF FillCalls, status, revs, data, cache
  <2>2. CASE Return(q)
    BY <2>1, <2>2, QuietReturn DEF MakingSteps
  <2>3. CASE ~Return(q)
    <3>1. Moved(q, {"fill"})
      BY <1>19, <2>3, QueryMoves DEF FillCalls
    <3>2. OwersKeep(q)
      BY <1>19, <2>3 DEF FillCalls, OwersKeep, lookup, built, locals
    <3>3. buildLock' \ {q} \subseteq buildLock
      BY <1>19, <2>3 DEF FillCalls, rw
    <3>4. Owes(q)'
      BY <3>1 DEF Moved, Owes, LookupSteps, MakingSteps
    <3> QED
      BY <2>1, <3>1, <3>2, <3>3, <3>4, QuietFrame DEF MakingSteps
  <2> QED
    BY <2>2, <2>3
<1>20. ASSUME NEW q \in Queries, Fill(q)
      PROVE  FlightInv'
  <2>1. UNCHANGED <<builds, causes, callRev, pkgs, ig, cgRev, cgFp>>
        /\ Return(q) /\ pc[q] = "fill"
    BY <1>20, Zenon DEF Fill, status, revs, data
  <2>2. cg # NoCalls
    BY <2>1 DEF CacheInv, BuildLockPinsCache
  <2>3. cg'.build = cg.build /\ cg.build >= 1
    BY <1>20, <2>2 DEF Fill, TypeOK, CallGraphs, BuildsNumbered
  <2>4. cg' # NoCalls
    BY <2>3 DEF NoCalls
  <2> QED
    BY <2>1, <2>2, <2>4, QuietReturn DEF MakingSteps
<1>21. ASSUME NEW q \in Queries, NEW m \in {"query", "complete"}, Begin(q, m)
      PROVE  FlightInv'
  <2>1. Moved(q, {"fingerprint"}) /\ pc[q] = "idle"
    BY <1>21, QueryMoves DEF Begin, Moved
  <2>2. UNCHANGED <<builds, causes, callRev, pkgs, ig, cgRev, cgFp, cg>>
    BY <1>21, Zenon DEF Begin, status, revs, data, cache
  <2>3. OwersKeep(q)
    BY <1>21 DEF Begin, OwersKeep, lookup, built, locals
  <2>4. buildLock' = buildLock
    BY <1>21, Zenon DEF Begin
  <2>5. Owes(q)'
    BY <2>1 DEF Moved, Owes, LookupSteps, MakingSteps
  <2> QED
    BY <2>1, <2>2, <2>3, <2>4, <2>5, QuietFrame DEF Moved, MakingSteps
<1>22. ASSUME NEW q \in Queries, NEW panic \in BOOLEAN, BuildFails(q, panic)
      PROVE  FlightInv'
  <2>1. UNCHANGED <<builds, pkgs>> /\ causes' = causes + 1 /\ Return(q)
    BY <1>22, Zenon DEF BuildFails, data
  <2>2. pc[q] \in BuildSteps /\ buildLock' = buildLock \ {q}
    BY <1>22, <2>1 DEF BuildFails, BuildSteps, Return
  <2>3. \A o \in Queries : o \notin buildLock'
    BY <2>2 DEF LocksMatchSteps
  <2> QED
    BY <2>1, <2>3, CauseFrame
<1>23. ASSUME NEW q \in Queries, NEW panic \in BOOLEAN, FillFails(q, panic)
      PROVE  FlightInv'
  <2>1. UNCHANGED <<builds, causes, callRev, pkgs, ig, cgRev, cgFp, cg>>
        /\ Return(q) /\ pc[q] = "fill"
    BY <1>23, Zenon DEF FillFails, status, revs, data, cache
  <2> QED
    BY <2>1, QuietReturn DEF MakingSteps
<1>40. ASSUME NEW q \in Queries, NEW panic \in BOOLEAN, SourcesFail(q, panic)
      PROVE  FlightInv'
  <2>1. UNCHANGED <<builds, causes, callRev, pkgs, ig, cgRev, cgFp, cg>>
        /\ Return(q) /\ pc[q] = "sources"
    BY <1>40, Zenon DEF SourcesFail, status, revs, data, cache
  <2> QED
    BY <2>1, QuietReturn DEF MakingSteps
<1>24. ASSUME NEW e \in Editors, BumpRevisions(e)
      PROVE  FlightInv'
  <2>1. \A o \in Queries : pc'[o] = pc[o]
    BY <1>24, EditorMoves, ThreadsAssumption DEF BumpRevisions, Moved
  <2>2. /\ UNCHANGED <<builds, pkgs, buildLock, fp, rev, ins>>
        /\ causes' = causes + 1
    BY <1>24, Zenon DEF BumpRevisions, status, data, lookup, locals
  <2> QED
    BY <2>1, <2>2, CauseFrame
<1>25. ASSUME NEW e \in Editors, ResetInsight(e)
      PROVE  FlightInv'
  <2>1. \A o \in Queries : pc'[o] = pc[o]
    BY <1>25, EditorMoves, ThreadsAssumption DEF ResetInsight, Moved
  <2>2. /\ UNCHANGED <<builds, pkgs, buildLock, fp, rev, ins>>
        /\ causes' = causes + 1
    BY <1>25, Zenon DEF ResetInsight, status, data, lookup, locals
  <2> QED
    BY <2>1, <2>2, CauseFrame
<1>26. ASSUME NEW e \in Editors, ResetCalls(e)
      PROVE  FlightInv'
  <2>1. \A o \in Queries : pc'[o] = pc[o]
    BY <1>26, EditorMoves, ThreadsAssumption DEF ResetCalls, Moved
  <2>2. /\ UNCHANGED <<builds, pkgs, buildLock, fp, rev, ins>>
        /\ causes' = causes + 1
    BY <1>26, Zenon DEF ResetCalls, status, data, lookup, locals
  <2> QED
    BY <2>1, <2>2, CauseFrame
<1>27. ASSUME NEW e \in Editors, ResetCallsRev(e)
      PROVE  FlightInv'
  <2>1. \A o \in Queries : pc'[o] = pc[o]
    BY <1>27, EditorMoves, ThreadsAssumption DEF ResetCallsRev, Moved
  <2>2. /\ UNCHANGED <<builds, pkgs, buildLock, fp, rev, ins>>
        /\ causes' = causes + 1
    BY <1>27, Zenon DEF ResetCallsRev, status, data, lookup, locals
  <2> QED
    BY <2>1, <2>2, CauseFrame
<1>28. ASSUME NEW e \in Editors, ResetFingerprint(e)
      PROVE  FlightInv'
  <2>1. \A o \in Queries : pc'[o] = pc[o]
    BY <1>28, EditorMoves, ThreadsAssumption DEF ResetFingerprint, Moved
  <2>2. /\ UNCHANGED <<builds, pkgs, buildLock, fp, rev, ins>>
        /\ causes' = causes + 1
    BY <1>28, Zenon DEF ResetFingerprint, status, data, lookup, locals
  <2> QED
    BY <2>1, <2>2, CauseFrame
<1>29. ASSUME NEW e \in Editors, EditBody(e)
      PROVE  FlightInv'
  <2>1. \A o \in Queries : pc'[o] = pc[o]
    BY <1>29, EditorMoves, ThreadsAssumption DEF EditBody, Moved
  <2>2. UNCHANGED <<builds, causes, callRev, pkgs, ig, cgRev, cgFp, cg>>
        /\ UNCHANGED <<pkgs, buildLock, fp, rev, ins, tagC>>
    BY <1>29, Zenon DEF EditBody, status, revs, cache, lookup, built, locals
  <2> QED
    BY <2>1, <2>2 DEF FlightInv, CacheIsCurrent, Owes, WillHit
<1>30. ASSUME NEW e \in Editors, EditTopology(e)
      PROVE  FlightInv'
  <2>1. \A o \in Queries : pc'[o] = pc[o]
    BY <1>30, EditorMoves, ThreadsAssumption DEF EditTopology, Moved
  <2>2. UNCHANGED <<builds, causes, callRev, pkgs, ig, cgRev, cgFp, cg>>
        /\ UNCHANGED <<pkgs, buildLock, fp, rev, ins, tagC>>
    BY <1>30, Zenon
       DEF EditTopology, status, revs, cache, lookup, built, locals
  <2> QED
    BY <2>1, <2>2 DEF FlightInv, CacheIsCurrent, Owes, WillHit
<1>31. CASE ReplacePackage
  BY <1>31, CauseFrame
     DEF ReplacePackage, status, cache, revs, lookup, locals
<1>32. CASE UNCHANGED vars
  BY <1>32
     DEF FlightInv, CacheIsCurrent, Owes, WillHit, vars, status, cache, revs,
         data, lookup, built, locals
<1>33. ASSUME NEW q \in Queries, QueryStep(q) PROVE FlightInv'
  BY <1>33, <1>1, <1>2, <1>3, <1>4, <1>5, <1>6, <1>7, <1>8, <1>9, <1>10,
     <1>11, <1>12, <1>13, <1>14, <1>15, <1>16, <1>17, <1>18, <1>19, <1>20,
     <1>40 DEF QueryStep
<1>34. ASSUME NEW e \in Editors, EditStep(e) PROVE FlightInv'
  BY <1>34, <1>24, <1>25, <1>26, <1>27, <1>28 DEF EditStep
<1> QED
  BY <1>21, <1>22, <1>23, <1>40, <1>29, <1>30, <1>31, <1>32, <1>33, <1>34
     DEF Next

\* Nothing is built, and the first build is free.
LEMMA FlightInit == Init => BuildsNumbered /\ FlightInv
<1> SUFFICES ASSUME Init PROVE BuildsNumbered /\ FlightInv
  OBVIOUS
<1>1. \A q \in Queries : pc[q] = "idle"
  BY DEF Init
<1>2. builds = 0 /\ causes = 0 /\ buildLock = {} /\ cg = NoCalls
  BY DEF Init
<1> QED
  BY <1>1, <1>2 DEF BuildsNumbered, FlightInv, Owes, MakingSteps

\* Concurrent requests never cost more than one build: with any number of
\* threads, every build after the first is matched by an invalidation step, a
\* replaced package or a failed build of its own, because the second look under
\* call_graph_build_lock finds what the last builder published.
THEOREM OneBuildPerCause == Spec => []SingleFlight
<1>1. GraphInv => TypeOK /\ OrderInv /\ CacheInv
  BY DEF GraphInv, OrderInv, CacheInv
<1>2. FlightInv => SingleFlight
  BY DEF FlightInv, SingleFlight
<1> QED
  BY <1>1, <1>2, GraphInvariant, FlightInit, NumbersStep, FlightStep, PTL
     DEF Spec

-----------------------------------------------------------------------------
(* Deadlock.  Whether a wait ends is a matter of fairness and left to the  *)
(* model checker; that no waits form a circle is not.                      *)

\* A thread that holds the build lock is at work under it, and one that holds
\* insight_graph for writing is about to publish.
HoldersAtWork ==
    \A q \in Queries :
        /\ q \in buildLock => pc[q] \notin {"idle", "lock", "relock", "held"}
        /\ q \in writers[IG] => pc[q] \in {"publish_calls", "publish_all"}

\* A step of one thread, which may only give locks back or goes on under them.
LEMMA HoldersFrame ==
  ASSUME HoldersAtWork, NEW q \in Queries, NEW S, Moved(q, S),
         \A o \in Queries \ {q} :
            /\ o \in buildLock' => o \in buildLock
            /\ o \in writers'[IG] => o \in writers[IG],
         q \in buildLock' => pc'[q] \notin {"idle", "lock", "relock", "held"},
         q \in writers'[IG] => pc'[q] \in {"publish_calls", "publish_all"}
  PROVE  HoldersAtWork'
BY DEF HoldersAtWork, Moved

\* A return gives every lock back.
LEMMA HoldersReturn ==
  ASSUME TypeOK, HoldersAtWork, NEW q \in Queries, Return(q)
  PROVE  HoldersAtWork'
<1>1. Moved(q, {"idle"})
  BY ReturnTyped
<1>2. buildLock' = buildLock \ {q} /\ writers'[IG] = writers[IG] \ {q}
  BY DEF Return, GraphLocks
<1> QED
  BY <1>1, <1>2, HoldersFrame

\* Locks are held by threads at work under them.
LEMMA HoldersStep ==
  TypeOK /\ LocksMatchSteps /\ HoldersAtWork /\ [Next]_vars => HoldersAtWork'
<1> SUFFICES ASSUME TypeOK, LocksMatchSteps, HoldersAtWork, [Next]_vars
             PROVE  HoldersAtWork'
  OBVIOUS
<1>1. ASSUME NEW q \in Queries, ReadFingerprint(q)
      PROVE  HoldersAtWork'
  <2>1. Moved(q, {"sources"}) /\ pc[q] = "fingerprint"
    BY <1>1, QueryMoves DEF ReadFingerprint
  <2>2. UNCHANGED <<buildLock, writers>>
    BY <1>1, Zenon DEF ReadFingerprint, rw
  <2> QED
    BY <2>1, <2>2, HoldersFrame DEF Moved, HoldersAtWork
<1>2. ASSUME NEW q \in Queries, LoadSources(q)
      PROVE  HoldersAtWork'
  <2>1. Moved(q, {"revision"}) /\ pc[q] = "sources"
    BY <1>2, QueryMoves DEF LoadSources
  <2>2. UNCHANGED <<buildLock, writers>>
    BY <1>2, Zenon DEF LoadSources, rw
  <2> QED
    BY <2>1, <2>2, HoldersFrame DEF Moved, HoldersAtWork
<1>3. ASSUME NEW q \in Queries, ReadRevision(q)
      PROVE  HoldersAtWork'
  <2>1. Moved(q, {"insight"}) /\ pc[q] = "revision"
    BY <1>3, QueryMoves DEF ReadRevision
  <2>2. UNCHANGED <<buildLock, writers>>
    BY <1>3, Zenon DEF ReadRevision, rw
  <2> QED
    BY <2>1, <2>2, HoldersFrame DEF Moved, HoldersAtWork
<1>4. ASSUME NEW q \in Queries, CloneInsight(q)
      PROVE  HoldersAtWork'
  <2>1. Moved(q, {"calls"}) /\ pc[q] = "insight"
    BY <1>4, QueryMoves DEF CloneInsight
  <2>2. UNCHANGED <<buildLock, writers>>
    BY <1>4, Zenon DEF CloneInsight, rw
  <2> QED
    BY <2>1, <2>2, HoldersFrame DEF Moved, HoldersAtWork
<1>5. ASSUME NEW q \in Queries, LockCalls(q)
      PROVE  HoldersAtWork'
  <2>1. CASE Return(q)
    BY <2>1, HoldersReturn
  <2>2. CASE ~Return(q)
    <3>1. Moved(q, {"check"}) /\ pc[q] = "calls"
      BY <1>5, <2>2, QueryMoves DEF LockCalls
    <3>2. UNCHANGED <<buildLock, writers>>
      BY <1>5, <2>2, Zenon DEF LockCalls, rw
    <3> QED
      BY <3>1, <3>2, HoldersFrame DEF Moved, HoldersAtWork
  <2> QED
    BY <2>1, <2>2
<1>6. ASSUME NEW q \in Queries, Check(q)
      PROVE  HoldersAtWork'
  <2>1. writers' = writers /\ pc[q] = "check"
    BY <1>6, Zenon DEF Check
  <2>2. CASE IsHit(q)
    <3>1. Moved(q, {"held"}) /\ buildLock' = buildLock \ {q}
      BY <1>6, <2>2, QueryMoves DEF Check
    <3> QED
      BY <2>1, <3>1, HoldersFrame DEF HoldersAtWork
  <2>3. CASE ~IsHit(q)
    <3>1. /\ Moved(q, {IF q \in buildLock THEN "tag" ELSE "lock"})
          /\ buildLock' = buildLock
      BY <1>6, <2>3, QueryMoves DEF Check
    <3> QED
      BY <2>1, <3>1, HoldersFrame DEF Moved, HoldersAtWork
  <2> QED
    BY <2>2, <2>3
<1>7. ASSUME NEW q \in Queries, AcquireBuildLock(q)
      PROVE  HoldersAtWork'
  <2>1. CASE Return(q)
    BY <2>1, HoldersReturn
  <2>2. CASE ~Return(q)
    <3>1. Moved(q, {"fingerprint"}) /\ pc[q] = "lock"
      BY <1>7, <2>2, QueryMoves DEF AcquireBuildLock, AfterBuildLock
    <3>2. buildLock' = {q} /\ writers' = writers
      BY <1>7, <2>2, Zenon DEF AcquireBuildLock, rw
    <3> QED
      BY <3>1, <3>2, HoldersFrame DEF Moved, HoldersAtWork
  <2> QED
    BY <2>1, <2>2
<1>8. ASSUME NEW q \in Queries, TagBuild(q)
      PROVE  HoldersAtWork'
  <2>1. Moved(q, {"nodes"}) /\ pc[q] = "tag"
    BY <1>8, QueryMoves DEF TagBuild
  <2>2. UNCHANGED <<buildLock, writers>>
    BY <1>8, Zenon DEF TagBuild, rw
  <2> QED
    BY <2>1, <2>2, HoldersFrame DEF Moved, HoldersAtWork
<1>9. ASSUME NEW q \in Queries, BuildNodes(q)
      PROVE  HoldersAtWork'
  <2>1. Moved(q, {"edges"}) /\ pc[q] = "nodes"
    BY <1>9, QueryMoves DEF BuildNodes
  <2>2. UNCHANGED <<buildLock, writers>>
    BY <1>9, Zenon DEF BuildNodes, rw
  <2> QED
    BY <2>1, <2>2, HoldersFrame DEF Moved, HoldersAtWork
<1>10. ASSUME NEW q \in Queries, BuildEdges(q)
      PROVE  HoldersAtWork'
  <2>1. Moved(q, {"publish_insight"}) /\ pc[q] = "edges"
    BY <1>10, QueryMoves DEF BuildEdges
  <2>2. UNCHANGED <<buildLock, writers>>
    BY <1>10, Zenon DEF BuildEdges, rw
  <2> QED
    BY <2>1, <2>2, HoldersFrame DEF Moved, HoldersAtWork
<1>11. ASSUME NEW q \in Queries, PublishInsight(q)
      PROVE  HoldersAtWork'
  <2>1. Moved(q, {"publish_calls"}) /\ pc[q] = "publish_insight"
    BY <1>11, QueryMoves DEF PublishInsight
  <2>2. buildLock' = buildLock /\ writers'[IG] = {q}
    BY <1>11 DEF PublishInsight, TypeOK, GraphLocks
  <2> QED
    BY <2>1, <2>2, HoldersFrame DEF Moved, HoldersAtWork
<1>12. ASSUME NEW q \in Queries, PublishCalls(q)
      PROVE  HoldersAtWork'
  <2>1. CASE Return(q)
    BY <2>1, HoldersReturn
  <2>2. CASE ~Return(q)
    <3>1. Moved(q, {"publish_all"}) /\ pc[q] = "publish_calls"
      BY <1>12, <2>2, QueryMoves DEF PublishCalls
    <3>2. buildLock' = buildLock /\ writers'[IG] = writers[IG]
      BY <1>12, <2>2 DEF PublishCalls, TypeOK, GraphLocks, IG, CG
    <3> QED
      BY <3>1, <3>2, HoldersFrame DEF Moved, HoldersAtWork
  <2> QED
    BY <2>1, <2>2
<1>13. ASSUME NEW q \in Queries, PublishAll(q)
      PROVE  HoldersAtWork'
  <2>1. Moved(q, {"mark"}) /\ pc[q] = "publish_all"
    BY <1>13, QueryMoves DEF PublishAll
  <2>2. buildLock' = buildLock /\ writers'[IG] = {}
    BY <1>13 DEF PublishAll, GraphLocks
  <2> QED
    BY <2>1, <2>2, HoldersFrame DEF Moved, HoldersAtWork
<1>14. ASSUME NEW q \in Queries, MarkReady(q)
      PROVE  HoldersAtWork'
  <2>1. Moved(q, {"reread"}) /\ pc[q] = "mark"
    BY <1>14, QueryMoves DEF MarkReady
  <2>2. UNCHANGED <<buildLock, writers>>
    BY <1>14, Zenon DEF MarkReady, rw
  <2> QED
    BY <2>1, <2>2, HoldersFrame DEF Moved, HoldersAtWork
<1>15. ASSUME NEW q \in Queries, Reread(q)
      PROVE  HoldersAtWork'
  <2>1. CASE Return(q)
    BY <2>1, HoldersReturn
  <2>2. CASE ~Return(q)
    <3>1. Moved(q, {"held"}) /\ pc[q] = "reread"
      BY <1>15, <2>2, QueryMoves DEF Reread
    <3>2. buildLock' = buildLock \ {q} /\ writers' = writers
      BY <1>15, <2>2, Zenon DEF Reread, rw
    <3> QED
      BY <3>1, <3>2, HoldersFrame DEF Moved, HoldersAtWork
  <2> QED
    BY <2>1, <2>2
<1>16. ASSUME NEW q \in Queries, DropGuard(q)
      PROVE  HoldersAtWork'
  <2>1. CASE Return(q)
    BY <2>1, HoldersReturn
  <2>2. CASE ~Return(q)
    <3>1. Moved(q, {"relock"}) /\ pc[q] = "held"
      BY <1>16, <2>2, QueryMoves DEF DropGuard
    <3>2. UNCHANGED <<buildLock, writers>>
      BY <1>16, <2>2, Zenon DEF DropGuard, rw
    <3> QED
      BY <3>1, <3>2, HoldersFrame DEF Moved, HoldersAtWork
  <2> QED
    BY <2>1, <2>2
<1>17. ASSUME NEW q \in Queries, FillLock(q)
      PROVE  HoldersAtWork'
  <2>1. CASE Return(q)
    BY <2>1, HoldersReturn
  <2>2. CASE ~Return(q)
    <3>1. Moved(q, {"fill_insight"}) /\ pc[q] = "relock"
      BY <1>17, <2>2, QueryMoves DEF FillLock
    <3>2. buildLock' = {q} /\ writers' = writers
      BY <1>17, <2>2, Zenon DEF FillLock, rw
    <3> QED
      BY <3>1, <3>2, HoldersFrame DEF Moved, HoldersAtWork
  <2> QED
    BY <2>1, <2>2
<1>18. ASSUME NEW q \in Queries, FillInsight(q)
      PROVE  HoldersAtWork'
  <2>1. CASE Return(q)
    BY <2>1, HoldersReturn
  <2>2. CASE ~Return(q)
    <3>1. Moved(q, {"fill_calls"}) /\ pc[q] = "fill_insight"
      BY <1>18, <2>2, QueryMoves DEF FillInsight
    <3>2. UNCHANGED <<buildLock, writers>>
      BY <1>18, <2>2, Zenon DEF FillInsight, rw
    <3> QED
      BY <3>1, <3>2, HoldersFrame DEF Moved, HoldersAtWork
  <2> QED
    BY <2>1, <2>2
<1>19. ASSUME NEW q \in Queries, FillCalls(q)
      PROVE  HoldersAtWork'
  <2>1. CASE Return(q)
    BY <2>1, HoldersReturn
  <2>2. CASE ~Return(q)
    <3>1. Moved(q, {"fill"}) /\ pc[q] = "fill_calls"
      BY <1>19, <2>2, QueryMoves DEF FillCalls
    <3>2. buildLock' = buildLock /\ writers'[IG] = writers[IG]
      BY <1>19, <2>2 DEF FillCalls, TypeOK, GraphLocks, IG, CG
    <3> QED
      BY <3>1, <3>2, HoldersFrame DEF Moved, HoldersAtWork
  <2> QED
    BY <2>1, <2>2
<1>20. ASSUME NEW q \in Queries, Fill(q)
      PROVE  HoldersAtWork'
  BY <1>20, HoldersReturn DEF Fill
<1>21. ASSUME NEW q \in Queries, NEW m \in {"query", "complete"}, Begin(q, m)
      PROVE  HoldersAtWork'
  <2>1. Moved(q, {"fingerprint"}) /\ pc[q] = "idle"
    BY <1>21, QueryMoves DEF Begin
  <2>2. UNCHANGED <<buildLock, writers>>
    BY <1>21, Zenon DEF Begin, rw
  <2> QED
    BY <2>1, <2>2, HoldersFrame DEF Moved, HoldersAtWork
<1>22. ASSUME NEW q \in Queries, NEW panic \in BOOLEAN, BuildFails(q, panic)
      PROVE  HoldersAtWork'
  BY <1>22, HoldersReturn DEF BuildFails
<1>23. ASSUME NEW q \in Queries, NEW panic \in BOOLEAN, FillFails(q, panic)
      PROVE  HoldersAtWork'
  BY <1>23, HoldersReturn DEF FillFails
<1>40. ASSUME NEW q \in Queries, NEW panic \in BOOLEAN, SourcesFail(q, panic)
      PROVE  HoldersAtWork'
  BY <1>40, HoldersReturn DEF SourcesFail
<1>24. ASSUME NEW e \in Editors, BumpRevisions(e)
      PROVE  HoldersAtWork'
  <2>1. \A o \in Queries : pc'[o] = pc[o]
    BY <1>24, EditorMoves, ThreadsAssumption DEF BumpRevisions, Moved
  <2>2. UNCHANGED <<buildLock, writers>>
    BY <1>24, Zenon DEF BumpRevisions, rw
  <2> QED
    BY <2>1, <2>2 DEF HoldersAtWork
<1>25. ASSUME NEW e \in Editors, ResetInsight(e)
      PROVE  HoldersAtWork'
  <2>1. \A o \in Queries : pc'[o] = pc[o]
    BY <1>25, EditorMoves, ThreadsAssumption DEF ResetInsight, Moved
  <2>2. UNCHANGED <<buildLock, writers>>
    BY <1>25, Zenon DEF ResetInsight, rw
  <2> QED
    BY <2>1, <2>2 DEF HoldersAtWork
<1>26. ASSUME NEW e \in Editors, ResetCalls(e)
      PROVE  HoldersAtWork'
  <2>1. \A o \in Queries : pc'[o] = pc[o]
    BY <1>26, EditorMoves, ThreadsAssumption DEF ResetCalls, Moved
  <2>2. UNCHANGED <<buildLock, writers>>
    BY <1>26, Zenon DEF ResetCalls, rw
  <2> QED
    BY <2>1, <2>2 DEF HoldersAtWork
<1>27. ASSUME NEW e \in Editors, ResetCallsRev(e)
      PROVE  HoldersAtWork'
  <2>1. \A o \in Queries : pc'[o] = pc[o]
    BY <1>27, EditorMoves, ThreadsAssumption DEF ResetCallsRev, Moved
  <2>2. UNCHANGED <<buildLock, writers>>
    BY <1>27, Zenon DEF ResetCallsRev, rw
  <2> QED
    BY <2>1, <2>2 DEF HoldersAtWork
<1>28. ASSUME NEW e \in Editors, ResetFingerprint(e)
      PROVE  HoldersAtWork'
  <2>1. \A o \in Queries : pc'[o] = pc[o]
    BY <1>28, EditorMoves, ThreadsAssumption DEF ResetFingerprint, Moved
  <2>2. UNCHANGED <<buildLock, writers>>
    BY <1>28, Zenon DEF ResetFingerprint, rw
  <2> QED
    BY <2>1, <2>2 DEF HoldersAtWork
<1>29. ASSUME NEW e \in Editors, EditBody(e)
      PROVE  HoldersAtWork'
  <2>1. \A o \in Queries : pc'[o] = pc[o]
    BY <1>29, EditorMoves, ThreadsAssumption DEF EditBody, Moved
  <2>2. UNCHANGED <<buildLock, writers>>
    BY <1>29, Zenon DEF EditBody, rw
  <2> QED
    BY <2>1, <2>2 DEF HoldersAtWork
<1>30. ASSUME NEW e \in Editors, EditTopology(e)
      PROVE  HoldersAtWork'
  <2>1. \A o \in Queries : pc'[o] = pc[o]
    BY <1>30, EditorMoves, ThreadsAssumption DEF EditTopology, Moved
  <2>2. UNCHANGED <<buildLock, writers>>
    BY <1>30, Zenon DEF EditTopology, rw
  <2> QED
    BY <2>1, <2>2 DEF HoldersAtWork
<1>31. CASE ReplacePackage \/ UNCHANGED vars
  <2>1. UNCHANGED <<buildLock, writers, pc>>
    BY <1>31, Zenon DEF ReplacePackage, vars, rw
  <2> QED
    BY <2>1 DEF HoldersAtWork
<1>32. ASSUME NEW q \in Queries, QueryStep(q) PROVE HoldersAtWork'
  BY <1>32, <1>1, <1>2, <1>3, <1>4, <1>5, <1>6, <1>7, <1>8, <1>9, <1>10,
     <1>11, <1>12, <1>13, <1>14, <1>15, <1>16, <1>17, <1>18, <1>19, <1>20,
     <1>40 DEF QueryStep
<1>33. ASSUME NEW e \in Editors, EditStep(e) PROVE HoldersAtWork'
  BY <1>33, <1>24, <1>25, <1>26, <1>27, <1>28 DEF EditStep
<1> QED
  BY <1>21, <1>22, <1>23, <1>40, <1>29, <1>30, <1>31, <1>32, <1>33
     DEF Next

\* A thread waits only while another one is at work under the lock it needs.
LEMMA WaitsInOrder ==
  TypeOK /\ LocksMatchSteps /\ HoldersAtWork => WaitsFollowLockOrder
<1> SUFFICES ASSUME TypeOK, LocksMatchSteps, HoldersAtWork,
                    NEW p \in Queries \cup Editors, NEW h \in Queries,
                    Waits(p), h \in Holders(Ahead(p))
             PROVE  /\ pc[h] # "idle"
                    /\ Waits(h) => Rank(Ahead(p)) < Rank(Ahead(h))
  BY DEF WaitsFollowLockOrder
<1>1. CASE Ahead(p) = BL
  <2>1. h \in buildLock
    BY <1>1 DEF Holders, BL, IG, CG
  <2>2. pc[h] \notin {"idle", "lock", "relock", "held"}
    BY <2>1 DEF HoldersAtWork
  <2> QED
    BY <1>1, <2>2 DEF Waits, Ahead, Rank, BL, IG, CG
<1>2. CASE Ahead(p) = IG
  <2>1. h \in writers[IG]
    BY <1>2 DEF Holders, BL, IG, CG
  <2>2. pc[h] \in {"publish_calls", "publish_all"}
    BY <2>1 DEF HoldersAtWork
  <2> QED
    BY <1>2, <2>2 DEF Waits, Ahead, Rank, BL, IG, CG
<1>3. CASE Ahead(p) = CG
  <2>1. h \in writers[CG] \cup readers
    BY <1>3 DEF Holders, BL, IG, CG
  <2>2. pc[h] \in {"check", "held", "publish_all", "fill"}
    BY <2>1 DEF LocksMatchSteps
  <2>3. ~Waits(h)
    BY <2>2 DEF Waits, Ahead, BL, IG, CG
  <2> QED
    BY <2>2, <2>3
<1>4. Ahead(p) \in {BL, IG, CG}
  BY DEF Waits, Ahead, NoLock
<1> QED
  BY <1>1, <1>2, <1>3, <1>4

\* With any number of threads no wait for a lock closes a circle: what a
\* thread waits for is held by one that is at work, and that one waits, if at
\* all, for a lock later in the order build lock, insight_graph, call_graph.
THEOREM LockOrderHolds == Spec => []WaitsFollowLockOrder
<1>1. Init => HoldersAtWork
  BY DEF Init, HoldersAtWork, GraphLocks, IG
<1>2. GraphInv => TypeOK /\ LocksMatchSteps
  BY DEF GraphInv
<1> QED
  BY <1>1, <1>2, GraphInvariant, HoldersStep, WaitsInOrder, PTL DEF Spec

=============================================================================
