----------------------- MODULE DaemonLifecycleProofs ------------------------
(***************************************************************************)
(* DaemonLifecycle for any number of connections and requests, any limits  *)
(* and any number of polls: the in-flight count is exact, no request is    *)
(* served before the project is loaded, the reaper spares work that lasts, *)
(* and, until a line cannot be read, every request read is answered.       *)
(***************************************************************************)
EXTENDS DaemonLifecycle, FiniteSetTheorems, TLAPS

\* What connections and requests hold; a request that was sent came on a
\* connection.
Traffic ==
    /\ conn \in [Connections -> ConnectionSteps]
    /\ eof \in SUBSET Connections /\ gone \in SUBSET Connections
    /\ req \in [Requests -> RequestSteps]
    /\ on \in [Requests -> Connections \cup {NoOne}]
    /\ answer \in [Requests -> {"none", "try again", "full"}]
    /\ debugLock \in Requests \cup {NoOne}
    /\ busyRound \in SUBSET Requests
    /\ \A r \in Requests : req[r] # "new" => on[r] \in Connections

\* The flags.
Flags ==
    /\ loading \in BOOLEAN /\ notified \in BOOLEAN /\ stale \in BOOLEAN
    /\ session \in BOOLEAN /\ root \in BOOLEAN /\ openRound \in BOOLEAN

\* The steps of the daemon's own tasks; a reaper that still polls has not
\* counted MISSING_ROOT_POLLS.
Tasking ==
    /\ loop \in {"accept", "drain", "ended"}
    /\ load \in {"running", "ok", "failed"}
    /\ reaper \in ReaperSteps /\ missing \in 0..MissingPolls
    /\ readErrors \in 0..MaxReadErrors /\ rootChanges \in 0..MaxRootChanges
    /\ reaper # "gone" => missing < MissingPolls

LEMMA TrafficInit == Init => Traffic
BY DEF Init, Traffic, ConnectionSteps, RequestSteps

LEMMA FlagsInit == Init => Flags
BY Zenon DEF Init, Flags

LEMMA TaskingInit == Init => Tasking
BY LifecycleAssumption DEF Init, Tasking, ReaperSteps

\* Requests change place, connections change place.
LEMMA TrafficNext == Traffic /\ [Next]_vars => Traffic'
<1> SUFFICES ASSUME Traffic, [Next]_vars PROVE Traffic'
  OBVIOUS
<1> USE DEF Traffic, life, traffic, work, debug, reaping, bounds, history
<1>1. ASSUME NEW r \in Requests, RequestStep(r) PROVE Traffic'
  <2> USE DEF SetReq, RequestSteps
  <2>1. CASE Read(r) BY <2>1 DEF Read
  <2>2. CASE Admit(r) BY <2>2 DEF Admit
  <2>3. CASE Dispatch(r) BY <2>3 DEF Dispatch
  <2>4. CASE Complete(r) BY <2>4 DEF Complete
  <2>5. CASE Answer(r) BY <2>5 DEF Answer
  <2>6. CASE RequestShutdown(r) BY <2>6 DEF RequestShutdown
  <2>7. CASE TakeDebugLock(r) BY <2>7 DEF TakeDebugLock
  <2>8. CASE EndDebugCall(r) BY <2>8 DEF EndDebugCall
  <2> QED BY <1>1, <2>1, <2>2, <2>3, <2>4, <2>5, <2>6, <2>7, <2>8
          DEF RequestStep
<1>2. ASSUME NEW c \in Connections, ConnectionStep(c) PROVE Traffic'
  <2> USE DEF SetConn, ConnectionSteps
  <2>1. CASE OpenConnection(c) BY <2>1 DEF OpenConnection
  <2>2. CASE HangUp(c) BY <2>2 DEF HangUp
  <2>3. CASE Accept(c) BY <2>3 DEF Accept
  <2>4. CASE StopReading(c) BY <2>4 DEF StopReading
  <2>5. CASE CloseConnection(c) BY <2>5 DEF CloseConnection
  <2>6. CASE ReadError(c)
    <3>1. conn' \in [Connections -> ConnectionSteps] BY <2>6 DEF ReadError
    <3>2. /\ req' \in [Requests -> RequestSteps]
          /\ \A r \in Requests : req'[r] # "new" => req[r] # "new"
      BY <2>6 DEF ReadError, Abort, Tasks, RequestSteps
    <3>3. busyRound' \in SUBSET Requests BY <2>6 DEF ReadError, Abort
    <3>4. debugLock' \in Requests \cup {NoOne} BY <2>6 DEF ReadError, Abort
    <3> QED BY <2>6, <3>1, <3>2, <3>3, <3>4 DEF ReadError
  <2>7. CASE \E r \in Requests : Send(r, c)
    <3>1. PICK r \in Requests : Send(r, c) BY <2>7
    <3>2. /\ req' = [req EXCEPT ![r] = "sent"] /\ on' = [on EXCEPT ![r] = c]
          /\ UNCHANGED <<conn, eof, gone, answer, debugLock, busyRound>>
      BY <3>1 DEF Send, SetReq
    <3> QED BY <3>2 DEF RequestSteps
  <2> QED BY <1>2, <2>1, <2>2, <2>3, <2>4, <2>5, <2>6, <2>7
          DEF ConnectionStep
<1>3. CASE EndProcess BY <1>3 DEF EndProcess, Abort, RequestSteps
<1>4. CASE ReaperStep
  BY <1>4 DEF ReaperStep, Poll, ReadActivity, ReadInFlight, TryDebugLock, Fire,
              Serving
<1>5. CASE StopAccepting \/ LoadSucceeds \/ LoadFails \/ IdleWindowPasses
           \/ RootChanges
  BY <1>5 DEF StopAccepting, LoadSucceeds, LoadFails, IdleWindowPasses,
              RootChanges
<1>6. CASE UNCHANGED vars BY <1>6 DEF vars
<1> QED
  BY ONLY [Next]_vars, <1>1, <1>2, <1>3, <1>4, <1>5, <1>6
  DEF Next, LoopStep, SeeLoadFailure, SeeNotify, Drained, GraceOver, Terminate

LEMMA FlagsNext == Flags /\ [Next]_vars => Flags'
<1> SUFFICES ASSUME Flags, [Next]_vars PROVE Flags'
  OBVIOUS
<1> USE DEF Flags, life, traffic, work, debug, reaping, bounds, history
<1>1. ASSUME NEW r \in Requests, RequestStep(r) PROVE Flags'
  BY <1>1, Zenon DEF RequestStep, Read, Admit, Dispatch, Complete, Answer, RequestShutdown,
     TakeDebugLock, EndDebugCall
<1>2. ASSUME NEW c \in Connections, ConnectionStep(c) PROVE Flags'
  BY <1>2, Zenon DEF ConnectionStep, OpenConnection, HangUp, Accept, StopReading,
     CloseConnection, ReadError, Send
<1>3. CASE EndProcess BY <1>3, Zenon DEF EndProcess
<1>4. CASE Poll BY <1>4, Zenon DEF Poll
<1>5. CASE ReadActivity \/ ReadInFlight \/ TryDebugLock \/ Fire
  BY <1>5, Zenon DEF ReadActivity, ReadInFlight, TryDebugLock, Fire
<1>6. CASE StopAccepting \/ LoadSucceeds \/ LoadFails \/ IdleWindowPasses
           \/ RootChanges
  BY <1>6, Zenon DEF StopAccepting, LoadSucceeds, LoadFails, IdleWindowPasses,
              RootChanges
<1>7. CASE UNCHANGED vars BY <1>7, Zenon DEF vars
<1> QED
  BY ONLY [Next]_vars, <1>1, <1>2, <1>3, <1>4, <1>5, <1>6, <1>7
  DEF Next, ReaperStep, LoopStep, SeeLoadFailure, SeeNotify, Drained, GraceOver,
      Terminate

LEMMA TaskingNext == Tasking /\ [Next]_vars => Tasking'
<1> SUFFICES ASSUME Tasking, [Next]_vars PROVE Tasking'
  OBVIOUS
<1> USE LifecycleAssumption
    DEF Tasking, ReaperSteps, life, reaping, bounds
<1>1. ASSUME NEW r \in Requests, RequestStep(r) PROVE Tasking'
  BY <1>1 DEF RequestStep, Read, Admit, Dispatch, Complete, Answer, RequestShutdown,
     TakeDebugLock, EndDebugCall
<1>2. ASSUME NEW c \in Connections, ConnectionStep(c) PROVE Tasking'
  BY <1>2 DEF ConnectionStep, OpenConnection, HangUp, Accept, StopReading,
     CloseConnection, ReadError, Send
<1>3. CASE EndProcess BY <1>3 DEF EndProcess
<1>4. CASE Poll BY <1>4 DEF Poll
<1>5. CASE ReadActivity \/ ReadInFlight \/ TryDebugLock \/ Fire
  BY <1>5 DEF ReadActivity, ReadInFlight, TryDebugLock, Fire
<1>6. CASE StopAccepting \/ LoadSucceeds \/ LoadFails \/ IdleWindowPasses
           \/ RootChanges
  BY <1>6 DEF StopAccepting, LoadSucceeds, LoadFails, IdleWindowPasses,
              RootChanges
<1>7. CASE UNCHANGED vars BY <1>7 DEF vars
<1> QED
  BY ONLY [Next]_vars, <1>1, <1>2, <1>3, <1>4, <1>5, <1>6, <1>7
  DEF Next, ReaperStep, LoopStep, SeeLoadFailure, SeeNotify, Drained, GraceOver,
      Terminate

-----------------------------------------------------------------------------
(* The in-flight count *)

LEMMA ServingIsFinite == IsFiniteSet(Serving) /\ IsFiniteSet(Serving')
BY FS_Subset, LifecycleAssumption DEF Serving

\* Steps that neither begin nor end a dispatch.
LEMMA CountKept ==
    ASSUME CountMatchesWork, inFlight' = inFlight, Serving' = Serving
    PROVE  CountMatchesWork'
BY DEF CountMatchesWork

LEMMA CountInit == Init => CountMatchesWork
<1> SUFFICES ASSUME Init PROVE CountMatchesWork
  OBVIOUS
<1>1. Serving = {} BY DEF Init, Serving
<1> QED BY <1>1, FS_EmptySet DEF Init, CountMatchesWork

LEMMA CountNext == Traffic /\ CountMatchesWork /\ [Next]_vars => CountMatchesWork'
<1> SUFFICES ASSUME Traffic, CountMatchesWork, [Next]_vars
             PROVE  CountMatchesWork'
  OBVIOUS
<1> USE DEF Traffic, life, traffic, work, debug, reaping, bounds, history
<1>0. IsFiniteSet(Serving) /\ inFlight = Cardinality(Serving) /\ inFlight \in Nat
  BY ServingIsFinite, FS_CardinalityType DEF CountMatchesWork
<1>1. ASSUME NEW r \in Requests, RequestStep(r) PROVE CountMatchesWork'
  <2>1. CASE Dispatch(r)
    <3>1. r \notin Serving /\ Serving' = Serving \cup {r}
      BY <2>1 DEF Dispatch, Serving, SetReq
    <3>2. Cardinality(Serving') = Cardinality(Serving) + 1
      BY <1>0, <3>1, FS_AddElement
    <3> QED BY <1>0, <2>1, <3>2 DEF Dispatch, CountMatchesWork
  <2>2. CASE Complete(r)
    <3>1. r \in Serving /\ Serving' = Serving \ {r}
      BY <2>2 DEF Complete, Serving, SetReq
    <3>2. Cardinality(Serving') = Cardinality(Serving) - 1
      BY <1>0, <3>1, FS_RemoveElement
    <3> QED BY <1>0, <2>2, <3>2 DEF Complete, CountMatchesWork
  <2>3. CASE Read(r) \/ Admit(r) \/ Answer(r)
    <3>1. Serving' = Serving
      BY <2>3 DEF Read, Admit, Answer, Serving, SetReq
    <3>2. inFlight' = inFlight BY <2>3 DEF Read, Admit, Answer
    <3> QED BY <3>1, <3>2, CountKept
  <2>4. CASE RequestShutdown(r) \/ TakeDebugLock(r) \/ EndDebugCall(r)
    BY <2>4, CountKept
    DEF RequestShutdown, TakeDebugLock, EndDebugCall, Serving
  <2> QED BY <1>1, <2>1, <2>2, <2>3, <2>4 DEF RequestStep
<1>2. ASSUME NEW c \in Connections, ConnectionStep(c) PROVE CountMatchesWork'
  <2>1. CASE ReadError(c)
    <3> DEFINE dropped == Tasks(c) \cap Serving
    <3>1. Serving' = Serving \ dropped
      <4>1. req' = [r \in Requests |-> IF r \in Tasks(c) THEN "aborted" ELSE req[r]]
        BY <2>1 DEF ReadError, Abort
      <4> QED BY <4>1 DEF Serving
    <3>2. Serving \cap dropped = dropped OBVIOUS
    <3>3. Cardinality(Serving') = Cardinality(Serving) - Cardinality(dropped)
      <4> HIDE DEF dropped
      <4>1. Cardinality(Serving \ dropped)
              = Cardinality(Serving) - Cardinality(Serving \cap dropped)
        BY <1>0, FS_Difference, Zenon
      <4> QED BY <3>1, <3>2, <4>1
    <3> QED BY <1>0, <2>1, <3>3 DEF ReadError, CountMatchesWork
  <2>2. CASE \E r \in Requests : Send(r, c)
    <3>1. PICK r \in Requests : Send(r, c) BY <2>2
    <3>2. Serving' = Serving /\ inFlight' = inFlight
      BY <3>1 DEF Send, SetReq, Serving
    <3> QED BY <3>2, CountKept
  <2>3. CASE \/ OpenConnection(c) \/ HangUp(c) \/ Accept(c) \/ StopReading(c)
             \/ CloseConnection(c)
    BY <2>3, CountKept DEF OpenConnection, HangUp, Accept, StopReading,
       CloseConnection, Serving
  <2> QED BY <1>2, <2>1, <2>2, <2>3 DEF ConnectionStep
<1>3. CASE EndProcess
  <2>1. Serving' = {} BY <1>3 DEF EndProcess, Abort, Serving
  <2> QED BY <1>3, <2>1, FS_EmptySet DEF EndProcess, CountMatchesWork
<1>4. CASE ReaperStep
  <2>1. UNCHANGED <<req, inFlight>>
    BY <1>4 DEF ReaperStep, Poll, ReadActivity, ReadInFlight, TryDebugLock, Fire
  <2> QED BY <2>1, CountKept DEF Serving
<1>5. CASE StopAccepting \/ LoadSucceeds \/ LoadFails \/ IdleWindowPasses
           \/ RootChanges
  BY <1>5, CountKept DEF StopAccepting, LoadSucceeds, LoadFails,
     IdleWindowPasses, RootChanges, Serving
<1>6. CASE UNCHANGED vars BY <1>6, CountKept DEF vars, Serving
<1> QED
  BY ONLY [Next]_vars, <1>1, <1>2, <1>3, <1>4, <1>5, <1>6
  DEF Next, LoopStep, SeeLoadFailure, SeeNotify, Drained, GraceOver, Terminate

-----------------------------------------------------------------------------
(* The load *)

\* The flag is cleared by a load that succeeded, and by nothing else.
ClearedBySuccess == ~loading => load = "ok"

LEMMA LoadNext ==
    /\ Traffic /\ ClearedBySuccess /\ ServedFromLoadedProject
    /\ [Next]_vars
    => ClearedBySuccess' /\ ServedFromLoadedProject'
<1> SUFFICES ASSUME Traffic, ClearedBySuccess, ServedFromLoadedProject,
                    [Next]_vars
             PROVE  ClearedBySuccess' /\ ServedFromLoadedProject'
  OBVIOUS
<1> USE DEF Traffic, ClearedBySuccess, ServedFromLoadedProject,
            life, traffic, work, debug, reaping, bounds, history
<1>1. ASSUME NEW r \in Requests, RequestStep(r)
      PROVE  ClearedBySuccess' /\ ServedFromLoadedProject'
  BY <1>1 DEF RequestStep, Read, Admit, Dispatch, Complete, Answer, RequestShutdown,
     TakeDebugLock, EndDebugCall
<1>2. ASSUME NEW c \in Connections, ConnectionStep(c)
      PROVE  ClearedBySuccess' /\ ServedFromLoadedProject'
  BY <1>2 DEF ConnectionStep, OpenConnection, HangUp, Accept, StopReading,
     CloseConnection, ReadError, Send
<1>3. CASE EndProcess BY <1>3 DEF EndProcess
<1>4. CASE ReaperStep
  BY <1>4 DEF ReaperStep, Poll, ReadActivity, ReadInFlight, TryDebugLock, Fire
<1>5. CASE LoadSucceeds \/ LoadFails BY <1>5 DEF LoadSucceeds, LoadFails
<1>6. CASE StopAccepting \/ IdleWindowPasses \/ RootChanges
  BY <1>6 DEF StopAccepting, IdleWindowPasses, RootChanges
<1>7. CASE UNCHANGED vars BY <1>7 DEF vars
<1> QED
  BY ONLY [Next]_vars, <1>1, <1>2, <1>3, <1>4, <1>5, <1>6, <1>7
  DEF Next, LoopStep, SeeLoadFailure, SeeNotify, Drained, GraceOver, Terminate

-----------------------------------------------------------------------------
(* The reaper *)

\* What the history of a round says while the reaper goes through it: its
\* requests are still served, its session is still open, and past each look
\* there is none.
RoundIsLive ==
    /\ busyRound \subseteq Serving
    /\ openRound => session
    /\ reaper \in {"session", "notify"} => busyRound = {}
    /\ reaper = "notify" => ~openRound

\* Steps of anyone but the reaper and the debug methods.
LEMMA RoundKept ==
    ASSUME RoundIsLive, busyRound' \subseteq busyRound,
           busyRound' \subseteq Serving', UNCHANGED <<openRound, session, reaper>>
    PROVE  RoundIsLive'
BY DEF RoundIsLive

LEMMA RoundNext ==
    Traffic /\ CountMatchesWork /\ RoundIsLive /\ [Next]_vars => RoundIsLive'
<1> SUFFICES ASSUME Traffic, CountMatchesWork, RoundIsLive, [Next]_vars
             PROVE  RoundIsLive'
  OBVIOUS
<1>0. busyRound \subseteq Serving BY DEF RoundIsLive
<1> USE DEF Traffic, life, traffic, work, debug, reaping, bounds,
            history
<1>1. ASSUME NEW r \in Requests, RequestStep(r) PROVE RoundIsLive'
  <2>1. CASE Read(r) \/ Admit(r) \/ Answer(r) \/ Dispatch(r)
    <3>1. Serving \subseteq Serving'
      BY <2>1 DEF Read, Admit, Answer, Dispatch, Serving, SetReq
    <3>2. UNCHANGED <<busyRound, openRound, session, reaper>>
      BY <2>1 DEF Read, Admit, Answer, Dispatch
    <3> QED BY <1>0, <3>1, <3>2, RoundKept
  <2>2. CASE Complete(r)
    <3>1. Serving' = Serving \ {r} BY <2>2 DEF Complete, Serving, SetReq
    <3>2. UNCHANGED <<openRound, session, reaper>> /\ busyRound' = busyRound \ {r}
      BY <2>2 DEF Complete
    <3> QED BY <1>0, <3>1, <3>2, RoundKept
  <2>3. CASE EndDebugCall(r)
    <3>1. UNCHANGED <<req, busyRound, reaper>> BY <2>3 DEF EndDebugCall
    <3>2. PICK open \in BOOLEAN :
             session' = open /\ openRound' = (openRound /\ open)
      BY <2>3 DEF EndDebugCall
    <3> QED BY <3>1, <3>2 DEF RoundIsLive, Serving
  <2>4. CASE RequestShutdown(r) \/ TakeDebugLock(r)
    BY <1>0, <2>4, RoundKept DEF RequestShutdown, TakeDebugLock, Serving
  <2> QED BY <1>1, <2>1, <2>2, <2>3, <2>4 DEF RequestStep
<1>2. ASSUME NEW c \in Connections, ConnectionStep(c) PROVE RoundIsLive'
  <2>1. CASE ReadError(c)
    <3>1. req' = [r \in Requests |-> IF r \in Tasks(c) THEN "aborted" ELSE req[r]]
      BY <2>1 DEF ReadError, Abort
    <3>2. Serving' = Serving \ Tasks(c) BY <3>1 DEF Serving
    <3>3. /\ UNCHANGED <<openRound, session, reaper>>
          /\ busyRound' = busyRound \ Tasks(c)
      BY <2>1 DEF ReadError, Abort
    <3> QED BY <1>0, <3>2, <3>3, RoundKept
  <2>2. CASE \E r \in Requests : Send(r, c)
    <3>1. PICK r \in Requests : Send(r, c) BY <2>2
    <3>2. Serving' = Serving BY <3>1 DEF Send, SetReq, Serving
    <3>3. UNCHANGED <<busyRound, openRound, session, reaper>> BY <3>1 DEF Send
    <3> QED BY <1>0, <3>2, <3>3, RoundKept
  <2>3. CASE \/ OpenConnection(c) \/ HangUp(c) \/ Accept(c) \/ StopReading(c)
             \/ CloseConnection(c)
    BY <1>0, <2>3, RoundKept DEF OpenConnection, HangUp, Accept, StopReading,
       CloseConnection, Serving
  <2> QED BY <1>2, <2>1, <2>2, <2>3 DEF ConnectionStep
<1>3. CASE EndProcess
  <2>1. busyRound' = {} BY <1>0, <1>3 DEF EndProcess, Abort, Serving
  <2>2. UNCHANGED <<openRound, session>> /\ reaper' = "gone"
    BY <1>3 DEF EndProcess
  <2> QED BY <2>1, <2>2 DEF RoundIsLive
<1>4. CASE Poll
  <2>1. UNCHANGED <<req, session, history>> /\ reaper' \in {"sleep", "activity", "gone"}
    BY <1>4 DEF Poll
  <2> QED BY <2>1 DEF RoundIsLive, Serving
<1>5. CASE ReadActivity
  <2>1. /\ UNCHANGED <<req, session>> /\ reaper' \in {"work", "sleep"}
        /\ busyRound' = Serving /\ openRound' = session
    BY <1>5 DEF ReadActivity
  <2> QED BY <2>1 DEF RoundIsLive, Serving
<1>6. CASE ReadInFlight
  <2>1. inFlight = 0 => Serving = {}
    BY ServingIsFinite, FS_EmptySet DEF CountMatchesWork
  <2> QED BY <1>6, <2>1 DEF RoundIsLive, ReadInFlight, Serving
<1>7. CASE TryDebugLock BY <1>7 DEF RoundIsLive, TryDebugLock, Serving
<1>8. CASE Fire BY <1>8 DEF RoundIsLive, Fire, Serving
<1>9. CASE LoadSucceeds \/ LoadFails \/ IdleWindowPasses \/ RootChanges
  BY <1>0, <1>9, RoundKept DEF LoadSucceeds, LoadFails, IdleWindowPasses,
     RootChanges, Serving
<1>10. CASE StopAccepting BY <1>10 DEF RoundIsLive, StopAccepting, Serving
<1>11. CASE UNCHANGED vars BY <1>0, <1>11, RoundKept DEF vars, Serving
<1> QED
  BY ONLY [Next]_vars, <1>1, <1>2, <1>3, <1>4, <1>5, <1>6, <1>7, <1>8, <1>9, <1>10, <1>11
  DEF Next, ReaperStep, LoopStep, SeeLoadFailure, SeeNotify, Drained, GraceOver,
      Terminate

-----------------------------------------------------------------------------
(* The answers a client is owed *)

\* As long as every line could be read, no request is dropped by its
\* connection, and one that waits for a permit keeps its connection reading.
NoneDropped ==
    readErrors = 0 => \A r \in Requests :
        /\ req[r] # "aborted"
        /\ req[r] = "read" => conn[on[r]] = "open"
        /\ req[r] \in {"admitted", "serving", "done"} =>
               conn[on[r]] \in {"open", "closing"}

LEMMA NoneDroppedNext ==
    Traffic /\ Tasking /\ NoneDropped /\ [Next]_vars => NoneDropped'
<1> SUFFICES ASSUME Traffic, Tasking, NoneDropped, [Next]_vars
             PROVE  NoneDropped'
  OBVIOUS
<1>a. readErrors + 1 # 0 BY LifecycleAssumption DEF Tasking
<1> USE DEF Traffic, NoneDropped, life, traffic, work, debug, reaping, bounds,
            history
<1>1. ASSUME NEW r \in Requests, RequestStep(r) PROVE NoneDropped'
  <2> USE DEF SetReq
  <2>1. CASE Read(r) BY <2>1 DEF Read
  <2>2. CASE Admit(r) BY <2>2 DEF Admit
  <2>3. CASE Dispatch(r) BY <2>3 DEF Dispatch
  <2>4. CASE Complete(r) BY <2>4 DEF Complete
  <2>5. CASE Answer(r) BY <2>5 DEF Answer
  <2>6. CASE RequestShutdown(r) \/ TakeDebugLock(r) \/ EndDebugCall(r)
    BY <2>6 DEF RequestShutdown, TakeDebugLock, EndDebugCall
  <2> QED BY <1>1, <2>1, <2>2, <2>3, <2>4, <2>5, <2>6 DEF RequestStep
<1>2. ASSUME NEW c \in Connections, ConnectionStep(c) PROVE NoneDropped'
  <2> USE DEF SetConn
  <2>1. CASE ReadError(c)
    <3>1. readErrors' = readErrors + 1 BY <2>1 DEF ReadError
    <3>2. readErrors' # 0 BY <1>a, <3>1
    <3> QED BY <3>2
  <2>2. CASE \E r \in Requests : Send(r, c)
    <3>1. PICK r \in Requests : Send(r, c) BY <2>2
    <3>2. /\ req' = [req EXCEPT ![r] = "sent"] /\ on' = [on EXCEPT ![r] = c]
          /\ conn' = conn /\ readErrors' = readErrors
      BY <3>1 DEF Send, SetReq
    <3> QED BY <3>2
  <2>3. CASE OpenConnection(c) BY <2>3 DEF OpenConnection
  <2>4. CASE HangUp(c) BY <2>4 DEF HangUp
  <2>5. CASE Accept(c) BY <2>5 DEF Accept
  <2>6. CASE StopReading(c) BY <2>6 DEF StopReading
  <2>7. CASE CloseConnection(c) BY <2>7 DEF CloseConnection, Tasks
  <2> QED BY <1>2, <2>1, <2>2, <2>3, <2>4, <2>5, <2>6, <2>7 DEF ConnectionStep
<1>3. CASE EndProcess BY <1>3 DEF EndProcess, Abort
<1>4. CASE ReaperStep
  BY <1>4 DEF ReaperStep, Poll, ReadActivity, ReadInFlight, TryDebugLock, Fire
<1>5. CASE StopAccepting \/ LoadSucceeds \/ LoadFails \/ IdleWindowPasses
           \/ RootChanges
  BY <1>5 DEF StopAccepting, LoadSucceeds, LoadFails, IdleWindowPasses,
              RootChanges
<1>6. CASE UNCHANGED vars BY <1>6 DEF vars
<1> QED
  BY ONLY [Next]_vars, <1>1, <1>2, <1>3, <1>4, <1>5, <1>6
  DEF Next, LoopStep, SeeLoadFailure, SeeNotify, Drained, GraceOver, Terminate

-----------------------------------------------------------------------------
(* The theorems *)

Typing == Traffic /\ Flags /\ Tasking /\ CountMatchesWork

LEMMA TypingHolds == Spec => []Typing
<1>1. Init => Typing
  BY TrafficInit, FlagsInit, TaskingInit, CountInit DEF Typing
<1>2. Typing /\ [Next]_vars => Typing'
  BY TrafficNext, FlagsNext, TaskingNext, CountNext DEF Typing
<1> QED BY <1>1, <1>2, PTL DEF Spec

\* in_flight is the number of requests under dispatch, whichever way a
\* dispatch ends: it completes, its connection breaks or the daemon does.
THEOREM CountIsExact == Spec => []CountMatchesWork
BY TypingHolds, PTL DEF Typing

\* Every variable keeps its type; in_flight never falls below zero and the
\* reaper stops at MISSING_ROOT_POLLS.
THEOREM Typed == Spec => []TypeOK
<1>1. Typing => TypeOK
  BY ServingIsFinite, FS_CardinalityType
  DEF Typing, Traffic, Flags, Tasking, CountMatchesWork, TypeOK
<1> QED BY <1>1, TypingHolds, PTL

\* A request is dispatched in full only after a load that succeeded; a load
\* that failed leaves the flag set until the daemon is gone.
THEOREM OnlyLoadedProjectsServe == Spec => []ServedFromLoadedProject
<1>1. Init => ClearedBySuccess /\ ServedFromLoadedProject
  BY DEF Init, ClearedBySuccess, ServedFromLoadedProject
<1>2. /\ Typing /\ ClearedBySuccess /\ ServedFromLoadedProject /\ [Next]_vars
      => ClearedBySuccess' /\ ServedFromLoadedProject'
  BY LoadNext DEF Typing
<1> QED BY <1>1, <1>2, TypingHolds, PTL DEF Spec

\* A request or a session that lasts through the reaper's round, from its
\* look at the idle clock to its signal, keeps it from firing.
THEOREM LastingWorkIsSpared == Spec => []LongWorkKeepsDaemon
<1>1. Init => RoundIsLive BY DEF Init, RoundIsLive
<1>2. Typing /\ RoundIsLive /\ [Next]_vars => RoundIsLive'
  BY RoundNext DEF Typing
<1>3. RoundIsLive => LongWorkKeepsDaemon
  BY DEF RoundIsLive, LongWorkKeepsDaemon
<1> QED BY <1>1, <1>2, <1>3, TypingHolds, PTL DEF Spec

\* As long as every line could be read, a connection stays until each request
\* it has read is answered or cut off by the daemon's end.
THEOREM AnswersAreOwed == Spec => []AnswersBeforeClose
<1>1. Init => NoneDropped BY DEF Init, NoneDropped
<1>2. Typing /\ NoneDropped /\ [Next]_vars => NoneDropped'
  BY NoneDroppedNext DEF Typing
<1>3. Typing /\ NoneDropped => AnswersBeforeClose
  BY DEF Typing, Traffic, NoneDropped, AnswersBeforeClose, OwedAnswers,
         RequestSteps
<1> QED BY <1>1, <1>2, <1>3, TypingHolds, PTL DEF Spec
=============================================================================
