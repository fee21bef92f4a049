------------------------ MODULE SemanticBridgeProofs ------------------------
(***************************************************************************)
(* The safety properties of SemanticBridge for every set of callers, every *)
(* number of requests, every restart cap and every cooldown.               *)
(*                                                                         *)
(* BridgeInv is inductive.  Its core is LocksMatchSteps: because exactly   *)
(* the callers in LifecycleSteps hold semantic_lifecycle_lock, what one of *)
(* them knows of the installed bridge (nothing is installed during an      *)
(* init; the failed generation still is before the take) stays true until  *)
(* its own next step, and because exactly the callers in GuardSteps hold a *)
(* read guard, a take never pulls a bridge from under a call.              *)
(* FailuresAreCounted ties the failed inits, and the orphaned ones that    *)
(* may still fail, to the restart slots and to the aborted callers.        *)
(* An abort only lets go of locks and installs nothing, so none of this    *)
(* needs an init to run alone.                                             *)
(*                                                                         *)
(* From the same invariant follow two facts about the whole: the waits for *)
(* locks never form a circle, and the lifecycle implements BridgeService.  *)
(* The refinement rests on CreatedIsNewer: orphaned inits use up numbers   *)
(* of generations, but what is installed is newer than all installed.      *)
(***************************************************************************)
EXTENDS SemanticBridge, FiniteSetTheorems, TLAPS

-----------------------------------------------------------------------------
\* A finished request's locals keep their types.
LEMMA LocalsTyped ==
  ASSUME TypeOK, NEW c \in Callers, Forget(c) \/ UNCHANGED locals
  PROVE  /\ gen' \in [Callers -> Nat]
         /\ prior' \in [Callers -> Ages]
         /\ made' \in [Callers -> Nat]
         /\ restarting' \in [Callers -> BOOLEAN]
<1>1. CASE Forget(c)
  BY <1>1, BridgeAssumption DEF TypeOK, Forget, Ages, Never
<1>2. CASE UNCHANGED locals
  BY <1>2 DEF TypeOK, locals
<1> QED
  BY <1>1, <1>2

\* The workspace before the first use of the bridge is well typed.
LEMMA TypesInit == Init => TypeOK
<1> SUFFICES ASSUME Init PROVE TypeOK
  OBVIOUS
<1> USE BridgeAssumption DEF Init
<1>1. bridge \in Bridges /\ prior \in [Callers -> Ages]
  BY DEF Bridges, NoBridge, Ages, Never
<1>2. pc \in [Callers -> Steps]
  BY DEF Steps
<1>3. reported \in BOOLEAN /\ toolchain \in BOOLEAN
  BY Zenon
<1>4. gen \in [Callers -> Nat] /\ made \in [Callers -> Nat]
  OBVIOUS
<1>5. restarting \in [Callers -> BOOLEAN]
  OBVIOUS
<1>6. /\ nextGen \in Nat \ {0}
      /\ guards \in SUBSET Callers /\ lifecycle \in SUBSET Callers
      /\ calls \in SUBSET [caller : Callers, gen : Nat]
      /\ restartCount \in Nat /\ requests \in Nat /\ failedInits \in Nat
      /\ orphans \in Nat /\ lost \in Nat /\ newest \in Nat
  OBVIOUS
<1> QED
  BY ONLY <1>1, <1>2, <1>3, <1>4, <1>5, <1>6 DEF TypeOK

\* Every step of a caller, of a blocking task or of the clock keeps the types.
LEMMA TypesStep == TypeOK /\ [Next]_vars => TypeOK'
<1> SUFFICES ASSUME TypeOK, [Next]_vars PROVE TypeOK'
  OBVIOUS
<1> USE BridgeAssumption
    DEF TypeOK, Bridges, Ages, NoBridge, Never, Steps, Goto, locals, aside
<1>1. ASSUME NEW c \in Callers, UseBridge(c)
      PROVE  TypeOK'
  BY <1>1 DEF UseBridge
<1>2. ASSUME NEW c \in Callers, Shutdown(c)
      PROVE  TypeOK'
  BY <1>2 DEF Shutdown
<1>3. ASSUME NEW c \in Callers, FastRead(c)
      PROVE  TypeOK'
  BY <1>3 DEF FastRead, TakeGuard
<1>4. ASSUME NEW c \in Callers, LockLifecycle(c)
      PROVE  TypeOK'
  BY <1>4 DEF LockLifecycle
<1>5. ASSUME NEW c \in Callers, Reread(c)
      PROVE  TypeOK'
  BY <1>5 DEF Reread, TakeGuard, CapReached
<1>6. ASSUME NEW c \in Callers, NEW ok \in BOOLEAN, CreateBridge(c, ok)
      PROVE  TypeOK'
  BY <1>6 DEF CreateBridge
<1>7. ASSUME NEW c \in Callers, Install(c)
      PROVE  TypeOK'
  <2>1. bridge' \in Bridges /\ newest' \in Nat
    <3>1. bridge' = bridge \/ bridge' = NewBridge(made[c])
      BY <1>7 DEF Install
    <3>2. NewBridge(made[c]) \in Bridges
      BY DEF NewBridge
    <3>3. newest' = newest \/ newest' = made[c]
      BY <1>7 DEF Install
    <3> QED
      BY <3>1, <3>2, <3>3
  <2> QED
    BY <1>7, <2>1 DEF Install
<1>8. ASSUME NEW c \in Callers, InitSucceeded(c)
      PROVE  TypeOK'
  BY <1>8 DEF InitSucceeded, TakeGuard
<1>9. ASSUME NEW c \in Callers, InitFailed(c)
      PROVE  TypeOK'
  BY <1>9 DEF InitFailed, Forget
<1>10. ASSUME NEW c \in Callers, RestartSettled(c)
      PROVE  TypeOK'
  <2>1. Forget(c)
    BY <1>10 DEF RestartSettled
  <2>2. pc' \in [Callers -> Steps]
    BY <1>10 DEF RestartSettled, TypeOK, Steps, Goto
  <2>3. bridge' \in Bridges
    BY <1>10, BridgeAssumption
       DEF RestartSettled, TypeOK, Bridges, Ages, Never, Younger
  <2>4. restartCount' \in Nat
    BY <1>10 DEF RestartSettled, TypeOK
  <2>5. reported' \in BOOLEAN
    BY <1>10, Zenon DEF RestartSettled, TypeOK
  <2> QED
    BY <1>10, <2>1, <2>2, <2>3, <2>4, <2>5, LocalsTyped
       DEF RestartSettled, TypeOK
<1>11. ASSUME NEW c \in Callers, PassGate(c)
      PROVE  TypeOK'
  <2>1. Forget(c) \/ UNCHANGED locals
    BY <1>11 DEF PassGate, ReleaseGuard
  <2>2. pc' \in [Callers -> Steps]
    BY <1>11 DEF PassGate, ReleaseGuard, TypeOK, Steps, Goto
  <2>3. guards' \in SUBSET Callers
    BY <1>11 DEF PassGate, ReleaseGuard, TypeOK
  <2> QED
    BY <1>11, <2>1, <2>2, <2>3, LocalsTyped DEF PassGate, TypeOK
<1>12. ASSUME NEW c \in Callers, Probe(c)
      PROVE  TypeOK'
  <2>1. Forget(c) \/ UNCHANGED locals
    BY <1>12 DEF Probe, ReleaseGuard
  <2>2. pc' \in [Callers -> Steps]
    BY <1>12 DEF Probe, ReleaseGuard, TypeOK, Steps, Goto
  <2>3. guards' \in SUBSET Callers
    BY <1>12 DEF Probe, ReleaseGuard, TypeOK
  <2>4. bridge' \in Bridges
    BY <1>12, BridgeAssumption DEF Probe, TypeOK, Bridges, Ages, Never
  <2> QED
    BY <1>12, <2>1, <2>2, <2>3, <2>4, LocalsTyped DEF Probe, TypeOK
<1>13. ASSUME NEW c \in Callers, EnterClr(c)
      PROVE  TypeOK'
  BY <1>13 DEF EnterClr, GateIsFree
<1>14. ASSUME NEW c \in Callers, GiveUpQueue(c)
      PROVE  TypeOK'
  BY <1>14 DEF GiveUpQueue, ReleaseGuard, Forget
<1>15. ASSUME NEW c \in Callers, TimeOut(c)
      PROVE  TypeOK'
  BY <1>15 DEF TimeOut
<1>16. ASSUME NEW c \in Callers, Done(c)
      PROVE  TypeOK'
  BY <1>16 DEF Done, ReleaseGuard, Forget
<1>17. ASSUME NEW c \in Callers, NEW restart \in BOOLEAN, Failed(c, restart)
      PROVE  TypeOK'
  <2>1. Forget(c) \/ UNCHANGED locals
    BY <1>17 DEF Failed, ReleaseGuard
  <2>2. pc' \in [Callers -> Steps]
    BY <1>17 DEF Failed, ReleaseGuard, TypeOK, Steps, Goto
  <2>3. guards' \in SUBSET Callers
    BY <1>17 DEF Failed, ReleaseGuard, TypeOK
  <2> QED
    BY <1>17, <2>1, <2>2, <2>3, LocalsTyped DEF Failed, TypeOK
<1>18. ASSUME NEW c \in Callers, RestartCheck(c)
      PROVE  TypeOK'
  <2>1. Forget(c) \/ UNCHANGED locals
    BY <1>18 DEF RestartCheck
  <2>2. pc' \in [Callers -> Steps]
    BY <1>18 DEF RestartCheck, TypeOK, Steps, Goto
  <2> QED
    BY <1>18, <2>1, <2>2, LocalsTyped DEF RestartCheck, TypeOK
<1>19. ASSUME NEW c \in Callers, RestartTake(c)
      PROVE  TypeOK'
  BY <1>19 DEF RestartTake
<1>20. ASSUME NEW c \in Callers, RestartCount(c)
      PROVE  TypeOK'
  <2>1. pc' \in [Callers -> Steps]
    BY <1>20 DEF RestartCount, TypeOK, Steps, Goto
  <2>2. CASE restartCount + 1 > MaxRestarts
    BY <1>20, <2>1, <2>2, LocalsTyped DEF RestartCount, TypeOK
  <2>3. CASE ~(restartCount + 1 > MaxRestarts)
    <3>1. restarting' = [restarting EXCEPT ![c] = TRUE]
      BY <1>20, <2>3 DEF RestartCount
    <3>2. restarting \in [Callers -> BOOLEAN]
      OBVIOUS
    <3>3. restarting' \in [Callers -> BOOLEAN]
      BY ONLY <3>1, <3>2
    <3> QED
      BY <1>20, <2>1, <2>3, <3>3 DEF RestartCount, TypeOK
  <2> QED
    BY <2>2, <2>3
<1>21. ASSUME NEW c \in Callers, ShutdownTake(c)
      PROVE  TypeOK'
  BY <1>21 DEF ShutdownTake
<1>22. ASSUME NEW t \in calls,
             NEW outcome \in {"reply", "poisoned", "panic"},
             ClrReturns(t, outcome)
      PROVE  TypeOK'
  BY <1>22 DEF ClrReturns
<1>23. CASE FindToolchain
  BY <1>23 DEF FindToolchain
<1>24. CASE Tick
  BY <1>24 DEF Tick, Older
<1>25. CASE UNCHANGED vars
  BY <1>25 DEF vars
<1>26. ASSUME NEW c \in Callers, CallerStep(c) PROVE TypeOK'
  BY <1>26, <1>3, <1>4, <1>5, <1>6, <1>7, <1>8, <1>9, <1>10, <1>11, <1>12,
     <1>13, <1>14, <1>15, <1>16, <1>17, <1>18, <1>19, <1>20, <1>21
     DEF CallerStep
<1>27. ASSUME NEW c \in Callers, Abort(c)
       PROVE  TypeOK'
  <2>1. Forget(c)
    BY <1>27 DEF Abort, DropTask
  <2>2. pc' \in [Callers -> Steps]
    BY <1>27 DEF Abort, DropTask
  <2> QED
    BY <1>27, <2>1, <2>2, LocalsTyped DEF Abort, DropTask
<1>28. ASSUME NEW c \in Callers, AbortSettling(c)
       PROVE  TypeOK'
  <2>1. Forget(c)
    BY <1>28 DEF AbortSettling, DropTask
  <2>2. pc' \in [Callers -> Steps]
    BY <1>28 DEF AbortSettling, DropTask
  <2>3. reported' \in BOOLEAN
    BY <1>28, Zenon DEF AbortSettling, TypeOK
  <2>4. restartCount' \in Nat
    BY <1>28 DEF AbortSettling
  <2> QED
    BY <1>28, <2>1, <2>2, <2>3, <2>4, LocalsTyped DEF AbortSettling, DropTask
<1>29. ASSUME NEW ok \in BOOLEAN, OrphanEnds(ok)
       PROVE  TypeOK'
  BY <1>29 DEF OrphanEnds
<1> QED
  BY <1>1, <1>2, <1>22, <1>23, <1>24, <1>25, <1>26, <1>27, <1>28, <1>29
     DEF Next

-----------------------------------------------------------------------------
\* Nothing is installed, held or running at first.
LEMMA BridgeInit == Init => BridgeInv
<1> SUFFICES ASSUME Init PROVE BridgeInv
  OBVIOUS
<1>1. TypeOK
  BY TypesInit
<1>2. LocksMatchSteps /\ GuardPinsBridge /\ LateFailureSparesNewBridge
  BY DEF Init, LocksMatchSteps, GuardPinsBridge, LateFailureSparesNewBridge,
         LifecycleSteps, GuardSteps
<1>3. InstalledMatchesInit /\ AtMostOneCall /\ FailuresHaveGenerations
  BY DEF Init, InstalledMatchesInit, AtMostOneCall, FailuresHaveGenerations
<1>4. FailuresAreCounted /\ CreatedIsNewer
  BY BridgeAssumption
     DEF Init, FailuresAreCounted, Uncounted, CreatedIsNewer
<1> QED
  BY <1>1, <1>2, <1>3, <1>4 DEF BridgeInv

\* A bound on a sum stays one when something is added to it.
LEMMA SumBelow ==
  ASSUME NEW a \in Nat, NEW b \in Nat, NEW l \in Nat, NEW r \in Nat,
         a + b <= l
  PROVE  a + b <= r + l
OBVIOUS

\* The inductive step: one step per action and, where the action can disturb
\* them, one per conjunct of BridgeInv.
LEMMA BridgeStep == BridgeInv /\ [Next]_vars => BridgeInv'
<1> SUFFICES ASSUME BridgeInv, [Next]_vars PROVE BridgeInv'
  OBVIOUS
<1>0. TypeOK /\ TypeOK'
  BY TypesStep DEF BridgeInv
<1> USE BridgeAssumption, <1>0 DEF BridgeInv, aside
<1>1. ASSUME NEW c \in Callers, UseBridge(c)
      PROVE  BridgeInv'
  BY <1>1
     DEF UseBridge, TypeOK, BridgeInv, LocksMatchSteps, InstalledMatchesInit,
         GuardPinsBridge, LateFailureSparesNewBridge, AtMostOneCall,
         FailuresHaveGenerations, FailuresAreCounted, CreatedIsNewer,
         Uncounted, NoBridge, Bridges, LifecycleSteps, GuardSteps, Goto,
         locals
<1>2. ASSUME NEW c \in Callers, Shutdown(c)
      PROVE  BridgeInv'
  BY <1>2
     DEF Shutdown, TypeOK, BridgeInv, LocksMatchSteps, InstalledMatchesInit,
         GuardPinsBridge, LateFailureSparesNewBridge, AtMostOneCall,
         FailuresHaveGenerations, FailuresAreCounted, CreatedIsNewer,
         Uncounted, NoBridge, Bridges, LifecycleSteps, GuardSteps, Goto,
         locals
<1>3. ASSUME NEW c \in Callers, FastRead(c)
      PROVE  BridgeInv'
  BY <1>3
     DEF FastRead, TakeGuard, TypeOK, BridgeInv, LocksMatchSteps,
         InstalledMatchesInit, GuardPinsBridge, LateFailureSparesNewBridge,
         AtMostOneCall, FailuresHaveGenerations, FailuresAreCounted,
         CreatedIsNewer, Uncounted, NoBridge, Bridges, LifecycleSteps,
         GuardSteps, Goto, locals
<1>4. ASSUME NEW c \in Callers, LockLifecycle(c)
      PROVE  BridgeInv'
  BY <1>4
     DEF LockLifecycle, TypeOK, BridgeInv, LocksMatchSteps,
         InstalledMatchesInit, GuardPinsBridge, LateFailureSparesNewBridge,
         AtMostOneCall, FailuresHaveGenerations, FailuresAreCounted,
         CreatedIsNewer, Uncounted, NoBridge, Bridges, LifecycleSteps,
         GuardSteps, Goto, locals
<1>5. ASSUME NEW c \in Callers, Reread(c)
      PROVE  BridgeInv'
  <2>a. \A d \in Callers \ {c} : pc'[d] = pc[d]
    BY <1>5 DEF Reread, TakeGuard, Goto, TypeOK
  <2>b. pc'[c] \in {"gate", "idle", "init"}
    BY <1>5 DEF Reread, TakeGuard, Goto, TypeOK
  <2>c. \A d \in Callers : Uncounted(d)' <=> Uncounted(d)
    BY <1>5, <2>a, <2>b DEF Reread, Uncounted
  <2>d. pc'[c] = "init" => restartCount < MaxRestarts /\ ~restarting[c]
    BY <1>5, <2>b, BridgeAssumption
       DEF Reread, TakeGuard, Goto, CapReached, TypeOK, FailuresAreCounted
  <2>1. LocksMatchSteps'
    BY <1>5
       DEF TypeOK, Bridges, Reread, TakeGuard, CapReached, LocksMatchSteps,
           LifecycleSteps, GuardSteps, Goto
  <2>2. InstalledMatchesInit'
    BY <1>5
       DEF TypeOK, Bridges, Reread, TakeGuard, CapReached,
           InstalledMatchesInit, LocksMatchSteps, LifecycleSteps, Goto,
           NoBridge, locals
  <2>3. GuardPinsBridge'
    BY <1>5
       DEF TypeOK, Bridges, Reread, TakeGuard, CapReached, GuardPinsBridge,
           InstalledMatchesInit, LocksMatchSteps, GuardSteps, Goto, NoBridge,
           locals
  <2>4. LateFailureSparesNewBridge'
    BY <1>5
       DEF TypeOK, Bridges, Reread, TakeGuard, CapReached,
           LateFailureSparesNewBridge, FailuresHaveGenerations,
           InstalledMatchesInit, LocksMatchSteps, LifecycleSteps, Goto,
           NoBridge, locals
  <2>5. AtMostOneCall'
    BY <1>5 DEF TypeOK, Bridges, Reread, TakeGuard, CapReached, AtMostOneCall
  <2>6. FailuresHaveGenerations'
    BY <1>5
       DEF TypeOK, Bridges, Reread, TakeGuard, CapReached,
           FailuresHaveGenerations, GuardPinsBridge, LocksMatchSteps,
           GuardSteps, Goto, locals
  <2>7. FailuresAreCounted'
    BY <1>5, <2>a, <2>b, <2>c, <2>d DEF Reread, FailuresAreCounted
  <2>8. CreatedIsNewer'
    BY <1>5
       DEF TypeOK, Reread, TakeGuard, CreatedIsNewer, Goto, locals
  <2> QED
    BY <1>0, <2>1, <2>2, <2>3, <2>4, <2>5, <2>6, <2>7, <2>8 DEF BridgeInv
<1>6. ASSUME NEW c \in Callers, NEW ok \in BOOLEAN, CreateBridge(c, ok)
      PROVE  BridgeInv'
  <2>1. LocksMatchSteps'
    BY <1>6
       DEF TypeOK, Bridges, CreateBridge, LocksMatchSteps, LifecycleSteps,
           GuardSteps, Goto
  <2>2. InstalledMatchesInit'
    BY <1>6
       DEF TypeOK, Bridges, CreateBridge, InstalledMatchesInit,
           LocksMatchSteps, LifecycleSteps, Goto, NoBridge, locals
  <2>3. GuardPinsBridge'
    BY <1>6
       DEF TypeOK, Bridges, CreateBridge, GuardPinsBridge,
           InstalledMatchesInit, LocksMatchSteps, GuardSteps, Goto, NoBridge,
           locals
  <2>4. LateFailureSparesNewBridge'
    BY <1>6
       DEF TypeOK, Bridges, CreateBridge, LateFailureSparesNewBridge,
           FailuresHaveGenerations, InstalledMatchesInit, LocksMatchSteps,
           LifecycleSteps, Goto, NoBridge, locals
  <2>5. AtMostOneCall'
    BY <1>6 DEF TypeOK, Bridges, CreateBridge, AtMostOneCall
  <2>6. FailuresHaveGenerations'
    BY <1>6
       DEF TypeOK, Bridges, CreateBridge, FailuresHaveGenerations,
           GuardPinsBridge, LocksMatchSteps, GuardSteps, Goto, locals
  <2>7. FailuresAreCounted'
    BY <1>6
       DEF TypeOK, Bridges, CreateBridge, FailuresAreCounted, Uncounted,
           InstalledMatchesInit, LocksMatchSteps, LifecycleSteps, Goto,
           NoBridge, locals
  <2>8. CreatedIsNewer'
    BY <1>6
       DEF TypeOK, CreateBridge, LocksMatchSteps, LifecycleSteps,
           CreatedIsNewer, Goto, locals
  <2> QED
    BY <1>0, <2>1, <2>2, <2>3, <2>4, <2>5, <2>6, <2>7, <2>8 DEF BridgeInv
<1>7. ASSUME NEW c \in Callers, Install(c)
      PROVE  BridgeInv'
  <2>a. /\ bridge = NoBridge
        /\ bridge' = IF made[c] # 0 THEN NewBridge(made[c]) ELSE NoBridge
    BY <1>7 DEF Install, InstalledMatchesInit
  <2>b. bridge' = NoBridge <=> made[c] = 0
    BY <2>a DEF NoBridge, NewBridge
  <2>c. pc'[c] = "settle"
    BY <1>7 DEF Install, Goto, TypeOK
  <2>d. \A d \in Callers \ {c} : pc'[d] = pc[d] /\ pc[d] \notin LifecycleSteps
    BY <1>7 DEF Install, LocksMatchSteps, LifecycleSteps, Goto, TypeOK
  <2>1. LocksMatchSteps'
    BY <1>7
       DEF TypeOK, Bridges, Install, NewBridge, LocksMatchSteps,
           LifecycleSteps, GuardSteps, Goto
  <2>2. InstalledMatchesInit'
    BY <1>7, <2>a, <2>b, <2>c, <2>d
       DEF Install, NewBridge, InstalledMatchesInit, LifecycleSteps, NoBridge, locals
  <2>3. GuardPinsBridge'
    BY <1>7
       DEF TypeOK, Bridges, Install, NewBridge, GuardPinsBridge,
           InstalledMatchesInit, LocksMatchSteps, GuardSteps, Goto, NoBridge,
           locals
  <2>4. LateFailureSparesNewBridge'
    BY <1>7
       DEF TypeOK, Bridges, Install, NewBridge, LateFailureSparesNewBridge,
           FailuresHaveGenerations, InstalledMatchesInit, LocksMatchSteps,
           LifecycleSteps, Goto, NoBridge, locals
  <2>5. AtMostOneCall'
    BY <1>7 DEF TypeOK, Bridges, Install, NewBridge, AtMostOneCall
  <2>6. FailuresHaveGenerations'
    BY <1>7
       DEF TypeOK, Bridges, Install, NewBridge, FailuresHaveGenerations,
           GuardPinsBridge, LocksMatchSteps, GuardSteps, Goto, locals
  <2>7. FailuresAreCounted'
    BY <1>7, <2>a, <2>b, <2>c, <2>d
       DEF Install, FailuresAreCounted, Uncounted, LifecycleSteps, locals,
           TypeOK
  <2>8. CreatedIsNewer'
    BY <1>7
       DEF TypeOK, Install, LocksMatchSteps, LifecycleSteps, CreatedIsNewer,
           Goto, locals
  <2> QED
    BY <1>0, <2>1, <2>2, <2>3, <2>4, <2>5, <2>6, <2>7, <2>8 DEF BridgeInv
<1>8. ASSUME NEW c \in Callers, InitSucceeded(c)
      PROVE  BridgeInv'
  <2>1. LocksMatchSteps'
    BY <1>8
       DEF TypeOK, Bridges, InitSucceeded, TakeGuard, LocksMatchSteps,
           LifecycleSteps, GuardSteps, Goto
  <2>2. InstalledMatchesInit'
    BY <1>8
       DEF TypeOK, Bridges, InitSucceeded, TakeGuard, InstalledMatchesInit,
           LocksMatchSteps, LifecycleSteps, Goto, NoBridge, locals
  <2>3. GuardPinsBridge'
    BY <1>8
       DEF TypeOK, Bridges, InitSucceeded, TakeGuard, GuardPinsBridge,
           InstalledMatchesInit, LocksMatchSteps, GuardSteps, Goto, NoBridge,
           locals
  <2>4. LateFailureSparesNewBridge'
    BY <1>8
       DEF TypeOK, Bridges, InitSucceeded, TakeGuard,
           LateFailureSparesNewBridge, FailuresHaveGenerations,
           InstalledMatchesInit, LocksMatchSteps, LifecycleSteps, Goto,
           NoBridge, locals
  <2>5. AtMostOneCall'
    BY <1>8 DEF TypeOK, Bridges, InitSucceeded, TakeGuard, AtMostOneCall
  <2>6. FailuresHaveGenerations'
    BY <1>8
       DEF TypeOK, Bridges, InitSucceeded, TakeGuard, FailuresHaveGenerations,
           GuardPinsBridge, LocksMatchSteps, GuardSteps, Goto, locals
  <2>7. FailuresAreCounted'
    BY <1>8
       DEF TypeOK, Bridges, InitSucceeded, TakeGuard, FailuresAreCounted,
           Uncounted, InstalledMatchesInit, LocksMatchSteps, LifecycleSteps,
           Goto, NoBridge, locals
  <2>8. CreatedIsNewer'
    BY <1>8
       DEF TypeOK, InitSucceeded, TakeGuard, CreatedIsNewer, Goto, locals
  <2> QED
    BY <1>0, <2>1, <2>2, <2>3, <2>4, <2>5, <2>6, <2>7, <2>8 DEF BridgeInv
<1>9. ASSUME NEW c \in Callers, InitFailed(c)
      PROVE  BridgeInv'
  BY <1>9
     DEF InitFailed, Forget, TypeOK, BridgeInv, LocksMatchSteps,
         InstalledMatchesInit, GuardPinsBridge, LateFailureSparesNewBridge,
         AtMostOneCall, FailuresHaveGenerations, FailuresAreCounted,
         CreatedIsNewer, Uncounted, NoBridge, Bridges, LifecycleSteps,
         GuardSteps, Goto, locals
<1>10. ASSUME NEW c \in Callers, RestartSettled(c)
      PROVE  BridgeInv'
  <2>1. LocksMatchSteps'
    BY <1>10
       DEF TypeOK, Bridges, RestartSettled, Forget, Younger, LocksMatchSteps,
           LifecycleSteps, GuardSteps, Goto
  <2>2. InstalledMatchesInit'
    BY <1>10
       DEF TypeOK, Bridges, RestartSettled, Forget, Younger,
           InstalledMatchesInit, LocksMatchSteps, LifecycleSteps, Goto,
           NoBridge, locals
  <2>3. GuardPinsBridge'
    BY <1>10
       DEF TypeOK, Bridges, RestartSettled, Forget, Younger, GuardPinsBridge,
           InstalledMatchesInit, LocksMatchSteps, GuardSteps, Goto, NoBridge,
           locals
  <2>4. LateFailureSparesNewBridge'
    BY <1>10
       DEF TypeOK, Bridges, RestartSettled, Forget, Younger,
           LateFailureSparesNewBridge, FailuresHaveGenerations,
           InstalledMatchesInit, LocksMatchSteps, LifecycleSteps, Goto,
           NoBridge, locals
  <2>5. AtMostOneCall'
    BY <1>10
       DEF TypeOK, Bridges, RestartSettled, Forget, Younger, AtMostOneCall
  <2>6. FailuresHaveGenerations'
    BY <1>10
       DEF TypeOK, Bridges, RestartSettled, Forget, Younger,
           FailuresHaveGenerations, GuardPinsBridge, LocksMatchSteps,
           GuardSteps, Goto, locals
  <2>7. FailuresAreCounted'
    BY <1>10
       DEF TypeOK, Bridges, RestartSettled, Forget, Younger,
           FailuresAreCounted, Uncounted, InstalledMatchesInit,
           LocksMatchSteps, LifecycleSteps, Goto, NoBridge, locals
  <2>8. CreatedIsNewer'
    BY <1>10
       DEF TypeOK, RestartSettled, Forget, CreatedIsNewer, Goto, locals
  <2> QED
    BY <1>0, <2>1, <2>2, <2>3, <2>4, <2>5, <2>6, <2>7, <2>8 DEF BridgeInv
<1>11. ASSUME NEW c \in Callers, PassGate(c)
      PROVE  BridgeInv'
  <2>1. LocksMatchSteps'
    BY <1>11
       DEF TypeOK, Bridges, PassGate, ReleaseGuard, Forget, CoolingDown,
           LocksMatchSteps, LifecycleSteps, GuardSteps, Goto
  <2>2. InstalledMatchesInit'
    BY <1>11
       DEF TypeOK, Bridges, PassGate, ReleaseGuard, Forget, CoolingDown,
           InstalledMatchesInit, LocksMatchSteps, LifecycleSteps, Goto,
           NoBridge, locals
  <2>3. GuardPinsBridge'
    BY <1>11
       DEF TypeOK, Bridges, PassGate, ReleaseGuard, Forget, CoolingDown,
           GuardPinsBridge, InstalledMatchesInit, LocksMatchSteps, GuardSteps,
           Goto, NoBridge, locals
  <2>4. LateFailureSparesNewBridge'
    BY <1>11
       DEF TypeOK, Bridges, PassGate, ReleaseGuard, Forget, CoolingDown,
           LateFailureSparesNewBridge, FailuresHaveGenerations,
           InstalledMatchesInit, LocksMatchSteps, LifecycleSteps, Goto,
           NoBridge, locals
  <2>5. AtMostOneCall'
    BY <1>11
       DEF TypeOK, Bridges, PassGate, ReleaseGuard, Forget, CoolingDown,
           AtMostOneCall
  <2>6. FailuresHaveGenerations'
    BY <1>11
       DEF TypeOK, Bridges, PassGate, ReleaseGuard, Forget, CoolingDown,
           FailuresHaveGenerations, GuardPinsBridge, LocksMatchSteps,
           GuardSteps, Goto, locals
  <2>7. FailuresAreCounted'
    BY <1>11
       DEF TypeOK, Bridges, PassGate, ReleaseGuard, Forget, CoolingDown,
           FailuresAreCounted, Uncounted, InstalledMatchesInit,
           LocksMatchSteps, LifecycleSteps, Goto, NoBridge, locals
  <2>8. CreatedIsNewer'
    BY <1>11
       DEF TypeOK, PassGate, ReleaseGuard, Forget, CreatedIsNewer, Goto,
           locals
  <2> QED
    BY <1>0, <2>1, <2>2, <2>3, <2>4, <2>5, <2>6, <2>7, <2>8 DEF BridgeInv
<1>12. ASSUME NEW c \in Callers, Probe(c)
      PROVE  BridgeInv'
  <2>a. bridge.gen # 0
    BY <1>12 DEF Probe, GuardPinsBridge, LocksMatchSteps, GuardSteps
  <2>b. bridge # NoBridge /\ bridge' # NoBridge /\ bridge'.gen = bridge.gen
    BY <1>12, <2>a DEF Probe, TypeOK, Bridges, NoBridge
  <2>c. /\ pc'[c] \in {"failed", "idle", "queue"}
        /\ \A d \in Callers \ {c} : pc'[d] = pc[d]
    BY <1>12 DEF Probe, ReleaseGuard, Goto, TypeOK
  <2>d. /\ Forget(c) \/ UNCHANGED locals
        /\ UNCHANGED <<restartCount, failedInits, orphans, lost>>
    BY <1>12 DEF Probe, ReleaseGuard
  <2>e. \A d \in Callers \ {c} :
           made'[d] = made[d] /\ restarting'[d] = restarting[d]
    BY <2>d DEF Forget, locals, TypeOK
  <2>f. restarting'[c] = FALSE
    BY <1>12, <2>d DEF Probe, Forget, locals, TypeOK, FailuresAreCounted
  <2>1. LocksMatchSteps'
    BY <1>12
       DEF TypeOK, Bridges, Probe, ReleaseGuard, Forget, LocksMatchSteps,
           LifecycleSteps, GuardSteps, Goto
  <2>2. InstalledMatchesInit'
    BY <2>a, <2>b, <2>c, <2>e DEF InstalledMatchesInit
  <2>3. GuardPinsBridge'
    BY <1>12
       DEF TypeOK, Bridges, Probe, ReleaseGuard, Forget, GuardPinsBridge,
           InstalledMatchesInit, LocksMatchSteps, GuardSteps, Goto, NoBridge,
           locals
  <2>4. LateFailureSparesNewBridge'
    BY <1>12
       DEF TypeOK, Bridges, Probe, ReleaseGuard, Forget,
           LateFailureSparesNewBridge, FailuresHaveGenerations,
           InstalledMatchesInit, LocksMatchSteps, LifecycleSteps, Goto,
           NoBridge, locals
  <2>5. AtMostOneCall'
    BY <1>12 DEF TypeOK, Bridges, Probe, ReleaseGuard, Forget, AtMostOneCall
  <2>6. FailuresHaveGenerations'
    BY <1>12
       DEF TypeOK, Bridges, Probe, ReleaseGuard, Forget,
           FailuresHaveGenerations, GuardPinsBridge, LocksMatchSteps,
           GuardSteps, Goto, locals
  <2>7. FailuresAreCounted'
    BY <2>b, <2>c, <2>d, <2>e, <2>f
       DEF FailuresAreCounted, Uncounted, InstalledMatchesInit, TypeOK
  <2>8. CreatedIsNewer'
    BY <1>12
       DEF TypeOK, Probe, ReleaseGuard, Forget, CreatedIsNewer, Goto, locals
  <2> QED
    BY <1>0, <2>1, <2>2, <2>3, <2>4, <2>5, <2>6, <2>7, <2>8 DEF BridgeInv
<1>13. ASSUME NEW c \in Callers, EnterClr(c)
      PROVE  BridgeInv'
  BY <1>13
     DEF EnterClr, GateIsFree, TypeOK, BridgeInv, LocksMatchSteps,
         InstalledMatchesInit, GuardPinsBridge, LateFailureSparesNewBridge,
         AtMostOneCall, FailuresHaveGenerations, FailuresAreCounted,
         CreatedIsNewer, Uncounted, NoBridge, Bridges, LifecycleSteps,
         GuardSteps, Goto, locals
<1>14. ASSUME NEW c \in Callers, GiveUpQueue(c)
      PROVE  BridgeInv'
  BY <1>14
     DEF GiveUpQueue, ReleaseGuard, Forget, TypeOK, BridgeInv, LocksMatchSteps,
         InstalledMatchesInit, GuardPinsBridge, LateFailureSparesNewBridge,
         AtMostOneCall, FailuresHaveGenerations, FailuresAreCounted,
         CreatedIsNewer, Uncounted, NoBridge, Bridges, LifecycleSteps,
         GuardSteps, Goto, locals
<1>15. ASSUME NEW c \in Callers, TimeOut(c)
      PROVE  BridgeInv'
  BY <1>15
     DEF TimeOut, TypeOK, BridgeInv, LocksMatchSteps, InstalledMatchesInit,
         GuardPinsBridge, LateFailureSparesNewBridge, AtMostOneCall,
         FailuresHaveGenerations, FailuresAreCounted, CreatedIsNewer,
         Uncounted, NoBridge, Bridges, LifecycleSteps, GuardSteps, Goto,
         locals
<1>16. ASSUME NEW c \in Callers, Done(c)
      PROVE  BridgeInv'
  BY <1>16
     DEF Done, ReleaseGuard, Forget, TypeOK, BridgeInv, LocksMatchSteps,
         InstalledMatchesInit, GuardPinsBridge, LateFailureSparesNewBridge,
         AtMostOneCall, FailuresHaveGenerations, FailuresAreCounted,
         CreatedIsNewer, Uncounted, NoBridge, Bridges, LifecycleSteps,
         GuardSteps, Goto, locals
<1>17. ASSUME NEW c \in Callers, NEW restart \in BOOLEAN, Failed(c, restart)
      PROVE  BridgeInv'
  <2>1. LocksMatchSteps'
    BY <1>17
       DEF TypeOK, Bridges, Failed, ReleaseGuard, Forget, LocksMatchSteps,
           LifecycleSteps, GuardSteps, Goto
  <2>2. InstalledMatchesInit'
    BY <1>17
       DEF TypeOK, Bridges, Failed, ReleaseGuard, Forget, InstalledMatchesInit,
           LocksMatchSteps, LifecycleSteps, Goto, NoBridge, locals
  <2>3. GuardPinsBridge'
    BY <1>17
       DEF TypeOK, Bridges, Failed, ReleaseGuard, Forget, GuardPinsBridge,
           InstalledMatchesInit, LocksMatchSteps, GuardSteps, Goto, NoBridge,
           locals
  <2>4. LateFailureSparesNewBridge'
    BY <1>17
       DEF TypeOK, Bridges, Failed, ReleaseGuard, Forget,
           LateFailureSparesNewBridge, FailuresHaveGenerations,
           InstalledMatchesInit, LocksMatchSteps, LifecycleSteps, Goto,
           NoBridge, locals
  <2>5. AtMostOneCall'
    BY <1>17 DEF TypeOK, Bridges, Failed, ReleaseGuard, Forget, AtMostOneCall
  <2>6. FailuresHaveGenerations'
    BY <1>17
       DEF TypeOK, Bridges, Failed, ReleaseGuard, Forget,
           FailuresHaveGenerations, GuardPinsBridge, LocksMatchSteps,
           GuardSteps, Goto, locals
  <2>7. FailuresAreCounted'
    BY <1>17
       DEF TypeOK, Bridges, Failed, ReleaseGuard, Forget, FailuresAreCounted,
           Uncounted, InstalledMatchesInit, LocksMatchSteps, LifecycleSteps,
           Goto, NoBridge, locals
  <2>8. CreatedIsNewer'
    BY <1>17
       DEF TypeOK, Failed, ReleaseGuard, Forget, CreatedIsNewer, Goto, locals
  <2> QED
    BY <1>0, <2>1, <2>2, <2>3, <2>4, <2>5, <2>6, <2>7, <2>8 DEF BridgeInv
<1>18. ASSUME NEW c \in Callers, RestartCheck(c)
      PROVE  BridgeInv'
  <2>1. LocksMatchSteps'
    BY <1>18
       DEF TypeOK, Bridges, RestartCheck, Forget, LocksMatchSteps,
           LifecycleSteps, GuardSteps, Goto
  <2>2. InstalledMatchesInit'
    BY <1>18
       DEF TypeOK, Bridges, RestartCheck, Forget, InstalledMatchesInit,
           LocksMatchSteps, LifecycleSteps, Goto, NoBridge, locals
  <2>3. GuardPinsBridge'
    BY <1>18
       DEF TypeOK, Bridges, RestartCheck, Forget, GuardPinsBridge,
           InstalledMatchesInit, LocksMatchSteps, GuardSteps, Goto, NoBridge,
           locals
  <2>4. LateFailureSparesNewBridge'
    BY <1>18
       DEF TypeOK, Bridges, RestartCheck, Forget, LateFailureSparesNewBridge,
           FailuresHaveGenerations, InstalledMatchesInit, LocksMatchSteps,
           LifecycleSteps, Goto, NoBridge, locals
  <2>5. AtMostOneCall'
    BY <1>18 DEF TypeOK, Bridges, RestartCheck, Forget, AtMostOneCall
  <2>6. FailuresHaveGenerations'
    BY <1>18
       DEF TypeOK, Bridges, RestartCheck, Forget, FailuresHaveGenerations,
           GuardPinsBridge, LocksMatchSteps, GuardSteps, Goto, locals
  <2>7. FailuresAreCounted'
    BY <1>18
       DEF TypeOK, Bridges, RestartCheck, Forget, FailuresAreCounted,
           Uncounted, InstalledMatchesInit, LocksMatchSteps, LifecycleSteps,
           Goto, NoBridge, locals
  <2>8. CreatedIsNewer'
    BY <1>18
       DEF TypeOK, RestartCheck, Forget, CreatedIsNewer, Goto, locals
  <2> QED
    BY <1>0, <2>1, <2>2, <2>3, <2>4, <2>5, <2>6, <2>7, <2>8 DEF BridgeInv
<1>19. ASSUME NEW c \in Callers, RestartTake(c)
      PROVE  BridgeInv'
  BY <1>19
     DEF RestartTake, TypeOK, BridgeInv, LocksMatchSteps, InstalledMatchesInit,
         GuardPinsBridge, LateFailureSparesNewBridge, AtMostOneCall,
         FailuresHaveGenerations, FailuresAreCounted, CreatedIsNewer,
         Uncounted, NoBridge, Bridges, LifecycleSteps, GuardSteps, Goto,
         locals
<1>20. ASSUME NEW c \in Callers, RestartCount(c)
      PROVE  BridgeInv'
  <2>1. LocksMatchSteps'
    BY <1>20
       DEF TypeOK, Bridges, RestartCount, Forget, LocksMatchSteps,
           LifecycleSteps, GuardSteps, Goto
  <2>2. InstalledMatchesInit'
    BY <1>20
       DEF TypeOK, Bridges, RestartCount, Forget, InstalledMatchesInit,
           LocksMatchSteps, LifecycleSteps, Goto, NoBridge, locals
  <2>3. GuardPinsBridge'
    BY <1>20
       DEF TypeOK, Bridges, RestartCount, Forget, GuardPinsBridge,
           InstalledMatchesInit, LocksMatchSteps, GuardSteps, Goto, NoBridge,
           locals
  <2>4. LateFailureSparesNewBridge'
    BY <1>20
       DEF TypeOK, Bridges, RestartCount, Forget, LateFailureSparesNewBridge,
           FailuresHaveGenerations, InstalledMatchesInit, LocksMatchSteps,
           LifecycleSteps, Goto, NoBridge, locals
  <2>5. AtMostOneCall'
    BY <1>20 DEF TypeOK, Bridges, RestartCount, Forget, AtMostOneCall
  <2>6. FailuresHaveGenerations'
    BY <1>20
       DEF TypeOK, Bridges, RestartCount, Forget, FailuresHaveGenerations,
           GuardPinsBridge, LocksMatchSteps, GuardSteps, Goto, locals
  <2>7. FailuresAreCounted'
    BY <1>20
       DEF TypeOK, Bridges, RestartCount, Forget, FailuresAreCounted,
           Uncounted, InstalledMatchesInit, LocksMatchSteps, LifecycleSteps,
           Goto, NoBridge, locals
  <2>8. CreatedIsNewer'
    BY <1>20
       DEF TypeOK, RestartCount, Forget, CreatedIsNewer, Goto, locals
  <2> QED
    BY <1>0, <2>1, <2>2, <2>3, <2>4, <2>5, <2>6, <2>7, <2>8 DEF BridgeInv
<1>21. ASSUME NEW c \in Callers, ShutdownTake(c)
      PROVE  BridgeInv'
  BY <1>21
     DEF ShutdownTake, TypeOK, BridgeInv, LocksMatchSteps,
         InstalledMatchesInit, GuardPinsBridge, LateFailureSparesNewBridge,
         AtMostOneCall, FailuresHaveGenerations, FailuresAreCounted,
         CreatedIsNewer, Uncounted, NoBridge, Bridges, LifecycleSteps,
         GuardSteps, Goto, locals
<1>22. ASSUME NEW t \in calls,
             NEW outcome \in {"reply", "poisoned", "panic"},
             ClrReturns(t, outcome)
      PROVE  BridgeInv'
  <2>a. bridge = NoBridge => bridge' = NoBridge
    BY <1>22 DEF ClrReturns, FailuresHaveGenerations, NoBridge
  <2>b. bridge'.gen = bridge.gen
    BY <1>22 DEF ClrReturns, TypeOK, Bridges
  <2>c. bridge' = NoBridge => bridge = NoBridge
    BY <2>b DEF InstalledMatchesInit, NoBridge
  <2>d. \A d \in Callers : pc'[d] = pc[d] \/ pc'[d] \in {"done", "failed"}
    BY <1>22 DEF ClrReturns, TypeOK
  <2>e. \A d \in Callers : Uncounted(d)' <=> Uncounted(d)
    BY <1>22, <2>d DEF ClrReturns, Uncounted, locals, TypeOK
  <2>1. LocksMatchSteps'
    BY <1>22
       DEF TypeOK, Bridges, ClrReturns, LocksMatchSteps, LifecycleSteps,
           GuardSteps, Goto
  <2>2. InstalledMatchesInit'
    BY <1>22, <2>a, <2>b, <2>c, <2>d
       DEF ClrReturns, InstalledMatchesInit, locals, NoBridge
  <2>3. GuardPinsBridge'
    BY <1>22
       DEF TypeOK, Bridges, ClrReturns, GuardPinsBridge, InstalledMatchesInit,
           LocksMatchSteps, GuardSteps, Goto, NoBridge, locals
  <2>4. LateFailureSparesNewBridge'
    BY <1>22
       DEF TypeOK, Bridges, ClrReturns, LateFailureSparesNewBridge,
           FailuresHaveGenerations, InstalledMatchesInit, LocksMatchSteps,
           LifecycleSteps, Goto, NoBridge, locals
  <2>5. AtMostOneCall'
    BY <1>22 DEF TypeOK, Bridges, ClrReturns, AtMostOneCall
  <2>6. FailuresHaveGenerations'
    BY <1>22
       DEF TypeOK, Bridges, ClrReturns, FailuresHaveGenerations,
           GuardPinsBridge, LocksMatchSteps, GuardSteps, Goto, locals
  <2>7. FailuresAreCounted'
    BY <1>22, <2>a, <2>c, <2>d, <2>e
       DEF ClrReturns, FailuresAreCounted, locals
  <2>8. CreatedIsNewer'
    BY <1>22
       DEF TypeOK, ClrReturns, CreatedIsNewer, Goto, locals
  <2> QED
    BY <1>0, <2>1, <2>2, <2>3, <2>4, <2>5, <2>6, <2>7, <2>8 DEF BridgeInv
<1>23. CASE FindToolchain
  BY <1>23
     DEF FindToolchain, TypeOK, BridgeInv, LocksMatchSteps,
         InstalledMatchesInit, GuardPinsBridge, LateFailureSparesNewBridge,
         AtMostOneCall, FailuresHaveGenerations, FailuresAreCounted,
         CreatedIsNewer, Uncounted, NoBridge, Bridges, LifecycleSteps,
         GuardSteps, Goto, locals
<1>24. CASE Tick
  <2>a. bridge = NoBridge => bridge' = NoBridge
    <3> SUFFICES ASSUME bridge = NoBridge PROVE bridge' = NoBridge
      OBVIOUS
    <3>1. /\ bridge.stamp = Never
          /\ bridge' = [bridge EXCEPT !.stamp = Older(bridge.stamp)]
      BY <1>24 DEF NoBridge, Tick
    <3>2. bridge' = [bridge EXCEPT !.stamp = Never]
      BY <3>1 DEF Older
    <3> QED
      BY <3>2 DEF NoBridge
  <2>b. bridge'.gen = bridge.gen
    BY <1>24 DEF Tick, TypeOK, Bridges
  <2>c. bridge' = NoBridge => bridge = NoBridge
    BY <2>b DEF InstalledMatchesInit, NoBridge
  <2>1. LocksMatchSteps'
    BY <1>24
       DEF TypeOK, Bridges, Tick, Older, Never, CoolingDown, LocksMatchSteps,
           LifecycleSteps, GuardSteps, Goto
  <2>2. InstalledMatchesInit'
    BY <1>24, <2>a, <2>b, <2>c DEF Tick, InstalledMatchesInit, NoBridge
  <2>3. GuardPinsBridge'
    BY <1>24
       DEF TypeOK, Bridges, Tick, Older, Never, CoolingDown, GuardPinsBridge,
           InstalledMatchesInit, LocksMatchSteps, GuardSteps, Goto, NoBridge,
           locals
  <2>4. LateFailureSparesNewBridge'
    BY <1>24, <2>b, <2>c DEF Tick, LateFailureSparesNewBridge
  <2>5. AtMostOneCall'
    BY <1>24
       DEF TypeOK, Bridges, Tick, Older, Never, CoolingDown, AtMostOneCall
  <2>6. FailuresHaveGenerations'
    BY <1>24
       DEF TypeOK, Bridges, Tick, Older, Never, CoolingDown,
           FailuresHaveGenerations, GuardPinsBridge, LocksMatchSteps,
           GuardSteps, Goto, locals
  <2>7. FailuresAreCounted'
    BY <1>24, <2>a, <2>c DEF Tick, FailuresAreCounted, Uncounted
  <2>8. CreatedIsNewer'
    BY <1>24
       DEF TypeOK, Tick, CreatedIsNewer, Goto, locals
  <2> QED
    BY <1>0, <2>1, <2>2, <2>3, <2>4, <2>5, <2>6, <2>7, <2>8 DEF BridgeInv
<1>25. CASE UNCHANGED vars
  BY <1>25
     DEF vars, TypeOK, BridgeInv, LocksMatchSteps, InstalledMatchesInit,
         GuardPinsBridge, LateFailureSparesNewBridge, AtMostOneCall,
         FailuresHaveGenerations, FailuresAreCounted, CreatedIsNewer,
         Uncounted, NoBridge, Bridges, LifecycleSteps, GuardSteps, Goto,
         locals
<1>26. ASSUME NEW c \in Callers, CallerStep(c) PROVE BridgeInv'
  BY <1>26, <1>3, <1>4, <1>5, <1>6, <1>7, <1>8, <1>9, <1>10, <1>11, <1>12,
     <1>13, <1>14, <1>15, <1>16, <1>17, <1>18, <1>19, <1>20, <1>21
     DEF CallerStep
<1>27. ASSUME NEW c \in Callers, Abort(c)
       PROVE  BridgeInv'
  <2>1. LocksMatchSteps'
    BY <1>27
       DEF TypeOK, Bridges, Abort, AwaitSteps, DropTask, Forget,
           LocksMatchSteps, LifecycleSteps, GuardSteps, Goto
  <2>2. InstalledMatchesInit'
    BY <1>27
       DEF TypeOK, Bridges, Abort, AwaitSteps, DropTask, Forget,
           InstalledMatchesInit, LocksMatchSteps, LifecycleSteps, Goto,
           NoBridge, locals
  <2>3. GuardPinsBridge'
    BY <1>27
       DEF TypeOK, Bridges, Abort, AwaitSteps, DropTask, Forget,
           GuardPinsBridge, LocksMatchSteps, GuardSteps, Goto, locals
  <2>4. LateFailureSparesNewBridge'
    BY <1>27
       DEF TypeOK, Bridges, Abort, AwaitSteps, DropTask, Forget,
           LateFailureSparesNewBridge, LocksMatchSteps, LifecycleSteps, Goto,
           locals
  <2>5. AtMostOneCall'
    BY <1>27
       DEF TypeOK, Bridges, Abort, AwaitSteps, DropTask, Forget, AtMostOneCall
  <2>6. FailuresHaveGenerations'
    BY <1>27
       DEF TypeOK, Bridges, Abort, AwaitSteps, DropTask, Forget,
           FailuresHaveGenerations, Goto, locals
  <2>7. FailuresAreCounted'
    BY <1>27
       DEF TypeOK, Bridges, Abort, AwaitSteps, DropTask, Forget,
           FailuresAreCounted, Uncounted, InstalledMatchesInit,
           LocksMatchSteps, LifecycleSteps, Goto, NoBridge, locals
  <2>8. CreatedIsNewer'
    BY <1>27
       DEF TypeOK, Bridges, Abort, AwaitSteps, DropTask, Forget,
           CreatedIsNewer, Goto, locals
  <2> QED
    BY <1>0, <2>1, <2>2, <2>3, <2>4, <2>5, <2>6, <2>7, <2>8 DEF BridgeInv
<1>28. ASSUME NEW c \in Callers, AbortSettling(c)
       PROVE  BridgeInv'
  <2>1. LocksMatchSteps'
    BY <1>28
       DEF TypeOK, Bridges, AbortSettling, DropTask, Forget, LocksMatchSteps,
           LifecycleSteps, GuardSteps, Goto
  <2>2. InstalledMatchesInit'
    BY <1>28
       DEF TypeOK, Bridges, AbortSettling, DropTask, Forget,
           InstalledMatchesInit, LocksMatchSteps, LifecycleSteps, Goto,
           NoBridge, locals
  <2>3. GuardPinsBridge'
    BY <1>28
       DEF TypeOK, Bridges, AbortSettling, DropTask, Forget, GuardPinsBridge,
           LocksMatchSteps, GuardSteps, Goto, locals
  <2>4. LateFailureSparesNewBridge'
    BY <1>28
       DEF TypeOK, Bridges, AbortSettling, DropTask, Forget,
           LateFailureSparesNewBridge, LocksMatchSteps, LifecycleSteps, Goto,
           locals
  <2>5. AtMostOneCall'
    BY <1>28
       DEF TypeOK, Bridges, AbortSettling, DropTask, Forget, AtMostOneCall
  <2>6. FailuresHaveGenerations'
    BY <1>28
       DEF TypeOK, Bridges, AbortSettling, DropTask, Forget,
           FailuresHaveGenerations, Goto, locals
  <2>7. FailuresAreCounted'
    <3>1. /\ bridge # NoBridge /\ bridge' = bridge
          /\ UNCHANGED <<failedInits, orphans, lost>>
          /\ restartCount' \in Nat
      BY <1>28 DEF AbortSettling, TypeOK
    <3>2. /\ pc'[c] = "idle" /\ restarting'[c] = FALSE
          /\ \A d \in Callers \ {c} :
                /\ pc'[d] = pc[d] /\ made'[d] = made[d]
                /\ restarting'[d] = restarting[d]
                /\ pc[d] \notin LifecycleSteps
      BY <1>28
         DEF AbortSettling, DropTask, Forget, Goto, TypeOK, LocksMatchSteps,
             LifecycleSteps
    <3>3. \A d \in Callers : ~Uncounted(d)'
      BY <3>2 DEF Uncounted, LifecycleSteps
    <3>4. failedInits + orphans <= lost /\ orphans <= lost
      BY <3>1 DEF FailuresAreCounted
    <3>5. /\ failedInits' + orphans' <= restartCount' + lost'
          /\ failedInits' + orphans' <= MaxRestarts + lost'
      <4>1. /\ failedInits' + orphans' <= lost'
            /\ failedInits' \in Nat /\ orphans' \in Nat /\ lost' \in Nat
            /\ restartCount' \in Nat /\ MaxRestarts \in Nat
        BY <3>1, <3>4, BridgeAssumption DEF TypeOK
      <4> QED
        BY <4>1, SumBelow
    <3>6. \A d \in Callers :
             /\ restarting'[d] => pc'[d] \in {"init", "install", "settle"}
             /\ pc'[d] \notin {"init", "install", "settle", "r_count"}
      BY <3>2 DEF FailuresAreCounted, LifecycleSteps
    <3> QED
      BY <3>1, <3>3, <3>4, <3>5, <3>6 DEF FailuresAreCounted
  <2>8. CreatedIsNewer'
    BY <1>28
       DEF TypeOK, Bridges, AbortSettling, DropTask, Forget, CreatedIsNewer,
           Goto, locals
  <2> QED
    BY <1>0, <2>1, <2>2, <2>3, <2>4, <2>5, <2>6, <2>7, <2>8 DEF BridgeInv
<1>29. ASSUME NEW ok \in BOOLEAN, OrphanEnds(ok)
       PROVE  BridgeInv'
  <2>1. LocksMatchSteps'
    BY <1>29
       DEF TypeOK, Bridges, OrphanEnds, LocksMatchSteps, LifecycleSteps,
           GuardSteps, Goto
  <2>2. InstalledMatchesInit'
    BY <1>29
       DEF TypeOK, Bridges, OrphanEnds, InstalledMatchesInit, LocksMatchSteps,
           LifecycleSteps, Goto, NoBridge, locals
  <2>3. GuardPinsBridge'
    BY <1>29
       DEF TypeOK, Bridges, OrphanEnds, GuardPinsBridge, LocksMatchSteps,
           GuardSteps, Goto, locals
  <2>4. LateFailureSparesNewBridge'
    BY <1>29
       DEF TypeOK, Bridges, OrphanEnds, LateFailureSparesNewBridge,
           LocksMatchSteps, LifecycleSteps, Goto, locals
  <2>5. AtMostOneCall'
    BY <1>29
       DEF TypeOK, Bridges, OrphanEnds, AtMostOneCall
  <2>6. FailuresHaveGenerations'
    BY <1>29
       DEF TypeOK, Bridges, OrphanEnds, FailuresHaveGenerations, Goto, locals
  <2>7. FailuresAreCounted'
    BY <1>29
       DEF TypeOK, Bridges, OrphanEnds, FailuresAreCounted, Uncounted,
           InstalledMatchesInit, LocksMatchSteps, LifecycleSteps, Goto,
           NoBridge, locals
  <2>8. CreatedIsNewer'
    BY <1>29
       DEF TypeOK, Bridges, OrphanEnds, CreatedIsNewer, Goto, locals
  <2> QED
    BY <1>0, <2>1, <2>2, <2>3, <2>4, <2>5, <2>6, <2>7, <2>8 DEF BridgeInv
<1> QED
  BY <1>1, <1>2, <1>22, <1>23, <1>24, <1>25, <1>26, <1>27, <1>28, <1>29
     DEF Next

-----------------------------------------------------------------------------
\* BridgeInv holds in every reachable state.
THEOREM BridgeInvariant == Spec => []BridgeInv
<1> QED
  BY BridgeInit, BridgeStep, PTL DEF Spec

\* Every variable of the bridge keeps its type.
THEOREM Typed == Spec => []TypeOK
<1>1. BridgeInv => TypeOK
  BY DEF BridgeInv
<1> QED
  BY <1>1, BridgeInvariant, PTL

\* call_with_timeout: at most one blocking task is inside the CLR, whatever
\* the number of callers, generations, restarts and timeouts.
THEOREM SingleClrCall == Spec => []OneClrCall
<1>1. BridgeInv => OneClrCall
  <2> SUFFICES ASSUME AtMostOneCall PROVE Cardinality(calls) <= 1
    BY DEF BridgeInv, OneClrCall
  <2>1. CASE calls = {}
    BY <2>1, FS_EmptySet
  <2>2. CASE calls # {}
    <3>1. PICK t \in calls : calls = {t}
      BY <2>2 DEF AtMostOneCall
    <3> QED
      BY <3>1, FS_Singleton
  <2> QED
    BY <2>1, <2>2
<1> QED
  BY <1>1, BridgeInvariant, PTL

\* restart_bridge_inner and shutdown_bridge wait for the callers: the bridge
\* behind a read guard is the one the guard was taken on.
THEOREM GuardedBridgeStays == Spec => []GuardPinsBridge
<1>1. BridgeInv => GuardPinsBridge
  BY DEF BridgeInv
<1> QED
  BY <1>1, BridgeInvariant, PTL

\* restart_bridge_if_current takes down only the generation that failed.
THEOREM LateFailureIsIgnored == Spec => []LateFailureSparesNewBridge
<1>1. BridgeInv => LateFailureSparesNewBridge
  BY DEF BridgeInv
<1> QED
  BY <1>1, BridgeInvariant, PTL

\* bridge_restart_count bounds the consecutive failed inits by MAX_RESTARTS
\* and the inits whose callers were aborted.
THEOREM FailedInitsBounded == Spec => []FailedInitsAreCapped
<1>1. BridgeInv => FailedInitsAreCapped
  BY BridgeAssumption
     DEF BridgeInv, FailuresAreCounted, FailedInitsAreCapped, TypeOK
<1> QED
  BY <1>1, BridgeInvariant, PTL

\* What a caller waits for is held by callers that go on: the waits for the
\* lifecycle lock and for the users of the bridge never form a circle.
THEOREM WaitsAreNotCircular == Spec => []NoCircularWait
<1>1. BridgeInv => NoCircularWait
  <2> SUFFICES ASSUME LocksMatchSteps,
                      NEW c \in Callers, NEW d \in WaitsFor(c),
                      NEW e \in WaitsFor(d), TypeOK
               PROVE  WaitsFor(e) = {}
    BY DEF BridgeInv, NoCircularWait
  <2>1. d \in Callers /\ e \in Callers
    <3>1. WaitsFor(c) \subseteq Callers /\ WaitsFor(d) \subseteq Callers
      BY DEF WaitsFor, TypeOK
    <3> QED
      BY <3>1
  <2>2. d \in lifecycle \/ d \in guards
    BY DEF WaitsFor
  <2>3. pc[d] \in {"install", "r_take", "s_take"}
    <3>1. pc[d] \in {"life", "r_life", "s_life", "install", "r_take", "s_take"}
      BY DEF WaitsFor
    <3>2. pc[d] \in LifecycleSteps \cup GuardSteps
      BY <2>1, <2>2 DEF LocksMatchSteps
    <3> QED
      BY <3>1, <3>2 DEF LifecycleSteps, GuardSteps
  <2>4. e \in guards
    BY <2>3 DEF WaitsFor
  <2>5. pc[e] \in GuardSteps
    BY <2>1, <2>4 DEF LocksMatchSteps
  <2> QED
    BY <2>5 DEF WaitsFor, GuardSteps
<1> QED
  BY <1>1, BridgeInvariant, PTL

-----------------------------------------------------------------------------
(* Refinement.  A step of the lifecycle is seen by the service as a start, *)
(* a stop, a step of one user or as none.                                  *)

ServiceStep == [Service!Next]_(Service!vars)

\* A step of one caller before, between or after its uses of the bridge.
CallerMoves(c) ==
    \A d \in Callers \ {c} :
        pc'[d] = pc[d] /\ made'[d] = made[d] /\ gen'[d] = gen[d]

\* A step that the users of the bridge do not see.
LEMMA Hidden ==
  ASSUME bridge'.gen = bridge.gen, newest' = newest,
         guards' = guards, calls' = calls,
         \A d \in Callers : d \in guards => gen'[d] = gen[d]
  PROVE  ServiceStep
<1>1. Using' = Using
  BY DEF Using
<1> QED
  BY <1>1 DEF ServiceStep, Service!vars

\* A caller takes a guard.
LEMMA Enters ==
  ASSUME TypeOK, InstalledMatchesInit, NEW c \in Callers, c \notin guards,
         bridge # NoBridge, TakeGuard(c),
         bridge' = bridge, newest' = newest, calls' = calls
  PROVE  ServiceStep
<1>1. bridge.gen # 0
  BY DEF InstalledMatchesInit
<1>2. Using' = [Using EXCEPT ![c] = bridge.gen]
  BY DEF Using, TakeGuard, TypeOK
<1>3. Using[c] = 0
  BY DEF Using
<1>4. Service!Enter(c)
  BY <1>1, <1>2, <1>3 DEF Service!Enter
<1> QED
  BY <1>4 DEF ServiceStep, Service!Next

\* A caller drops its guard.
LEMMA Leaves ==
  ASSUME TypeOK, GuardPinsBridge, NEW c \in Callers, c \in guards,
         guards' = guards \ {c}, CallerMoves(c),
         bridge'.gen = bridge.gen, newest' = newest, calls' = calls
  PROVE  ServiceStep
<1>1. Using[c] # 0
  BY DEF Using, GuardPinsBridge
<1>2. Using' = [Using EXCEPT ![c] = 0]
  BY DEF Using, CallerMoves
<1>3. Service!Leave(c)
  BY <1>1, <1>2 DEF Service!Leave
<1> QED
  BY <1>3 DEF ServiceStep, Service!Next

\* The bridge is taken, if there is one, while nobody holds a guard.
LEMMA Stops ==
  ASSUME TypeOK, guards = {}, guards' = {}, bridge' = NoBridge,
         newest' = newest, calls' = calls
  PROVE  ServiceStep
<1>1. Using' = Using /\ \A c \in Callers : Using[c] = 0
  BY DEF Using
<1>2. CASE bridge.gen = 0
  BY <1>1, <1>2 DEF ServiceStep, Service!vars, NoBridge
<1>3. CASE bridge.gen # 0
  BY <1>1, <1>3 DEF ServiceStep, Service!Next, Service!Stop, NoBridge
<1> QED
  BY <1>2, <1>3

\* Every step of the lifecycle, of a call or of the clock is one that the
\* service allows.
LEMMA RefinesStep ==
  BridgeInv /\ [Next]_vars => ServiceStep
<1> SUFFICES ASSUME BridgeInv, [Next]_vars
             PROVE  ServiceStep
  OBVIOUS
<1> USE DEF BridgeInv
<1>1. ASSUME NEW c \in Callers, UseBridge(c)
      PROVE  ServiceStep
  <2>1. CallerMoves(c)
    BY <1>1 DEF UseBridge, CallerMoves, TypeOK, Goto, locals
  <2>3. newest' = newest
    BY <1>1 DEF UseBridge, aside
  <2>4. /\ bridge'.gen = bridge.gen /\ guards' = guards /\ calls' = calls
        /\ c \in guards => gen'[c] = gen[c]
    BY <1>1
       DEF UseBridge, LocksMatchSteps, GuardSteps, TypeOK, Bridges, locals
  <2> QED
    BY <2>1, <2>3, <2>4, Hidden DEF CallerMoves
<1>2. ASSUME NEW c \in Callers, Shutdown(c)
      PROVE  ServiceStep
  <2>1. CallerMoves(c)
    BY <1>2 DEF Shutdown, CallerMoves, TypeOK, Goto, locals
  <2>3. newest' = newest
    BY <1>2 DEF Shutdown, aside
  <2>4. /\ bridge'.gen = bridge.gen /\ guards' = guards /\ calls' = calls
        /\ c \in guards => gen'[c] = gen[c]
    BY <1>2 DEF Shutdown, LocksMatchSteps, GuardSteps, TypeOK, Bridges, locals
  <2> QED
    BY <2>1, <2>3, <2>4, Hidden DEF CallerMoves
<1>3. ASSUME NEW c \in Callers, LockLifecycle(c)
      PROVE  ServiceStep
  <2>1. CallerMoves(c)
    BY <1>3 DEF LockLifecycle, CallerMoves, TypeOK, Goto, locals
  <2>3. newest' = newest
    BY <1>3 DEF LockLifecycle, aside
  <2>4. /\ bridge'.gen = bridge.gen /\ guards' = guards /\ calls' = calls
        /\ c \in guards => gen'[c] = gen[c]
    BY <1>3
       DEF LockLifecycle, LocksMatchSteps, GuardSteps, TypeOK, Bridges, locals
  <2> QED
    BY <2>1, <2>3, <2>4, Hidden DEF CallerMoves
<1>4. ASSUME NEW c \in Callers, FastRead(c)
      PROVE  ServiceStep
  <2>1. CallerMoves(c)
    BY <1>4 DEF FastRead, TakeGuard, CallerMoves, TypeOK, Goto, locals
  <2>3. newest' = newest
    BY <1>4 DEF FastRead, aside
  <2>4. CASE bridge # NoBridge
    <3>1. /\ bridge # NoBridge /\ TakeGuard(c) /\ c \notin guards
          /\ bridge' = bridge /\ calls' = calls
      BY <1>4, <2>4 DEF FastRead, LocksMatchSteps, GuardSteps
    <3> QED
      BY <2>3, <3>1, Enters
  <2>5. CASE bridge = NoBridge
    <3>1. /\ bridge'.gen = bridge.gen /\ guards' = guards /\ calls' = calls
          /\ c \in guards => gen'[c] = gen[c]
      BY <1>4, <2>5
         DEF FastRead, TakeGuard, LocksMatchSteps, GuardSteps, TypeOK,
             Bridges, locals
    <3> QED
      BY <2>1, <2>3, <3>1, Hidden DEF CallerMoves
  <2> QED
    BY <1>4, <2>4, <2>5
<1>5. ASSUME NEW c \in Callers, Reread(c)
      PROVE  ServiceStep
  <2>1. CallerMoves(c)
    BY <1>5 DEF Reread, TakeGuard, CallerMoves, TypeOK, Goto, locals
  <2>3. newest' = newest
    BY <1>5 DEF Reread, aside
  <2>4. CASE bridge # NoBridge
    <3>1. /\ bridge # NoBridge /\ TakeGuard(c) /\ c \notin guards
          /\ bridge' = bridge /\ calls' = calls
      BY <1>5, <2>4 DEF Reread, LocksMatchSteps, GuardSteps
    <3> QED
      BY <2>3, <3>1, Enters
  <2>5. CASE bridge = NoBridge
    <3>1. /\ bridge'.gen = bridge.gen /\ guards' = guards /\ calls' = calls
          /\ c \in guards => gen'[c] = gen[c]
      BY <1>5, <2>5
         DEF Reread, TakeGuard, LocksMatchSteps, GuardSteps, TypeOK, Bridges,
             locals
    <3> QED
      BY <2>1, <2>3, <3>1, Hidden DEF CallerMoves
  <2> QED
    BY <1>5, <2>4, <2>5
<1>6. ASSUME NEW c \in Callers, NEW ok \in BOOLEAN, CreateBridge(c, ok)
      PROVE  ServiceStep
  BY <1>6, Hidden DEF CreateBridge, aside
<1>7. ASSUME NEW c \in Callers, Install(c)
      PROVE  ServiceStep
  <2>1. guards' = guards /\ gen' = gen /\ calls' = calls
    BY <1>7 DEF Install, locals
  <2>2. pc[c] = "install" /\ bridge = NoBridge /\ bridge.gen = 0
    BY <1>7 DEF Install, InstalledMatchesInit, NoBridge
  <2>3. CASE made[c] = 0
    BY <1>7, <2>1, <2>3, Hidden DEF Install
  <2>4. CASE made[c] # 0
    <3>1. bridge' = NewBridge(made[c]) /\ newest' = made[c]
      BY <1>7, <2>2, <2>4 DEF Install
    <3>2. bridge'.gen = made[c]
      BY <3>1 DEF NewBridge
    <3>3. made[c] > newest
      BY <2>2, <2>4 DEF CreatedIsNewer, TypeOK
    <3>4. Using' = Using
      BY <2>1 DEF Using
    <3>5. Service!Start
      BY <2>1, <2>2, <3>1, <3>2, <3>3, <3>4 DEF Service!Start
    <3> QED
      BY <3>5 DEF ServiceStep, Service!Next
  <2> QED
    BY <2>3, <2>4
<1>8. ASSUME NEW c \in Callers, InitSucceeded(c)
      PROVE  ServiceStep
  <2>1. CallerMoves(c)
    BY <1>8 DEF InitSucceeded, TakeGuard, CallerMoves, TypeOK, Goto, locals
  <2>3. newest' = newest
    BY <1>8 DEF InitSucceeded, aside
  <2>4. /\ bridge # NoBridge /\ TakeGuard(c) /\ c \notin guards
        /\ bridge' = bridge /\ calls' = calls
    BY <1>8 DEF InitSucceeded, LocksMatchSteps, GuardSteps
  <2> QED
    BY <2>3, <2>4, Enters
<1>9. ASSUME NEW c \in Callers, InitFailed(c)
      PROVE  ServiceStep
  <2>1. CallerMoves(c)
    BY <1>9 DEF InitFailed, Forget, CallerMoves, TypeOK, Goto, locals
  <2>3. newest' = newest
    BY <1>9 DEF InitFailed, aside
  <2>4. /\ bridge'.gen = bridge.gen /\ guards' = guards /\ calls' = calls
        /\ c \in guards => gen'[c] = gen[c]
    BY <1>9
       DEF InitFailed, Forget, LocksMatchSteps, GuardSteps, TypeOK, Bridges,
           locals
  <2> QED
    BY <2>1, <2>3, <2>4, Hidden DEF CallerMoves
<1>10. ASSUME NEW c \in Callers, RestartSettled(c)
      PROVE  ServiceStep
  <2>1. CallerMoves(c)
    BY <1>10 DEF RestartSettled, Forget, CallerMoves, TypeOK, Goto, locals
  <2>3. newest' = newest
    BY <1>10 DEF RestartSettled, aside
  <2>4. /\ bridge'.gen = bridge.gen /\ guards' = guards /\ calls' = calls
        /\ c \in guards => gen'[c] = gen[c]
    BY <1>10
       DEF RestartSettled, Forget, LocksMatchSteps, GuardSteps, TypeOK,
           Bridges, locals
  <2> QED
    BY <2>1, <2>3, <2>4, Hidden DEF CallerMoves
<1>11. ASSUME NEW c \in Callers, PassGate(c)
      PROVE  ServiceStep
  <2>1. CallerMoves(c)
    BY <1>11
       DEF PassGate, ReleaseGuard, Forget, CoolingDown, Never, CallerMoves,
           TypeOK, Goto, locals
  <2>3. newest' = newest
    BY <1>11 DEF PassGate, aside
  <2>4. CASE CoolingDown(bridge.stamp)
    <3>1. /\ c \in guards /\ guards' = guards \ {c}
          /\ bridge'.gen = bridge.gen /\ calls' = calls
      BY <1>11, <2>4, BridgeAssumption
         DEF PassGate, ReleaseGuard, Forget, CoolingDown, Never,
             LocksMatchSteps, GuardSteps, TypeOK, Bridges
    <3> QED
      BY <2>1, <2>3, <3>1, Leaves
  <2>5. CASE ~CoolingDown(bridge.stamp)
    <3>1. /\ bridge'.gen = bridge.gen /\ guards' = guards /\ calls' = calls
          /\ c \in guards => gen'[c] = gen[c]
      BY <1>11, <2>5
         DEF PassGate, ReleaseGuard, Forget, CoolingDown, Never,
             LocksMatchSteps, GuardSteps, TypeOK, Bridges, locals
    <3> QED
      BY <2>1, <2>3, <3>1, Hidden DEF CallerMoves
  <2> QED
    BY <1>11, <2>4, <2>5 DEF PassGate
<1>12. ASSUME NEW c \in Callers, Probe(c)
      PROVE  ServiceStep
  <2>1. CallerMoves(c)
    BY <1>12
       DEF Probe, ReleaseGuard, Forget, CallerMoves, TypeOK, Goto, locals
  <2>3. newest' = newest
    BY <1>12 DEF Probe, aside
  <2>4. CASE ~bridge.poisoned /\ calls # {}
    <3>1. /\ c \in guards /\ guards' = guards \ {c}
          /\ bridge'.gen = bridge.gen /\ calls' = calls
      BY <1>12, <2>4
         DEF Probe, ReleaseGuard, Forget, LocksMatchSteps, GuardSteps, TypeOK,
             Bridges
    <3> QED
      BY <2>1, <2>3, <3>1, Leaves
  <2>5. CASE bridge.poisoned \/ calls = {}
    <3>1. /\ bridge'.gen = bridge.gen /\ guards' = guards /\ calls' = calls
          /\ c \in guards => gen'[c] = gen[c]
      BY <1>12, <2>5
         DEF Probe, ReleaseGuard, Forget, LocksMatchSteps, GuardSteps, TypeOK,
             Bridges, locals
    <3> QED
      BY <2>1, <2>3, <3>1, Hidden DEF CallerMoves
  <2> QED
    BY <1>12, <2>4, <2>5
<1>13. ASSUME NEW c \in Callers, EnterClr(c)
      PROVE  ServiceStep
  <2>1. CallerMoves(c)
    BY <1>13 DEF EnterClr, CallerMoves, TypeOK, Goto, locals
  <2>2. pc[c] = "queue"
    BY <1>13 DEF EnterClr
  <2>3. newest' = newest
    BY <1>13 DEF EnterClr, aside
  <2>4. /\ bridge' = bridge /\ calls = {}
        /\ calls' = {[caller |-> c, gen |-> gen[c]]}
    BY <1>13 DEF EnterClr, GateIsFree
  <2>5. Using' = Using
    BY <1>13 DEF EnterClr, Using, locals
  <2>6. Using[c] = gen[c] /\ gen[c] # 0
    BY <2>2 DEF Using, LocksMatchSteps, GuardSteps, GuardPinsBridge
  <2>7. Service!Call(c)
    BY <2>3, <2>4, <2>5, <2>6 DEF Service!Call
  <2> QED
    BY <2>7 DEF ServiceStep, Service!Next
<1>14. ASSUME NEW c \in Callers, GiveUpQueue(c)
      PROVE  ServiceStep
  <2>1. CallerMoves(c)
    BY <1>14
       DEF GiveUpQueue, ReleaseGuard, Forget, CallerMoves, TypeOK, Goto,
           locals
  <2>3. newest' = newest
    BY <1>14 DEF GiveUpQueue, aside
  <2>4. /\ c \in guards /\ guards' = guards \ {c}
        /\ bridge'.gen = bridge.gen /\ calls' = calls
    BY <1>14
       DEF GiveUpQueue, ReleaseGuard, Forget, LocksMatchSteps, GuardSteps,
           TypeOK, Bridges
  <2> QED
    BY <2>1, <2>3, <2>4, Leaves
<1>15. ASSUME NEW c \in Callers, TimeOut(c)
      PROVE  ServiceStep
  <2>1. CallerMoves(c)
    BY <1>15 DEF TimeOut, CallerMoves, TypeOK, Goto, locals
  <2>3. newest' = newest
    BY <1>15 DEF TimeOut, aside
  <2>4. /\ bridge'.gen = bridge.gen /\ guards' = guards /\ calls' = calls
        /\ c \in guards => gen'[c] = gen[c]
    BY <1>15 DEF TimeOut, LocksMatchSteps, GuardSteps, TypeOK, Bridges, locals
  <2> QED
    BY <2>1, <2>3, <2>4, Hidden DEF CallerMoves
<1>16. ASSUME NEW c \in Callers, Done(c)
      PROVE  ServiceStep
  <2>1. CallerMoves(c)
    BY <1>16 DEF Done, ReleaseGuard, Forget, CallerMoves, TypeOK, Goto, locals
  <2>3. newest' = newest
    BY <1>16 DEF Done, aside
  <2>4. /\ c \in guards /\ guards' = guards \ {c}
        /\ bridge'.gen = bridge.gen /\ calls' = calls
    BY <1>16
       DEF Done, ReleaseGuard, Forget, LocksMatchSteps, GuardSteps, TypeOK,
           Bridges
  <2> QED
    BY <2>1, <2>3, <2>4, Leaves
<1>17. ASSUME NEW c \in Callers, NEW restart \in BOOLEAN, Failed(c, restart)
      PROVE  ServiceStep
  <2>1. CallerMoves(c)
    BY <1>17
       DEF Failed, ReleaseGuard, Forget, CallerMoves, TypeOK, Goto, locals
  <2>3. newest' = newest
    BY <1>17 DEF Failed, aside
  <2>4. /\ c \in guards /\ guards' = guards \ {c}
        /\ bridge'.gen = bridge.gen /\ calls' = calls
    BY <1>17
       DEF Failed, ReleaseGuard, Forget, LocksMatchSteps, GuardSteps, TypeOK,
           Bridges
  <2> QED
    BY <2>1, <2>3, <2>4, Leaves
<1>18. ASSUME NEW c \in Callers, RestartCheck(c)
      PROVE  ServiceStep
  <2>1. CallerMoves(c)
    BY <1>18 DEF RestartCheck, Forget, CallerMoves, TypeOK, Goto, locals
  <2>3. newest' = newest
    BY <1>18 DEF RestartCheck, aside
  <2>4. /\ bridge'.gen = bridge.gen /\ guards' = guards /\ calls' = calls
        /\ c \in guards => gen'[c] = gen[c]
    BY <1>18
       DEF RestartCheck, Forget, LocksMatchSteps, GuardSteps, TypeOK, Bridges,
           locals
  <2> QED
    BY <2>1, <2>3, <2>4, Hidden DEF CallerMoves
<1>19. ASSUME NEW c \in Callers, RestartTake(c)
      PROVE  ServiceStep
  <2>1. CallerMoves(c)
    BY <1>19 DEF RestartTake, CallerMoves, TypeOK, Goto, locals
  <2>3. newest' = newest
    BY <1>19 DEF RestartTake, aside
  <2> QED
    BY <1>19, <2>3, Stops DEF RestartTake
<1>20. ASSUME NEW c \in Callers, RestartCount(c)
      PROVE  ServiceStep
  <2>1. CallerMoves(c)
    BY <1>20 DEF RestartCount, Forget, CallerMoves, TypeOK, Goto, locals
  <2>3. newest' = newest
    BY <1>20 DEF RestartCount, aside
  <2>4. /\ bridge'.gen = bridge.gen /\ guards' = guards /\ calls' = calls
        /\ c \in guards => gen'[c] = gen[c]
    BY <1>20
       DEF RestartCount, Forget, LocksMatchSteps, GuardSteps, TypeOK, Bridges,
           locals
  <2> QED
    BY <2>1, <2>3, <2>4, Hidden DEF CallerMoves
<1>21. ASSUME NEW c \in Callers, ShutdownTake(c)
      PROVE  ServiceStep
  <2>1. CallerMoves(c)
    BY <1>21 DEF ShutdownTake, CallerMoves, TypeOK, Goto, locals
  <2>3. newest' = newest
    BY <1>21 DEF ShutdownTake, aside
  <2> QED
    BY <1>21, <2>3, Stops DEF ShutdownTake
<1>22. ASSUME NEW t \in calls,
             NEW outcome \in {"reply", "poisoned", "panic"},
             ClrReturns(t, outcome)
      PROVE  ServiceStep
  <2>1. guards' = guards /\ gen' = gen /\ calls' = calls \ {t}
    BY <1>22 DEF ClrReturns, locals
  <2>2. bridge'.gen = bridge.gen
    BY <1>22 DEF ClrReturns, TypeOK, Bridges
  <2>3. newest' = newest /\ Using' = Using
    BY <1>22, <2>1 DEF ClrReturns, aside, Using
  <2>4. calls # {} /\ calls' = {}
    BY <2>1 DEF AtMostOneCall
  <2>5. Service!CallEnds
    BY <2>2, <2>3, <2>4 DEF Service!CallEnds
  <2> QED
    BY <2>5 DEF ServiceStep, Service!Next
<1>23. CASE FindToolchain
  BY <1>23, Hidden DEF FindToolchain, locals, aside
<1>24. CASE Tick
  <2>1. bridge'.gen = bridge.gen
    BY <1>24 DEF Tick, TypeOK, Bridges
  <2> QED
    BY <1>24, <2>1, Hidden DEF Tick, aside
<1>25. CASE UNCHANGED vars
  BY <1>25, Hidden DEF vars, locals, aside
<1>26. ASSUME NEW c \in Callers, CallerStep(c) PROVE ServiceStep
  BY <1>26, <1>3, <1>4, <1>5, <1>6, <1>7, <1>8, <1>9, <1>10, <1>11, <1>12,
     <1>13, <1>14, <1>15, <1>16, <1>17, <1>18, <1>19, <1>20, <1>21
     DEF CallerStep
<1>27. ASSUME NEW c \in Callers, Abort(c) \/ AbortSettling(c)
       PROVE  ServiceStep
  <2>1. CallerMoves(c) /\ guards' = guards \ {c}
    BY <1>27
       DEF Abort, AbortSettling, DropTask, Forget, CallerMoves, TypeOK, Goto
  <2>2. /\ newest' = newest /\ bridge' = bridge /\ calls' = calls
        /\ \A d \in Callers \ {c} : gen'[d] = gen[d]
    BY <1>27, <2>1 DEF Abort, AbortSettling, CallerMoves, aside
  <2>3. CASE c \in guards
    BY <2>1, <2>2, <2>3, Leaves
  <2>4. CASE c \notin guards
    BY <2>1, <2>2, <2>4, Hidden
  <2> QED
    BY <2>3, <2>4
<1>28. ASSUME NEW ok \in BOOLEAN, OrphanEnds(ok)
       PROVE  ServiceStep
  BY <1>28, Hidden DEF OrphanEnds, locals
<1> QED
  BY <1>1, <1>2, <1>22, <1>23, <1>24, <1>25, <1>26, <1>27, <1>28 DEF Next

\* The first state: nothing installed, nothing created.
LEMMA RefinesInit == Init => Service!Init
<1> SUFFICES ASSUME Init PROVE Service!Init
  OBVIOUS
<1>1. Using = [c \in Callers |-> 0]
  BY DEF Init, Using
<1>2. bridge.gen = 0 /\ newest = 0 /\ calls = {}
  BY DEF Init, NoBridge
<1> QED
  BY <1>1, <1>2 DEF Service!Init

\* The lifecycle of the bridge and its calls implement the service: with any
\* number of callers, restarts, shutdowns, late failures, hung calls and
\* aborts, a caller keeps the generation it works with, each installed
\* generation is newer than all before it, and the CLR runs one call at a time.
THEOREM LifecycleImplementsService == Spec => ImplementsBridge
<1> QED
  BY RefinesInit, BridgeInvariant, RefinesStep, PTL
     DEF Spec, ImplementsBridge, Service!Spec, ServiceStep
=============================================================================
