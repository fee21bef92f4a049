--------------------------- MODULE SemanticBridge ---------------------------
(***************************************************************************)
(* The in-process .NET bridge: al-semantic/src/bridge.rs (one call at a    *)
(* time into the CLR, with a time limit that cannot stop the call) and     *)
(* al-workspace/src/semantic_lifecycle.rs (lazy start, restart of a failed *)
(* generation, restart cap, shutdown), as the language server's and the    *)
(* daemon's tasks run them concurrently.                                   *)
(*                                                                         *)
(* A caller holds a read guard of Workspace.semantic across its call.      *)
(* Every writer of Workspace.semantic holds semantic_lifecycle_lock, so a  *)
(* write guard is used within one step and only the read guards are state. *)
(*                                                                         *)
(* Time.  A timeout stamp is kept as its age in cooldown ticks, saturating *)
(* at Cooldown, which is all the gate compares.  How long a call runs is   *)
(* not modelled: a caller may give up on a running call at any moment, and *)
(* the call itself goes on in its blocking task, possibly for ever.        *)
(*                                                                         *)
(* Cancellation.  A caller may be aborted at any of its awaits (a newer    *)
(* keystroke replaces the debounced run that uses the bridge).  Its guards *)
(* are dropped; a blocking task it waited for runs on without it.          *)
(***************************************************************************)
EXTENDS Integers, FiniteSets

CONSTANTS Callers,       \* tasks that use the bridge
          MaxRestarts,   \* MAX_RESTARTS
          Cooldown,      \* TIMEOUT_COOLDOWN, in ticks
          MaxRequests    \* bound: bridge uses and shutdowns in a behaviour

ASSUME BridgeAssumption ==
    /\ MaxRestarts \in Nat \ {0}
    /\ Cooldown \in Nat \ {0}
    /\ MaxRequests \in Nat

VARIABLES
    bridge,        \* Workspace.semantic
    nextGen,       \* NEXT_BRIDGE_GENERATION
    guards,        \* callers holding a read guard of Workspace.semantic
    lifecycle,     \* holder of semantic_lifecycle_lock
    calls,         \* blocking tasks inside the CLR: holders of the call gate
    restartCount,  \* bridge_restart_count
    reported,      \* semantic_init_failure_reported
    toolchain,     \* whether a toolchain has been found
    pc,            \* next step of each caller
    gen,           \* generation a caller's guard or failure belongs to
    prior,         \* prior_timeout_secs of a restart
    made,          \* what SemanticBridge::new returned: a generation, 0 = Err
    restarting,    \* an init runs for restart_bridge_inner
    requests,      \* requests begun
    orphans,       \* CLR inits that run on although their caller was aborted
    failedInits,   \* history: failed inits since the last successful one
    lost,          \* history: inits whose failure no caller can count any more
    newest         \* history: the newest generation ever installed

locals == <<gen, prior, made, restarting>>

\* What the aborts leave behind and the last installation.
aside == <<orphans, lost, newest>>

vars == <<bridge, nextGen, guards, lifecycle, calls, restartCount, reported,
          toolchain, pc, locals, requests, failedInits, aside>>

-----------------------------------------------------------------------------
Never == -1              \* a stamp of 0 seconds: no timeout to cool down from
Ages  == Never..Cooldown

NoBridge == [gen |-> 0, stamp |-> Never, poisoned |-> FALSE]
Bridges  == [gen : Nat, stamp : Ages, poisoned : BOOLEAN]

\* SemanticBridge::new: a fresh generation has no timeout behind it.
NewBridge(g) == [gen |-> g, stamp |-> Never, poisoned |-> FALSE]

Steps == {"idle", "read", "life", "reread", "init", "install", "settle",
          "gate", "probe", "queue", "running", "done", "failed", "r_life",
          "r_check", "r_take", "r_count", "s_life", "s_take"}

\* Steps taken under semantic_lifecycle_lock.
LifecycleSteps == {"reread", "init", "install", "settle", "r_check", "r_take",
                   "r_count", "s_take"}

Goto(c, step) == pc' = [pc EXCEPT ![c] = step]

\* fetch_max of two stamps is the younger of two ages.
Younger(a, b) == IF a = Never THEN b
                 ELSE IF b = Never THEN a
                 ELSE IF a <= b THEN a ELSE b

\* Time passes for a stamp; past the cooldown its age no longer matters.
Older(a) == IF a = Never \/ a = Cooldown THEN a ELSE a + 1

Init ==
    /\ bridge = NoBridge
    /\ nextGen = 1
    /\ guards = {} /\ lifecycle = {} /\ calls = {}
    /\ restartCount = 0
    /\ reported = FALSE
    /\ toolchain = FALSE
    /\ pc = [c \in Callers |-> "idle"]
    /\ gen = [c \in Callers |-> 0]
    /\ prior = [c \in Callers |-> Never]
    /\ made = [c \in Callers |-> 0]
    /\ restarting = [c \in Callers |-> FALSE]
    /\ requests = 0
    /\ failedInits = 0
    /\ orphans = 0 /\ lost = 0 /\ newest = 0

\* The locals of a finished request are gone.
Forget(c) ==
    /\ gen' = [gen EXCEPT ![c] = 0]
    /\ prior' = [prior EXCEPT ![c] = Never]
    /\ made' = [made EXCEPT ![c] = 0]
    /\ restarting' = [restarting EXCEPT ![c] = FALSE]

-----------------------------------------------------------------------------
(* get_or_init_bridge                                                      *)

UseBridge(c) ==
    /\ pc[c] = "idle"
    /\ requests < MaxRequests
    /\ requests' = requests + 1
    /\ Goto(c, "read")
    /\ UNCHANGED <<bridge, nextGen, guards, lifecycle, calls, restartCount,
                   reported, toolchain, locals, failedInits, aside>>

TakeGuard(c) ==
    /\ guards' = guards \cup {c}
    /\ gen' = [gen EXCEPT ![c] = bridge.gen]
    /\ Goto(c, "gate")

FastRead(c) ==
    /\ pc[c] = "read"
    /\ \/ /\ bridge # NoBridge
          /\ TakeGuard(c)
       \/ /\ bridge = NoBridge
          /\ Goto(c, "life")
          /\ UNCHANGED <<guards, gen>>
    /\ UNCHANGED <<bridge, nextGen, lifecycle, calls, restartCount, reported,
                   toolchain, prior, made, restarting, requests, failedInits,
                   aside>>

\* semantic_lifecycle_lock.lock() of get_or_init_bridge, restart_bridge_inner
\* and shutdown_bridge.
LockLifecycle(c) ==
    /\ lifecycle = {}
    /\ lifecycle' = {c}
    /\ \/ pc[c] = "life"   /\ Goto(c, "reread")
       \/ pc[c] = "r_life" /\ Goto(c, "r_check")
       \/ pc[c] = "s_life" /\ Goto(c, "s_take")
    /\ UNCHANGED <<bridge, nextGen, guards, calls, restartCount, reported,
                   toolchain, locals, requests, failedInits, aside>>

\* Mutant: off by one.
CapPassed == restartCount > MaxRestarts

CapReached == restartCount >= MaxRestarts

\* Under the lock: a bridge another caller started, no bridge to be had (the
\* cap is reached or there is no toolchain), or an init of its own.
Reread(c) ==
    /\ pc[c] = "reread"
    /\ \/ /\ bridge # NoBridge
          /\ TakeGuard(c)
          /\ lifecycle' = {}
       \/ /\ bridge = NoBridge
          /\ CapReached \/ ~toolchain
          /\ Goto(c, "idle")
          /\ lifecycle' = {}
          /\ UNCHANGED <<guards, gen>>
       \/ /\ bridge = NoBridge
          /\ ~CapReached /\ toolchain
          /\ Goto(c, "init")
          /\ UNCHANGED <<guards, gen, lifecycle>>
    /\ UNCHANGED <<bridge, nextGen, calls, restartCount, reported, toolchain,
                   prior, made, restarting, requests, failedInits, aside>>

-----------------------------------------------------------------------------
(* init_bridge_inner: the CLR is started on a blocking thread without any  *)
(* guard, then the result is installed unless a bridge is already there.   *)

CreateBridge(c, ok) ==
    /\ pc[c] = "init"
    /\ made' = [made EXCEPT ![c] = IF ok THEN nextGen ELSE 0]
    /\ nextGen' = IF ok THEN nextGen + 1 ELSE nextGen
    /\ failedInits' = IF ok THEN 0 ELSE failedInits + 1
    /\ Goto(c, "install")
    /\ UNCHANGED <<bridge, guards, lifecycle, calls, restartCount, reported,
                   toolchain, gen, prior, restarting, requests, aside>>

Install(c) ==
    /\ pc[c] = "install"
    /\ guards = {}
    /\ IF bridge = NoBridge /\ made[c] # 0
       THEN bridge' = NewBridge(made[c]) /\ newest' = made[c]
       ELSE UNCHANGED <<bridge, newest>>
    /\ Goto(c, "settle")
    /\ UNCHANGED <<nextGen, guards, lifecycle, calls, restartCount, reported,
                   toolchain, locals, requests, failedInits, orphans, lost>>

\* After a successful init get_or_init_bridge clears the counters and returns
\* a guard ...
InitSucceeded(c) ==
    /\ pc[c] = "settle" /\ ~restarting[c] /\ bridge # NoBridge
    /\ restartCount' = 0
    /\ reported' = FALSE
    /\ TakeGuard(c)
    /\ lifecycle' = {}
    /\ UNCHANGED <<bridge, nextGen, calls, toolchain, prior, made, restarting,
                   requests, failedInits, aside>>

\* ... and after a failed one it counts the attempt and reports the first.
InitFailed(c) ==
    /\ pc[c] = "settle" /\ ~restarting[c] /\ bridge = NoBridge
    /\ restartCount' = restartCount + 1
    /\ reported' = TRUE
    /\ lifecycle' = {}
    /\ Goto(c, "idle")
    /\ Forget(c)
    /\ UNCHANGED <<bridge, nextGen, guards, calls, toolchain, requests,
                   failedInits, aside>>

\* restart_bridge_inner seeds the new bridge with the old one's stamp and
\* clears the counters; a failed restart has counted itself already.
RestartSettled(c) ==
    /\ pc[c] = "settle" /\ restarting[c]
    /\ \/ /\ bridge # NoBridge
          /\ bridge' = [bridge EXCEPT !.stamp = Younger(@, prior[c])]
          /\ restartCount' = 0
          /\ reported' = FALSE
       \/ /\ bridge = NoBridge
          /\ UNCHANGED <<bridge, restartCount, reported>>
    /\ lifecycle' = {}
    /\ Goto(c, "idle")
    /\ Forget(c)
    /\ UNCHANGED <<nextGen, guards, calls, toolchain, requests, failedInits,
                   aside>>

-----------------------------------------------------------------------------
(* call_with_timeout                                                       *)

CoolingDown(age) == age # Never /\ age < Cooldown

ReleaseGuard(c) ==
    /\ guards' = guards \ {c}
    /\ Goto(c, "idle")
    /\ Forget(c)

\* cooldown_gate up to the clock comparison.
PassGate(c) ==
    /\ pc[c] = "gate"
    /\ \/ /\ bridge.stamp = Never
          /\ Goto(c, "queue")
          /\ UNCHANGED <<guards, locals>>
       \/ /\ CoolingDown(bridge.stamp)        \* Err(Cooldown)
          /\ ReleaseGuard(c)
       \/ /\ bridge.stamp = Cooldown
          /\ Goto(c, "probe")
          /\ UNCHANGED <<guards, locals>>
    /\ UNCHANGED <<bridge, nextGen, lifecycle, calls, restartCount, reported,
                   toolchain, requests, failedInits, aside>>

\* The cooldown is over: probe the host mutex and the call gate.  A poisoned
\* host or a call still in flight stamps again; an idle bridge is recovered.
Probe(c) ==
    /\ pc[c] = "probe"
    /\ \/ /\ bridge.poisoned                  \* Err(Poisoned)
          /\ bridge' = [bridge EXCEPT !.stamp = 0]
          /\ Goto(c, "failed")
          /\ UNCHANGED <<guards, locals>>
       \/ /\ ~bridge.poisoned /\ calls # {}   \* Err(Cooldown)
          /\ bridge' = [bridge EXCEPT !.stamp = 0]
          /\ ReleaseGuard(c)
       \/ /\ ~bridge.poisoned /\ calls = {}
          /\ bridge' = [bridge EXCEPT !.stamp = Never]
          /\ Goto(c, "queue")
          /\ UNCHANGED <<guards, locals>>
    /\ UNCHANGED <<nextGen, lifecycle, calls, restartCount, reported,
                   toolchain, requests, failedInits, aside>>

\* The gate is one semaphore for all generations of the process.
GateIsFree(c) == calls = {}

EnterClr(c) ==
    /\ pc[c] = "queue"
    /\ GateIsFree(c)
    /\ calls' = calls \cup {[caller |-> c, gen |-> gen[c]]}
    /\ Goto(c, "running")
    /\ UNCHANGED <<bridge, nextGen, guards, lifecycle, restartCount, reported,
                   toolchain, locals, requests, failedInits, aside>>

\* QUEUE_WAIT_LIMIT passes while another call keeps the gate: Err(Busy).
GiveUpQueue(c) ==
    /\ pc[c] = "queue"
    /\ calls # {}
    /\ ReleaseGuard(c)
    /\ UNCHANGED <<bridge, nextGen, lifecycle, calls, restartCount, reported,
                   toolchain, requests, failedInits, aside>>

\* The blocking task ends: a reply (a result or an RPC error), a host
\* mutex found poisoned, or a panic that poisons it.  Its caller learns of it
\* if it still waits; a caller that gave up is somewhere else by now.
ClrReturns(t, outcome) ==
    /\ t \in calls
    /\ outcome = "poisoned" <=> (bridge.gen = t.gen /\ bridge.poisoned)
    /\ calls' = calls \ {t}
    /\ bridge' = IF outcome = "panic" /\ bridge.gen = t.gen
                 THEN [bridge EXCEPT !.poisoned = TRUE] ELSE bridge
    /\ pc' = IF pc[t.caller] = "running"
             THEN [pc EXCEPT ![t.caller] = IF outcome = "reply" THEN "done"
                                                               ELSE "failed"]
             ELSE pc
    /\ UNCHANGED <<nextGen, guards, lifecycle, restartCount, reported,
                   toolchain, locals, requests, failedInits, aside>>

\* The caller's time limit passes; the blocking task keeps gate and host.
TimeOut(c) ==
    /\ pc[c] = "running"
    /\ bridge' = [bridge EXCEPT !.stamp = 0]
    /\ Goto(c, "failed")
    /\ UNCHANGED <<nextGen, guards, lifecycle, calls, restartCount, reported,
                   toolchain, locals, requests, failedInits, aside>>

Done(c) ==
    /\ pc[c] = "done"
    /\ ReleaseGuard(c)
    /\ UNCHANGED <<bridge, nextGen, lifecycle, calls, restartCount, reported,
                   toolchain, requests, failedInits, aside>>

\* Mutant: the restart is requested with the read guard still held.
FailedHoldingGuard(c, restart) ==
    /\ pc[c] = "failed"
    /\ \/ /\ restart
          /\ Goto(c, "r_life")
          /\ UNCHANGED <<guards, locals>>
       \/ /\ ~restart
          /\ ReleaseGuard(c)
    /\ UNCHANGED <<bridge, nextGen, lifecycle, calls, restartCount, reported,
                   toolchain, requests, failedInits, aside>>

\* Timeout, Poisoned and HostInit: hover, completion and diagnostics drop the
\* guard and ask for a restart of the generation they used; the loaders of the
\* error codes and built-ins only log.
Failed(c, restart) ==
    /\ pc[c] = "failed"
    /\ \/ /\ restart
          /\ guards' = guards \ {c}
          /\ Goto(c, "r_life")
          /\ UNCHANGED locals
       \/ /\ ~restart
          /\ ReleaseGuard(c)
    /\ UNCHANGED <<bridge, nextGen, lifecycle, calls, restartCount, reported,
                   toolchain, requests, failedInits, aside>>

-----------------------------------------------------------------------------
(* restart_bridge_if_current and shutdown_bridge                           *)

\* Mutant: any failure restarts whatever is installed.
RestartUnchecked(c) ==
    /\ pc[c] = "r_check"
    /\ Goto(c, "r_take")
    /\ UNCHANGED <<bridge, nextGen, guards, lifecycle, calls, restartCount,
                   reported, toolchain, locals, requests, failedInits, aside>>

\* A failure of a generation that is no longer installed is ignored.
RestartCheck(c) ==
    /\ pc[c] = "r_check"
    /\ \/ /\ bridge.gen = gen[c]
          /\ Goto(c, "r_take")
          /\ UNCHANGED <<lifecycle, locals>>
       \/ /\ bridge.gen # gen[c]
          /\ Goto(c, "idle")
          /\ lifecycle' = {}
          /\ Forget(c)
    /\ UNCHANGED <<bridge, nextGen, guards, calls, restartCount, reported,
                   toolchain, requests, failedInits, aside>>

\* semantic.write().await.take(), once no caller holds a guard.
RestartTake(c) ==
    /\ pc[c] = "r_take"
    /\ guards = {}
    /\ prior' = [prior EXCEPT ![c] = bridge.stamp]
    /\ bridge' = NoBridge
    /\ Goto(c, "r_count")
    /\ UNCHANGED <<nextGen, guards, lifecycle, calls, restartCount, reported,
                   toolchain, gen, made, restarting, requests, failedInits,
                   aside>>

\* Consumes a restart slot.  The toolchain is there: it is never withdrawn.
RestartCount(c) ==
    /\ pc[c] = "r_count"
    /\ restartCount' = restartCount + 1
    /\ IF restartCount + 1 > MaxRestarts
       THEN Goto(c, "idle") /\ lifecycle' = {} /\ Forget(c)
       ELSE /\ Goto(c, "init")
            /\ restarting' = [restarting EXCEPT ![c] = TRUE]
            /\ UNCHANGED <<lifecycle, gen, prior, made>>
    /\ UNCHANGED <<bridge, nextGen, guards, calls, reported, toolchain,
                   requests, failedInits, aside>>

Shutdown(c) ==
    /\ pc[c] = "idle"
    /\ requests < MaxRequests
    /\ requests' = requests + 1
    /\ Goto(c, "s_life")
    /\ UNCHANGED <<bridge, nextGen, guards, lifecycle, calls, restartCount,
                   reported, toolchain, locals, failedInits, aside>>

\* Mutant: the shutdown does not wait for the users of the bridge.
ShutdownTakeInUse(c) ==
    /\ pc[c] = "s_take"
    /\ bridge' = NoBridge
    /\ lifecycle' = {}
    /\ Goto(c, "idle")
    /\ UNCHANGED <<nextGen, guards, calls, restartCount, reported, toolchain,
                   locals, requests, failedInits, aside>>

ShutdownTake(c) ==
    /\ pc[c] = "s_take"
    /\ guards = {}
    /\ bridge' = NoBridge
    /\ lifecycle' = {}
    /\ Goto(c, "idle")
    /\ UNCHANGED <<nextGen, guards, calls, restartCount, reported, toolchain,
                   locals, requests, failedInits, aside>>

-----------------------------------------------------------------------------
(* Cancellation: schedule_diagnostics aborts the debounced run it replaces *)
(* and the future is dropped at the await it is suspended on.              *)

\* The awaits.  From the gate to the queue for the call, and from the end of
\* the call to the restart, a caller runs without one.
AwaitSteps == {"read", "life", "reread", "init", "install", "queue", "running",
               "r_life", "r_check", "r_take", "r_count", "s_life", "s_take"}

\* The first failure of get_or_init_bridge that its caller has still to count.
Uncounted(c) ==
    pc[c] \in {"install", "settle"} /\ made[c] = 0 /\ ~restarting[c]

DropTask(c) ==
    /\ guards' = guards \ {c}
    /\ lifecycle' = lifecycle \ {c}
    /\ Goto(c, "idle")
    /\ Forget(c)

\* The blocking init goes on without its caller, like a call into the CLR;
\* what the init returned and nobody installed is dropped or, if it is a
\* failure, never counted.
Abort(c) ==
    /\ pc[c] \in AwaitSteps
    /\ DropTask(c)
    /\ orphans' = IF pc[c] = "init" THEN orphans + 1 ELSE orphans
    /\ lost' = IF pc[c] = "init" \/ Uncounted(c) THEN lost + 1 ELSE lost
    /\ UNCHANGED <<bridge, nextGen, calls, restartCount, reported, toolchain,
                   requests, failedInits, newest>>

\* After an installation get_or_init_bridge awaits its guard with the counters
\* cleared; a restart awaits the bridge it seeds before it clears them.
AbortSettling(c) ==
    /\ pc[c] = "settle" /\ bridge # NoBridge
    /\ IF restarting[c]
       THEN prior[c] # Never /\ UNCHANGED <<restartCount, reported>>
       ELSE restartCount' = 0 /\ reported' = FALSE
    /\ DropTask(c)
    /\ UNCHANGED <<bridge, nextGen, calls, toolchain, requests, failedInits,
                   aside>>

\* An orphaned init ends: its bridge is dropped with the task's result.
OrphanEnds(ok) ==
    /\ orphans > 0
    /\ orphans' = orphans - 1
    /\ nextGen' = IF ok THEN nextGen + 1 ELSE nextGen
    /\ failedInits' = IF ok THEN 0 ELSE failedInits + 1
    /\ UNCHANGED <<bridge, guards, lifecycle, calls, restartCount, reported,
                   toolchain, pc, locals, requests, lost, newest>>

-----------------------------------------------------------------------------
\* The startup or the reload of the project finds a toolchain.
FindToolchain ==
    /\ ~toolchain
    /\ toolchain' = TRUE
    /\ UNCHANGED <<bridge, nextGen, guards, lifecycle, calls, restartCount,
                   reported, pc, locals, requests, failedInits, aside>>

Tick ==
    /\ CoolingDown(bridge.stamp)
         \/ \E c \in Callers : CoolingDown(prior[c])
    /\ bridge' = [bridge EXCEPT !.stamp = Older(@)]
    /\ prior' = [c \in Callers |-> Older(prior[c])]
    /\ UNCHANGED <<nextGen, guards, lifecycle, calls, restartCount, reported,
                   toolchain, pc, gen, made, restarting, requests,
                   failedInits, aside>>

CallerStep(c) ==
    \/ FastRead(c) \/ LockLifecycle(c) \/ Reread(c)
    \/ \E ok \in BOOLEAN : CreateBridge(c, ok)
    \/ Install(c) \/ InitSucceeded(c) \/ InitFailed(c) \/ RestartSettled(c)
    \/ PassGate(c) \/ Probe(c) \/ EnterClr(c) \/ GiveUpQueue(c) \/ TimeOut(c)
    \/ Done(c) \/ \E restart \in BOOLEAN : Failed(c, restart)
    \/ RestartCheck(c) \/ RestartTake(c) \/ RestartCount(c)
    \/ ShutdownTake(c)

Next ==
    \/ \E c \in Callers : CallerStep(c) \/ UseBridge(c) \/ Shutdown(c)
                            \/ Abort(c) \/ AbortSettling(c)
    \/ \E ok \in BOOLEAN : OrphanEnds(ok)
    \/ \E t \in calls, outcome \in {"reply", "poisoned", "panic"} :
          ClrReturns(t, outcome)
    \/ FindToolchain
    \/ Tick

Spec == Init /\ [][Next]_vars

\* Tasks are scheduled, the time limits fire, and tokio's mutex and RwLock
\* queue their waiters.  Nothing makes a call into the CLR return, and nobody
\* need be aborted.
FairSpec == Spec /\ \A c \in Callers : WF_vars(CallerStep(c))

-----------------------------------------------------------------------------
TypeOK ==
    /\ bridge \in Bridges
    /\ nextGen \in Nat \ {0}
    /\ guards \in SUBSET Callers
    /\ lifecycle \in SUBSET Callers
    /\ calls \in SUBSET [caller : Callers, gen : Nat]
    /\ restartCount \in Nat /\ requests \in Nat /\ failedInits \in Nat
    /\ orphans \in Nat /\ lost \in Nat /\ newest \in Nat
    /\ reported \in BOOLEAN /\ toolchain \in BOOLEAN
    /\ pc \in [Callers -> Steps]
    /\ gen \in [Callers -> Nat]
    /\ prior \in [Callers -> Ages]
    /\ made \in [Callers -> Nat]
    /\ restarting \in [Callers -> BOOLEAN]

\* "The CLR response buffer is shared, so only one call may be in flight": at
\* most one blocking task is inside the CLR, over all bridge generations and
\* although a timed-out caller has long gone.
OneClrCall == Cardinality(calls) <= 1

\* The bridge a caller works with is neither torn down nor replaced under it:
\* a restart or shutdown waits for every guard.
GuardPinsBridge == \A c \in guards : bridge.gen = gen[c] /\ gen[c] # 0

\* "A late timeout/error from an old blocking call must not tear down a newer,
\* healthy bridge": what a restart takes down is the generation that failed,
\* still with the stamp its last caller left.
LateFailureSparesNewBridge ==
    \A c \in Callers :
        pc[c] = "r_take" => bridge.gen = gen[c] /\ bridge # NoBridge

\* A bridge that cannot start is given up after MAX_RESTARTS consecutive
\* failures, however starts by callers and restarts after failures mix; every
\* failure beyond them is of an init whose caller was aborted, which no counter
\* sees.
FailedInitsAreCapped == failedInits <= MaxRestarts + lost

\* The callers that one waits for: the holder of semantic_lifecycle_lock, or
\* those whose guards keep a writer of Workspace.semantic out.  Whoever waits
\* for the call gate gives up in time and is not counted.
WaitsFor(c) ==
    CASE pc[c] \in {"life", "r_life", "s_life"}      -> lifecycle
      [] pc[c] \in {"install", "r_take", "s_take"}   -> guards
      [] OTHER                                       -> {}

\* No deadlock: a caller waits for the lifecycle lock, its holder for the users
\* of the bridge, and those for nobody.  A circle of waits, a caller waiting
\* for its own guard included, would be a longer chain.
NoCircularWait ==
    \A c \in Callers : \A d \in WaitsFor(c) : \A e \in WaitsFor(d) :
        WaitsFor(e) = {}

\* A caller uses what its guard protects.
Using == [c \in Callers |-> IF c \in guards THEN gen[c] ELSE 0]

\* The promise of the bridge as its users see it.
Service == INSTANCE BridgeService WITH
    current <- bridge.gen, newest <- newest, using <- Using, running <- calls

\* The lifecycle implements that promise: whatever restarts, shutdowns, late
\* failures, hung calls and aborted callers do, a caller keeps the generation
\* it works with, no bridge is installed over another, no generation that was
\* taken down comes back, and the CLR runs one call at a time.
ImplementsBridge == Service!Spec

\* Every use of the bridge and every shutdown ends, although the call into the
\* CLR may hang for ever: no caller waits for a hung call, a guard or the
\* lifecycle lock without end.
EveryCallerReturns == \A c \in Callers : []<>(pc[c] = "idle")

-----------------------------------------------------------------------------
(* The inductive invariant behind the safety properties.                   *)

GuardSteps == {"gate", "probe", "queue", "running", "done", "failed"}

\* The lifecycle lock is held by the one caller in a step that needs it, the
\* guards by the callers between get_or_init_bridge and the end of their call.
LocksMatchSteps ==
    /\ \A c \in Callers : c \in lifecycle <=> pc[c] \in LifecycleSteps
    /\ \A c, d \in lifecycle : c = d
    /\ \A c \in Callers : c \in guards <=> pc[c] \in GuardSteps

\* No bridge between the take of a restart and the end of an init; afterwards
\* exactly what the init produced.
InstalledMatchesInit ==
    /\ bridge.gen = 0 => bridge = NoBridge
    /\ \A c \in Callers :
          /\ pc[c] \in {"init", "install", "r_count"} => bridge = NoBridge
          /\ pc[c] = "settle" => (bridge = NoBridge <=> made[c] = 0)

\* Every failed init is paid for with a restart slot, at once or, by the caller
\* that is about to count it, in its next steps; or with a lost init.  An init
\* still running for nobody may fail too.
FailuresAreCounted ==
    /\ orphans <= lost
    /\ bridge # NoBridge => failedInits + orphans <= lost
    /\ \A c \in Callers :
          /\ restarting[c] => pc[c] \in {"init", "install", "settle"}
          /\ pc[c] = "r_count" => failedInits + orphans <= lost
          /\ pc[c] = "init" /\ restarting[c] =>
                failedInits + orphans <= lost /\ restartCount > 0
          /\ pc[c] = "init" /\ ~restarting[c] => restartCount < MaxRestarts
          /\ Uncounted(c) =>
                /\ failedInits + orphans <= restartCount + 1 + lost
                /\ restartCount < MaxRestarts
          /\ pc[c] \in {"install", "settle"} /\ made[c] # 0 =>
                failedInits + orphans <= lost
    /\ (\A c \in Callers : ~Uncounted(c)) =>
          failedInits + orphans <= restartCount + lost
    /\ failedInits + orphans <= MaxRestarts + lost

AtMostOneCall == \A t, u \in calls : t = u

\* A call or a failure always belongs to a generation that was installed.
FailuresHaveGenerations ==
    /\ \A t \in calls : t.gen # 0
    /\ \A c \in Callers :
          pc[c] \in {"r_life", "r_check", "r_take"} => gen[c] # 0

\* Whatever is about to be installed is newer than all that ever was.
CreatedIsNewer ==
    /\ newest < nextGen
    /\ \A c \in Callers :
          pc[c] = "install" /\ made[c] # 0 =>
             newest < made[c] /\ made[c] < nextGen

BridgeInv ==
    /\ TypeOK
    /\ LocksMatchSteps
    /\ InstalledMatchesInit
    /\ GuardPinsBridge
    /\ LateFailureSparesNewBridge
    /\ AtMostOneCall
    /\ FailuresHaveGenerations
    /\ FailuresAreCounted
    /\ CreatedIsNewer

=============================================================================
