-------------------------- MODULE DaemonLifecycle ---------------------------
(***************************************************************************)
(* One daemon from its accept loop to its end (run_daemon) and the         *)
(* connections it serves meanwhile (handle_connection), in                 *)
(* al-lsp/src/server/daemon/mod.rs.                                        *)
(*                                                                         *)
(* The accept loop, the project load, the idle reaper, one task per        *)
(* connection and one per request run concurrently.  A step is one access  *)
(* to what they share: the in-flight counter, the activity stamp, the      *)
(* loading flag, the shutdown signal, the debug session and the permits.   *)
(*                                                                         *)
(* Data.  Of last_activity the code asks only whether the idle window has  *)
(* passed since: stale.  Requests are interchangeable: any of them may ask *)
(* for a shutdown or work on the debug session.                            *)
(***************************************************************************)
EXTENDS Integers, FiniteSets

CONSTANTS Connections, Requests,
          NoOne,          \* no connection, no request
          MaxConnections, \* MAX_CONNECTIONS
          MaxInFlight,    \* MAX_IN_FLIGHT_PER_CONNECTION
          MissingPolls,   \* MISSING_ROOT_POLLS
          MaxReadErrors,  \* bound: lines that are too long or not UTF-8
          MaxRootChanges  \* bound: times the project root goes or comes back

ASSUME LifecycleAssumption ==
    /\ {MaxConnections, MaxInFlight, MissingPolls} \subseteq Nat \ {0}
    /\ {MaxReadErrors, MaxRootChanges} \subseteq Nat
    /\ IsFiniteSet(Connections) /\ IsFiniteSet(Requests)
    /\ NoOne \notin Connections \cup Requests

VARIABLES
    loop,       \* run_daemon: accepting, draining, ended
    load,       \* the load task
    loading,    \* the flag that requests and the reaper read
    notified,   \* shutdown_signal holds a permit
    conn,       \* state of each connection
    eof,        \* connections whose client has sent its last line
    gone,       \* connections with client_gone set
    req,        \* state of each request
    on,         \* the connection a request came on
    answer,     \* how a request was dispatched
    inFlight,   \* in_flight
    stale,      \* the idle window has passed since last_activity
    session,    \* debug_session is Some
    debugLock,  \* the request that holds the debug_session mutex
    reaper,     \* next step of the reaper
    missing,    \* missing_root_polls
    root,       \* the project root exists
    readErrors, rootChanges,    \* how much of each bound is used
    busyRound,  \* history: requests served since the reaper's round began
    openRound   \* history: the session has been open since then

traffic == <<conn, eof, gone, on>>
work    == <<req, answer, inFlight>>
debug   == <<session, debugLock>>
life    == <<loop, load, loading, notified>>
reaping == <<reaper, missing, root>>
bounds  == <<readErrors, rootChanges>>
history == <<busyRound, openRound>>
vars == <<life, traffic, work, stale, debug, reaping, bounds, history>>

-----------------------------------------------------------------------------
RequestSteps == {"new", "sent", "read", "admitted", "serving", "done",
                 "answered", "lost", "aborted", "cut"}

ConnectionSteps == {"none", "queued", "open", "closing", "closed", "broken",
                    "rejected"}

ReaperSteps == {"sleep", "activity", "work", "session", "notify", "gone"}

Running == loop # "ended"

\* Connection tasks, each with a permit of connection_limit.
Permits == {c \in Connections : conn[c] \in {"open", "closing"}}

\* Requests in the JoinSet of a connection, each with one of its permits.
Tasks(c) == {r \in Requests : on[r] = c /\ req[r] \in {"admitted", "serving", "done"}}

Serving == {r \in Requests : req[r] = "serving"}

SetReq(r, step) == req' = [req EXCEPT ![r] = step]
SetConn(c, step) == conn' = [conn EXCEPT ![c] = step]

Init ==
    /\ loop = "accept" /\ load = "running" /\ loading = TRUE /\ notified = FALSE
    /\ conn = [c \in Connections |-> "none"] /\ eof = {} /\ gone = {}
    /\ req = [r \in Requests |-> "new"]
    /\ on = [r \in Requests |-> NoOne]
    /\ answer = [r \in Requests |-> "none"]
    /\ inFlight = 0 /\ stale = FALSE
    /\ session = FALSE /\ debugLock = NoOne
    /\ reaper = "sleep" /\ missing = 0 /\ root = TRUE
    /\ readErrors = 0 /\ rootChanges = 0
    /\ busyRound = {} /\ openRound = FALSE

-----------------------------------------------------------------------------
(* Clients *)

OpenConnection(c) ==
    /\ Running /\ conn[c] = "none"
    /\ SetConn(c, "queued")
    /\ UNCHANGED <<life, eof, gone, on, work, stale, debug, reaping, bounds, history>>

Send(r, c) ==
    /\ req[r] = "new"
    /\ conn[c] \in {"queued", "open"} /\ c \notin eof
    /\ SetReq(r, "sent")
    /\ on' = [on EXCEPT ![r] = c]
    /\ UNCHANGED <<life, conn, eof, gone, answer, inFlight, stale, debug, reaping,
                   bounds, history>>

HangUp(c) ==
    /\ conn[c] \in {"queued", "open"} /\ c \notin eof
    /\ eof' = eof \cup {c}
    /\ UNCHANGED <<life, conn, gone, on, work, stale, debug, reaping, bounds, history>>

-----------------------------------------------------------------------------
(* handle_connection *)

\* The accept branch of the select: activity first, then a permit or a
\* rejection.
Accept(c) ==
    /\ loop = "accept" /\ conn[c] = "queued"
    /\ stale' = FALSE
    /\ SetConn(c, IF Cardinality(Permits) < MaxConnections
                  THEN "open" ELSE "rejected")
    /\ UNCHANGED <<life, eof, gone, on, work, debug, reaping, bounds, history>>

\* The next line; the loop reads no other until this request has a permit.
Read(r) ==
    /\ Running /\ req[r] = "sent"
    /\ conn[on[r]] = "open" /\ on[r] \notin gone
    /\ \A s \in Requests : req[s] = "read" => on[s] # on[r]
    /\ SetReq(r, "read")
    /\ stale' = FALSE
    /\ UNCHANGED <<life, traffic, answer, inFlight, debug, reaping, bounds, history>>

Admit(r) ==
    /\ Running /\ req[r] = "read"
    /\ Cardinality(Tasks(on[r])) < MaxInFlight
    /\ SetReq(r, "admitted")
    /\ UNCHANGED <<life, traffic, answer, inFlight, stale, debug, reaping, bounds,
                   history>>

\* InFlightGuard::new, then dispatch_while_loading or dispatch_request.
Dispatch(r) ==
    /\ Running /\ req[r] = "admitted"
    /\ SetReq(r, "serving")
    /\ inFlight' = inFlight + 1
    /\ answer' = [answer EXCEPT ![r] = IF loading THEN "try again" ELSE "full"]
    /\ UNCHANGED <<life, traffic, stale, debug, reaping, bounds, history>>

\* The shutdown method, which is answered during the load too.
RequestShutdown(r) ==
    /\ Running /\ req[r] = "serving"
    /\ notified' = TRUE
    /\ UNCHANGED <<loop, load, loading, traffic, work, stale, debug, reaping, bounds,
                   history>>

TakeDebugLock(r) ==
    /\ Running /\ req[r] = "serving" /\ answer[r] = "full"
    /\ debugLock = NoOne
    /\ debugLock' = r
    /\ UNCHANGED <<life, traffic, work, stale, session, reaping, bounds, history>>

\* A debug method opens, uses or closes the session.
EndDebugCall(r) ==
    /\ Running /\ debugLock = r
    /\ debugLock' = NoOne
    /\ \E open \in BOOLEAN :
          /\ session' = open
          /\ openRound' = (openRound /\ open)
    /\ UNCHANGED <<life, traffic, work, stale, reaping, bounds, busyRound>>

\* The dispatch ends and drops its guard.
Complete(r) ==
    /\ Running /\ req[r] = "serving" /\ debugLock # r
    /\ SetReq(r, "done")
    /\ inFlight' = inFlight - 1
    /\ busyRound' = busyRound \ {r}
    /\ UNCHANGED <<life, traffic, answer, stale, debug, reaping, bounds, openRound>>

\* Activity again, then the frame; a client that has left cannot take it.
Answer(r) ==
    /\ Running /\ req[r] = "done"
    /\ stale' = FALSE
    /\ \/ SetReq(r, "answered") /\ UNCHANGED gone
       \/ /\ on[r] \in eof
          /\ SetReq(r, "lost")
          /\ gone' = gone \cup {on[r]}
    /\ UNCHANGED <<life, conn, eof, on, answer, inFlight, debug, reaping, bounds,
                   history>>

\* The read loop ends: no line is left, or client_gone was seen with one.
StopReading(c) ==
    /\ Running /\ conn[c] = "open"
    /\ \A r \in Requests : on[r] = c => req[r] # "read"
    /\ \/ c \in eof /\ \A r \in Requests : on[r] = c => req[r] # "sent"
       \/ c \in gone /\ \E r \in Requests : on[r] = c /\ req[r] = "sent"
    /\ SetConn(c, "closing")
    /\ UNCHANGED <<life, eof, gone, on, work, stale, debug, reaping, bounds, history>>

\* Mutant: the tasks are not joined.
CloseUnjoined(c) ==
    /\ Running /\ conn[c] = "closing"
    /\ SetConn(c, "closed")
    /\ UNCHANGED <<life, eof, gone, on, work, stale, debug, reaping, bounds, history>>

\* join_next until the set is empty; then the connection's permit is free.
CloseConnection(c) ==
    /\ Running /\ conn[c] = "closing"
    /\ Tasks(c) = {}
    /\ SetConn(c, "closed")
    /\ UNCHANGED <<life, eof, gone, on, work, stale, debug, reaping, bounds, history>>

\* What dropping the tasks of a connection does to their requests.
Abort(rs, step) ==
    /\ req' = [r \in Requests |-> IF r \in rs THEN step ELSE req[r]]
    /\ busyRound' = busyRound \ rs
    /\ debugLock' = IF debugLock \in rs THEN NoOne ELSE debugLock

\* Mutant: the counter is decremented by hand at the end of a dispatch.
ReadErrorLeaks(c) ==
    /\ Running /\ conn[c] = "open"
    /\ readErrors < MaxReadErrors
    /\ readErrors' = readErrors + 1
    /\ \A r \in Requests : on[r] = c => req[r] # "read"
    /\ SetConn(c, "broken")
    /\ Abort(Tasks(c), "aborted")
    /\ UNCHANGED <<life, eof, gone, on, answer, inFlight, stale, session, reaping,
                   rootChanges, openRound>>

\* A line that cannot be read leaves by `?`: the JoinSet is dropped with the
\* tasks in it, and with them their guards.
ReadError(c) ==
    /\ Running /\ conn[c] = "open"
    /\ readErrors < MaxReadErrors
    /\ readErrors' = readErrors + 1
    /\ \A r \in Requests : on[r] = c => req[r] # "read"
    /\ SetConn(c, "broken")
    /\ Abort(Tasks(c), "aborted")
    /\ inFlight' = inFlight - Cardinality(Tasks(c) \cap Serving)
    /\ UNCHANGED <<life, eof, gone, on, answer, stale, session, reaping, rootChanges,
                   openRound>>

-----------------------------------------------------------------------------
(* The load task and the accept loop *)

LoadSucceeds ==
    /\ Running /\ load = "running"
    /\ load' = "ok" /\ loading' = FALSE
    /\ UNCHANGED <<loop, notified, traffic, work, stale, debug, reaping, bounds, history>>

\* Mutant: the flag is cleared whatever the result.
LoadFailsUnflagged ==
    /\ Running /\ load = "running"
    /\ load' = "failed" /\ loading' = FALSE
    /\ UNCHANGED <<loop, notified, traffic, work, stale, debug, reaping, bounds, history>>

LoadFails ==
    /\ Running /\ load = "running"
    /\ load' = "failed"
    /\ UNCHANGED <<loop, loading, notified, traffic, work, stale, debug, reaping,
                   bounds, history>>

\* run_daemon returns and the runtime drops every task that is left.
EndProcess ==
    /\ loop' = "ended"
    /\ reaper' = "gone"
    /\ Abort({r \in Requests : req[r] \in {"read", "admitted", "serving", "done"}}, "cut")
    /\ inFlight' = 0
    /\ UNCHANGED <<load, loading, notified, traffic, answer, stale, session, missing,
                   root, bounds, openRound>>

\* A failed load ends the daemon at once, without a drain.
SeeLoadFailure ==
    /\ loop = "accept" /\ load = "failed"
    /\ EndProcess

\* The select sees the shutdown signal, SIGTERM or Ctrl-C; the reaper is
\* aborted.
StopAccepting ==
    /\ loop = "accept"
    /\ loop' = "drain"
    /\ notified' = FALSE
    /\ reaper' = "gone"
    /\ UNCHANGED <<load, loading, traffic, work, stale, debug, missing, root, bounds,
                   history>>

SeeNotify == notified /\ StopAccepting
Terminate == ~notified /\ StopAccepting

\* acquire_many(MAX_CONNECTIONS) succeeds, or SHUTDOWN_GRACE passes.
Drained == loop = "drain" /\ Permits = {} /\ EndProcess
\* Mutant: the drain has no time limit.
DrainUnlimited == loop = "drain" /\ Permits = {} /\ EndProcess
GraceOver == loop = "drain" /\ Permits # {} /\ EndProcess

-----------------------------------------------------------------------------
(* The reaper *)

\* Mutant: a poll that finds the root missing starts the count again.
PollForgetful ==
    /\ reaper = "sleep"
    /\ missing' = 0
    /\ reaper' = IF ~root \/ loading THEN "sleep" ELSE "activity"
    /\ UNCHANGED <<life, traffic, work, stale, debug, root, bounds, history>>

\* Mutant: one poll more than MISSING_ROOT_POLLS.
PollLate ==
    /\ reaper = "sleep"
    /\ missing' = IF root THEN 0 ELSE missing + 1
    /\ notified' = (notified \/ missing' > MissingPolls)
    /\ reaper' = IF missing' > MissingPolls THEN "gone"
                 ELSE IF root /\ ~loading THEN "activity" ELSE "sleep"
    /\ UNCHANGED <<loop, load, loading, traffic, work, stale, debug, root, bounds,
                   history>>

\* Once a second: the project root, then the loading flag.
Poll ==
    /\ reaper = "sleep"
    /\ IF root
       THEN /\ missing' = 0
            /\ reaper' = IF loading THEN "sleep" ELSE "activity"
            /\ UNCHANGED notified
       ELSE /\ missing' = missing + 1
            /\ notified' = (notified \/ missing' >= MissingPolls)
            /\ reaper' = IF missing' >= MissingPolls THEN "gone" ELSE "sleep"
    /\ UNCHANGED <<loop, load, loading, traffic, work, stale, debug, root, bounds,
                   history>>

ReadActivity ==
    /\ reaper = "activity"
    /\ reaper' = IF stale THEN "work" ELSE "sleep"
    /\ busyRound' = Serving
    /\ openRound' = session
    /\ UNCHANGED <<life, traffic, work, stale, debug, missing, root, bounds>>

\* Mutant: the counter is not looked at.
SkipInFlight ==
    /\ reaper = "work"
    /\ reaper' = "session"
    /\ UNCHANGED <<life, traffic, work, stale, debug, missing, root, bounds, history>>

ReadInFlight ==
    /\ reaper = "work"
    /\ reaper' = IF inFlight = 0 THEN "session" ELSE "sleep"
    /\ UNCHANGED <<life, traffic, work, stale, debug, missing, root, bounds, history>>

\* try_lock: a held mutex counts as a session.
TryDebugLock ==
    /\ reaper = "session"
    /\ reaper' = IF debugLock = NoOne /\ ~session THEN "notify" ELSE "sleep"
    /\ UNCHANGED <<life, traffic, work, stale, debug, missing, root, bounds, history>>

Fire ==
    /\ reaper = "notify"
    /\ notified' = TRUE
    /\ reaper' = "gone"
    /\ UNCHANGED <<loop, load, loading, traffic, work, stale, debug, missing, root,
                   bounds, history>>

-----------------------------------------------------------------------------
(* Time and the file system *)

IdleWindowPasses ==
    /\ Running /\ ~stale
    /\ stale' = TRUE
    /\ UNCHANGED <<life, traffic, work, debug, reaping, bounds, history>>

RootChanges ==
    /\ Running /\ rootChanges < MaxRootChanges
    /\ rootChanges' = rootChanges + 1
    /\ root' = ~root
    /\ UNCHANGED <<life, traffic, work, stale, debug, reaper, missing, readErrors,
                   history>>

ReaperStep == Poll \/ ReadActivity \/ ReadInFlight \/ TryDebugLock \/ Fire

LoopStep == SeeLoadFailure \/ SeeNotify \/ Drained \/ GraceOver

RequestStep(r) ==
    \/ Read(r) \/ Admit(r) \/ Dispatch(r) \/ Complete(r) \/ Answer(r)
    \/ RequestShutdown(r) \/ TakeDebugLock(r) \/ EndDebugCall(r)

ConnectionStep(c) ==
    \/ OpenConnection(c) \/ HangUp(c) \/ Accept(c)
    \/ StopReading(c) \/ CloseConnection(c) \/ ReadError(c)
    \/ \E r \in Requests : Send(r, c)

Next ==
    \/ ReaperStep \/ LoopStep
    \/ LoadSucceeds \/ LoadFails \/ Terminate
    \/ IdleWindowPasses \/ RootChanges
    \/ \E r \in Requests : RequestStep(r)
    \/ \E c \in Connections : ConnectionStep(c)

Spec == Init /\ [][Next]_vars

\* The reaper polls, the select sees what is ready and the grace period
\* passes.  Clients, requests and the load owe nothing.
FairSpec == Spec /\ WF_vars(ReaperStep) /\ WF_vars(LoopStep)

-----------------------------------------------------------------------------
TypeOK ==
    /\ loop \in {"accept", "drain", "ended"}
    /\ load \in {"running", "ok", "failed"}
    /\ loading \in BOOLEAN /\ notified \in BOOLEAN
    /\ conn \in [Connections -> ConnectionSteps]
    /\ eof \in SUBSET Connections /\ gone \in SUBSET Connections
    /\ req \in [Requests -> RequestSteps]
    /\ on \in [Requests -> Connections \cup {NoOne}]
    /\ answer \in [Requests -> {"none", "try again", "full"}]
    /\ inFlight \in Nat
    /\ stale \in BOOLEAN /\ session \in BOOLEAN
    /\ debugLock \in Requests \cup {NoOne}
    /\ reaper \in ReaperSteps /\ missing \in 0..MissingPolls /\ root \in BOOLEAN
    /\ readErrors \in 0..MaxReadErrors /\ rootChanges \in 0..MaxRootChanges
    /\ busyRound \in SUBSET Requests /\ openRound \in BOOLEAN

\* in_flight counts the requests that are being dispatched, on every path out
\* of a dispatch: "the count is restored even if the connection task is
\* dropped mid-dispatch".
CountMatchesWork == inFlight = Cardinality(Serving)

\* No request is "served from a half loaded workspace".
ServedFromLoadedProject ==
    \A r \in Requests : answer[r] = "full" => load = "ok"

\* A request that runs, or a debug session that is open, from the moment the
\* reaper looks at the idle clock to the moment it fires keeps it from
\* firing, "however long the operation takes".
LongWorkKeepsDaemon == reaper = "notify" => busyRound = {} /\ ~openRound

\* "Requests already accepted must finish and answer before the connection
\* closes, so a client that pipelined and then stopped reading still gets
\* every response it was owed."
OwedAnswers ==
    \A r \in Requests :
        req[r] \notin {"new", "sent", "answered", "lost", "cut"} =>
            conn[on[r]] \in {"open", "closing"}

\* So it is as long as every line could be read: handle_connection joins what
\* it has accepted, a request that waits for a permit included.
AnswersBeforeClose == readErrors = 0 => OwedAnswers

\* A daemon whose project root is gone for good ends, whatever work is left.
GoneRootEndsDaemon == <>[](~root) => <>(loop = "ended")

\* A daemon that nobody uses any more ends: no request is served, no session
\* is open and the idle window has passed for good.
IdleDaemonEnds ==
    <>[](~loading /\ Serving = {} /\ ~session /\ stale /\ root) => <>(loop = "ended")

\* A shutdown that was asked for comes, whatever connections stay open.
ShutdownComes == notified ~> loop = "ended"
=============================================================================
