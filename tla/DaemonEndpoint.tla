--------------------------- MODULE DaemonEndpoint ---------------------------
(***************************************************************************)
(* How clients find, start, replace and stop the daemon of a project:      *)
(* DaemonClient (al-protocol/src/client/mod.rs), the daemon's start and    *)
(* end (al-lsp/src/server/daemon/mod.rs) and daemon-shutdown.              *)
(*                                                                         *)
(* The processes share two names in the file system, the endpoint socket   *)
(* and the spawn lock.  Each system call on them is a step.  A socket is   *)
(* named after the daemon that bound it.  A connect reaches the socket the *)
(* path names if its daemon listens, is refused if it does not, and finds  *)
(* nothing if there is no file.  bind creates the file, listen comes after *)
(* it.  Processes may be killed between any two steps.                     *)
(*                                                                         *)
(* Time.  A wait may end by its limit at any moment it could still be      *)
(* waiting.  A spawn lock grows stale only once its holder has left it     *)
(* behind and the daemon it started has come up or ended: STALE_LOCK_AGE   *)
(* is six times the longest wait under the lock.                           *)
(***************************************************************************)
EXTENDS Integers, FiniteSets

CONSTANTS Connectors,     \* clients that run DaemonClient::connect
          Stoppers,       \* clients that run daemon-shutdown
          Daemons,        \* daemon processes that may be started
          Build,          \* the build a connector's binaries come from
          NoOne,          \* no process, no socket, no file
          Killable,       \* processes that may be killed
          MaxRequests,    \* bound: commands begun
          MaxKills,       \* bound: processes killed
          MaxSlowStarts   \* bound: daemons that open their endpoint too late

Clients == Connectors \cup Stoppers

ASSUME EndpointAssumption ==
    /\ {MaxRequests, MaxKills, MaxSlowStarts} \subseteq Nat
    /\ Connectors \cap Stoppers = {}
    /\ Clients \cap Daemons = {}
    /\ NoOne \notin Clients \cup Daemons
    /\ DOMAIN Build = Connectors

VARIABLES
    path,       \* the socket the endpoint path names
    listening,  \* daemons whose listener is open
    lock,       \* the spawn lock file: who created it, and whether it is old
    dpc,        \* next step of each daemon
    built,      \* the build each daemon comes from
    inode,      \* BOUND_SOCKET: what each daemon takes for its own socket
    cpc,        \* next step of each client
    conn,       \* the daemon a client is connected to
    accepted,   \* clients whose connection the daemon has accepted
    child,      \* the daemon a connector has spawned
    replacing,  \* connectors that replace a daemon of another build
    requests, kills, slow    \* how much of each bound is used

sockets == <<path, listening>>
daemons == <<dpc, built, inode>>
links   == <<conn, accepted>>
clients == <<cpc, links, child, replacing>>
bounds  == <<requests, kills, slow>>
vars == <<sockets, lock, daemons, clients, bounds>>

-----------------------------------------------------------------------------
NoLock == [owner |-> NoOne, old |-> FALSE]

DaemonSteps == {"unborn", "probe", "clear", "bind", "listen", "record",
                "serving", "drain", "remove", "close", "dead"}

ClientSteps == {"idle", "connect", "lock_age", "lock_drop", "lock_create",
                "contended", "recheck", "spawn", "wait", "wait_child",
                "unlock", "handshake", "ask_stop", "wait_closed",
                "rehandshake"}

\* Steps between try_acquire_spawn_lock and the removal of the lock file.
UnderLock(c) ==
    /\ cpc[c] \in {"recheck", "spawn", "wait", "wait_child", "unlock"}
    /\ ~replacing[c]

\* Steps of run_daemon before its accept loop.
Starting(d) == dpc[d] \in {"probe", "clear", "bind", "listen", "record"}

\* connect_stream succeeds.
Answering == path \in listening

Go(c, step) == cpc' = [cpc EXCEPT ![c] = step]
GoDaemon(d, step) == dpc' = [dpc EXCEPT ![d] = step]

Init ==
    /\ path = NoOne /\ listening = {}
    /\ lock = NoLock
    /\ dpc = [d \in Daemons |-> "unborn"]
    /\ built = [d \in Daemons |-> NoOne]
    /\ inode = [d \in Daemons |-> NoOne]
    /\ cpc = [c \in Clients |-> "idle"]
    /\ conn = [c \in Clients |-> NoOne]
    /\ accepted = {}
    /\ child = [c \in Clients |-> NoOne]
    /\ replacing = [c \in Clients |-> FALSE]
    /\ requests = 0 /\ kills = 0 /\ slow = 0

-----------------------------------------------------------------------------
(* The daemon: run_daemon up to its accept loop, and from there to its end.*)

\* The process ends; the kernel closes its listener.
Exit(d) ==
    /\ GoDaemon(d, "dead")
    /\ listening' = listening \ {d}

\* clear_endpoint: a daemon that accepts is left as it is, a file nobody
\* listens on is to be removed.
Probe(d) ==
    /\ dpc[d] = "probe"
    /\ \/ Answering /\ Exit(d)
       \/ /\ ~Answering
          /\ GoDaemon(d, IF path = NoOne THEN "bind" ELSE "clear")
          /\ UNCHANGED listening
    /\ UNCHANGED <<path, lock, built, inode, clients, bounds>>

\* remove_file(endpoint)?: a file that is gone by now is an error.
Clear(d) ==
    /\ dpc[d] = "clear"
    /\ \/ path = NoOne /\ Exit(d)
       \/ path # NoOne /\ GoDaemon(d, "bind") /\ UNCHANGED listening
    /\ path' = NoOne
    /\ UNCHANGED <<lock, built, inode, clients, bounds>>

\* create_tokio: bind fails on an existing file.
Bind(d) ==
    /\ dpc[d] = "bind"
    /\ \/ path # NoOne /\ Exit(d) /\ UNCHANGED path
       \/ path = NoOne /\ path' = d /\ GoDaemon(d, "listen")
                       /\ UNCHANGED listening
    /\ UNCHANGED <<lock, built, inode, clients, bounds>>

Listen(d) ==
    /\ dpc[d] = "listen"
    /\ listening' = listening \cup {d}
    /\ GoDaemon(d, "record")
    /\ UNCHANGED <<path, lock, built, inode, clients, bounds>>

\* Mutant: BOUND_SOCKET is not set.
RecordNothing(d) ==
    /\ dpc[d] = "record"
    /\ GoDaemon(d, "serving")
    /\ UNCHANGED <<sockets, lock, built, inode, clients, bounds>>

\* set_permissions and BoundSocket::at look at the path, not at the listener.
Record(d) ==
    /\ dpc[d] = "record"
    /\ \/ /\ path = NoOne
          /\ Exit(d)
          /\ UNCHANGED inode
       \/ /\ path # NoOne
          /\ inode' = [inode EXCEPT ![d] = path]
          /\ GoDaemon(d, "serving")
          /\ UNCHANGED listening
    /\ UNCHANGED <<path, lock, built, clients, bounds>>

Accept(d, c) ==
    /\ dpc[d] = "serving"
    /\ conn[c] = d /\ c \notin accepted
    /\ accepted' = accepted \cup {c}
    /\ UNCHANGED <<sockets, lock, daemons, cpc, conn, child, replacing, bounds>>

\* Idle timeout, SIGTERM, a deleted project root or a failed load end the
\* accept loop; the listener stays open while the connections drain.
StopServing(d) ==
    /\ dpc[d] = "serving"
    /\ GoDaemon(d, "drain")
    /\ UNCHANGED <<sockets, lock, built, inode, clients, bounds>>

\* Mutant: the listener is closed before the socket file is dealt with.
CloseFirst(d) ==
    /\ dpc[d] = "drain"
    /\ GoDaemon(d, IF path = inode[d] THEN "remove" ELSE "close")
    /\ listening' = listening \ {d}
    /\ UNCHANGED <<path, lock, built, inode, clients, bounds>>

\* The drain is over.  cleanup_socket runs first, the listener is dropped
\* after it.  still_ours:
CheckOwn(d) ==
    /\ dpc[d] = "drain"
    /\ GoDaemon(d, IF path = inode[d] THEN "remove" ELSE "close")
    /\ UNCHANGED <<sockets, lock, built, inode, clients, bounds>>

RemoveOwn(d) ==
    /\ dpc[d] = "remove"
    /\ path' = NoOne
    /\ GoDaemon(d, "close")
    /\ UNCHANGED <<listening, lock, built, inode, clients, bounds>>

Close(d) ==
    /\ dpc[d] = "close"
    /\ Exit(d)
    /\ UNCHANGED <<path, lock, built, inode, clients, bounds>>

KillDaemon(d) ==
    /\ d \in Killable
    /\ dpc[d] \notin {"unborn", "dead"}
    /\ kills < MaxKills
    /\ kills' = kills + 1
    /\ Exit(d)
    /\ UNCHANGED <<path, lock, built, inode, clients, requests, slow>>

-----------------------------------------------------------------------------
(* The client: connect_or_spawn                                            *)

Disconnect(c) ==
    /\ conn' = [conn EXCEPT ![c] = NoOne]
    /\ accepted' = accepted \ {c}

\* The command ends, with a connection or with an error.
Finish(c) ==
    /\ Go(c, "idle")
    /\ Disconnect(c)
    /\ child' = [child EXCEPT ![c] = NoOne]
    /\ replacing' = [replacing EXCEPT ![c] = FALSE]

Begin(c) ==
    /\ cpc[c] = "idle"
    /\ requests < MaxRequests
    /\ requests' = requests + 1
    /\ Go(c, "connect")
    /\ UNCHANGED <<sockets, lock, daemons, links, child, replacing, kills, slow>>

ConnectTo(c, step) ==
    /\ conn' = [conn EXCEPT ![c] = path]
    /\ Go(c, step)
    /\ UNCHANGED <<accepted, child, replacing>>

Connect(c) ==
    /\ cpc[c] = "connect"
    /\ \/ Answering /\ ConnectTo(c, "handshake")
       \/ /\ ~Answering
          /\ c \in Connectors
          /\ Go(c, "lock_age")
          /\ UNCHANGED <<links, child, replacing>>
       \/ ~Answering /\ c \in Stoppers /\ Finish(c)
    /\ UNCHANGED <<sockets, lock, daemons, bounds>>

\* try_acquire_spawn_lock reads the age of the lock, removes an old one and
\* creates its own, in three calls.
CheckLockAge(c) ==
    /\ cpc[c] = "lock_age"
    /\ Go(c, IF lock.old THEN "lock_drop" ELSE "lock_create")
    /\ UNCHANGED <<sockets, lock, daemons, links, child, replacing, bounds>>

DropOldLock(c) ==
    /\ cpc[c] = "lock_drop"
    /\ lock' = NoLock
    /\ Go(c, "lock_create")
    /\ UNCHANGED <<sockets, daemons, links, child, replacing, bounds>>

\* Mutant: the lock is opened with create in place of create_new.
OverwriteLock(c) ==
    /\ cpc[c] = "lock_create"
    /\ lock' = [owner |-> c, old |-> FALSE]
    /\ Go(c, "recheck")
    /\ UNCHANGED <<sockets, daemons, links, child, replacing, bounds>>

CreateLock(c) ==
    /\ cpc[c] = "lock_create"
    /\ \/ /\ lock = NoLock
          /\ lock' = [owner |-> c, old |-> FALSE]
          /\ Go(c, "recheck")
       \/ /\ lock # NoLock
          /\ Go(c, "contended")
          /\ UNCHANGED lock
    /\ UNCHANGED <<sockets, daemons, links, child, replacing, bounds>>

Recheck(c) ==
    /\ cpc[c] = "recheck"
    /\ \/ Answering /\ ConnectTo(c, "unlock")
       \/ /\ ~Answering
          /\ Go(c, "spawn")
          /\ UNCHANGED <<links, child, replacing>>
    /\ UNCHANGED <<sockets, lock, daemons, bounds>>

\* Leaves a spawn for good: with the lock removed if one was taken.
EndSpawn(c) ==
    IF replacing[c] THEN Finish(c)
    ELSE Go(c, "unlock") /\ UNCHANGED <<links, child, replacing>>

\* start_daemon
Spawn(c, d) ==
    /\ cpc[c] = "spawn"
    /\ dpc[d] = "unborn"
    /\ GoDaemon(d, "probe")
    /\ built' = [built EXCEPT ![d] = Build[c]]
    /\ child' = [child EXCEPT ![c] = d]
    /\ Go(c, "wait")
    /\ UNCHANGED <<sockets, lock, inode, links, replacing, bounds>>

SpawnFails(c) ==
    /\ cpc[c] = "spawn"
    /\ EndSpawn(c)
    /\ UNCHANGED <<sockets, lock, daemons, bounds>>

\* wait_for_daemon polls the endpoint and then the child.
WaitConnect(c) ==
    /\ cpc[c] = "wait"
    /\ \/ /\ Answering
          /\ ConnectTo(c, IF replacing[c] THEN "rehandshake" ELSE "unlock")
       \/ /\ ~Answering
          /\ Go(c, "wait_child")
          /\ UNCHANGED <<links, child, replacing>>
    /\ UNCHANGED <<sockets, lock, daemons, bounds>>

WaitChild(c) ==
    /\ cpc[c] = "wait_child"
    /\ \/ dpc[child[c]] = "dead" /\ EndSpawn(c)
       \/ /\ dpc[child[c]] # "dead"
          /\ Go(c, "wait")
          /\ UNCHANGED <<links, child, replacing>>
    /\ UNCHANGED <<sockets, lock, daemons, bounds>>

\* Mutant: the wait lasts as long as the child lives.
GiveUpSlow(c) ==
    /\ cpc[c] = "wait"
    /\ Starting(child[c])
    /\ slow < MaxSlowStarts
    /\ slow' = slow + 1
    /\ EndSpawn(c)
    /\ UNCHANGED <<sockets, lock, daemons, requests, kills>>

\* Mutant: fewer polls than a daemon needs to start.
GiveUpEarly(c) ==
    /\ cpc[c] = "wait"
    /\ EndSpawn(c)
    /\ UNCHANGED <<sockets, lock, daemons, bounds>>

\* Fifty polls are over: the child is slow to start, or it runs and the
\* endpoint does not lead to it.
GiveUpWait(c) ==
    /\ cpc[c] = "wait"
    /\ IF Starting(child[c])
       THEN slow < MaxSlowStarts /\ slow' = slow + 1
       ELSE ~Answering /\ UNCHANGED slow
    /\ EndSpawn(c)
    /\ UNCHANGED <<sockets, lock, daemons, requests, kills>>

\* Mutant: a failed spawn is taken for a connection.
UnlockUnchecked(c) ==
    /\ cpc[c] = "unlock"
    /\ lock' = NoLock
    /\ Go(c, "handshake")
    /\ UNCHANGED <<sockets, daemons, links, child, replacing, bounds>>

\* remove_file(&lock_path), whoever the lock belongs to by now.
Unlock(c) ==
    /\ cpc[c] = "unlock"
    /\ lock' = NoLock
    /\ \/ conn[c] = NoOne /\ Finish(c)
       \/ /\ conn[c] # NoOne
          /\ Go(c, "handshake")
          /\ UNCHANGED <<links, child, replacing>>
    /\ UNCHANGED <<sockets, daemons, bounds>>

\* Another client spawns: its daemon answers, or five seconds pass.
WaitForOther(c) ==
    /\ cpc[c] = "contended"
    /\ \/ Answering /\ ConnectTo(c, "handshake")
       \/ ~Answering /\ Finish(c)
    /\ UNCHANGED <<sockets, lock, daemons, bounds>>

-----------------------------------------------------------------------------
(* The client: connect_checked_within and cmd_daemon_shutdown              *)

Closed(c)   == dpc[conn[c]] = "dead"
Replied(c)  == c \in accepted /\ ~Closed(c)
Matching(c) == c \in Connectors /\ built[conn[c]] = Build[c]

\* authenticate.  The daemon answers with its identity, or the connection
\* ends without one, which counts as a daemon of another build, or nothing
\* comes in time.  daemon-shutdown goes on in each of these cases.
Handshake(c) ==
    /\ cpc[c] = "handshake"
    /\ \/ Replied(c) /\ Matching(c) /\ Finish(c)
       \/ /\ c \in Stoppers \/ Closed(c) \/ (Replied(c) /\ ~Matching(c))
          /\ Go(c, "ask_stop")
          /\ UNCHANGED <<links, child, replacing>>
       \/ c \in Connectors /\ ~Closed(c) /\ Finish(c)
    /\ UNCHANGED <<sockets, lock, daemons, bounds>>

\* request_daemon_shutdown: a daemon that still serves ends its accept loop.
\* A connector goes on whatever comes back, daemon-shutdown stops here when
\* the request fails or is not answered in time.
AskStop(c) ==
    /\ cpc[c] = "ask_stop"
    /\ dpc' = IF dpc[conn[c]] = "serving" /\ c \in accepted
              THEN [dpc EXCEPT ![conn[c]] = "drain"] ELSE dpc
    /\ \/ /\ c \in Connectors \/ Replied(c)
          /\ Disconnect(c)
          /\ Go(c, "wait_closed")
          /\ UNCHANGED <<child, replacing>>
       \/ c \in Stoppers /\ Finish(c)
    /\ UNCHANGED <<sockets, lock, built, inode, bounds>>

\* wait_for_endpoint_closed, after which a connector spawns a replacement
\* without the spawn lock.  The third case is the end of the wait.
WaitClosed(c) ==
    /\ cpc[c] = "wait_closed"
    /\ \/ /\ ~Answering /\ c \in Connectors
          /\ replacing' = [replacing EXCEPT ![c] = TRUE]
          /\ Go(c, "spawn")
          /\ UNCHANGED <<links, child>>
       \/ ~Answering /\ c \in Stoppers /\ Finish(c)
       \/ Answering /\ Finish(c)
    /\ UNCHANGED <<sockets, lock, daemons, bounds>>

\* One replacement and never a loop: whatever it answers, the command goes on
\* with it or fails.
Rehandshake(c) ==
    /\ cpc[c] = "rehandshake"
    /\ Finish(c)
    /\ UNCHANGED <<sockets, lock, daemons, bounds>>

\* The client is killed: its lock file stays, its child lives on.
KillClient(c) ==
    /\ c \in Killable
    /\ cpc[c] # "idle"
    /\ kills < MaxKills
    /\ kills' = kills + 1
    /\ Finish(c)
    /\ UNCHANGED <<sockets, lock, daemons, requests, slow>>

AgeLock ==
    /\ lock # NoLock /\ ~lock.old
    /\ ~UnderLock(lock.owner)
    /\ ~\E d \in Daemons : Starting(d)
    /\ lock' = [lock EXCEPT !.old = TRUE]
    /\ UNCHANGED <<sockets, daemons, clients, bounds>>

-----------------------------------------------------------------------------
DaemonStep(d) ==
    \/ Probe(d) \/ Clear(d) \/ Bind(d) \/ Listen(d) \/ Record(d)
    \/ (\E c \in Clients : Accept(d, c))
    \/ CheckOwn(d) \/ RemoveOwn(d) \/ Close(d)

ClientStep(c) ==
    \/ Connect(c) \/ CheckLockAge(c) \/ DropOldLock(c) \/ CreateLock(c)
    \/ Recheck(c) \/ (\E d \in Daemons : Spawn(c, d)) \/ SpawnFails(c)
    \/ WaitConnect(c) \/ WaitChild(c) \/ Unlock(c) \/ WaitForOther(c)
    \/ Handshake(c) \/ AskStop(c) \/ WaitClosed(c) \/ Rehandshake(c)

Next ==
    \/ \E c \in Clients :
          ClientStep(c) \/ Begin(c) \/ GiveUpWait(c) \/ KillClient(c)
    \/ \E d \in Daemons : DaemonStep(d) \/ StopServing(d) \/ KillDaemon(d)
    \/ AgeLock

Spec == Init /\ [][Next]_vars

\* Processes are scheduled, every wait has a limit and the polls of
\* wait_for_daemon are counted.  No command has to be given and no daemon has
\* to stop.
FairSpec ==
    /\ Spec
    /\ \A c \in Clients : WF_vars(ClientStep(c)) /\ SF_vars(GiveUpWait(c))
    /\ \A d \in Daemons : WF_vars(DaemonStep(d))

-----------------------------------------------------------------------------
\* Types.  A client that talks to a daemon has a stream, one that waits for
\* a child has a child.
TypeOK ==
    /\ path \in Daemons \cup {NoOne}
    /\ listening \in SUBSET Daemons
    /\ lock \in [owner : Clients \cup {NoOne}, old : BOOLEAN]
    /\ dpc \in [Daemons -> DaemonSteps]
    /\ built \in [Daemons -> {Build[c] : c \in Connectors} \cup {NoOne}]
    /\ inode \in [Daemons -> Daemons \cup {NoOne}]
    /\ cpc \in [Clients -> ClientSteps]
    /\ conn \in [Clients -> Daemons \cup {NoOne}]
    /\ accepted \in SUBSET Clients
    /\ child \in [Clients -> Daemons \cup {NoOne}]
    /\ replacing \in [Clients -> BOOLEAN]
    /\ \A c \in Clients :
         /\ cpc[c] \in {"handshake", "ask_stop", "rehandshake"} =>
                conn[c] \in Daemons
         /\ cpc[c] \in {"wait", "wait_child"} => child[c] \in Daemons
    /\ requests \in 0..MaxRequests /\ kills \in 0..MaxKills
    /\ slow \in 0..MaxSlowStarts

\* A daemon that serves can be reached: no other process removed or replaced
\* its socket.  clear_endpoint exists so that no daemon is left "running with
\* no path, where no client and no daemon-shutdown could reach it".
ListenerKeepsPath == \A d \in Daemons : dpc[d] = "serving" => path = d

\* What cleanup_socket removes between its check and its removal is the
\* stopping daemon's own socket: "unless another socket has taken the path
\* since, in which case the path belongs to that one and stays".
CleanupSparesOthers ==
    \A d \in Daemons : dpc[d] = "remove" => path \in {d, NoOne}

\* A socket file without its daemon is "a file left by a daemon that did not
\* get to remove it": orderly starts and stops leave none, whatever races
\* there were between them.
LeftoverMeansKill ==
    kills = 0 /\ path # NoOne => dpc[path] \notin {"unborn", "close", "dead"}

\* "so only one process spawns al-lsp daemon": one client at a time is between
\* the creation and the removal of the spawn lock.  A killed client leaves its
\* lock behind, and the two calls that remove an old one let two others pass.
OneSpawner ==
    kills = 0 => \A c, d \in Clients : UnderLock(c) /\ UnderLock(d) => c = d

\* Every command ends, whatever else is started, stopped or killed meanwhile.
EveryCommandEnds == \A c \in Clients : []<>(cpc[c] = "idle")
=============================================================================
