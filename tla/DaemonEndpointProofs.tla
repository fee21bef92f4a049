------------------------ MODULE DaemonEndpointProofs ------------------------
(***************************************************************************)
(* For any number of clients and daemons: the types, the fact that only a  *)
(* kill leaves a socket file behind, and, where no process is killed, that *)
(* the spawn lock admits one client.                                       *)
(*                                                                         *)
(* For one client at a time (OneClient), with any number of daemons and of *)
(* `stop` commands: a daemon that serves owns the socket path, and no      *)
(* cleanup removes a file of another daemon.  With two clients both fail.  *)
(***************************************************************************)
EXTENDS DaemonEndpoint, TLAPS

\* Steps that only DaemonClient::connect takes.
ConnectorSteps == ClientSteps \ {"idle", "connect", "handshake", "ask_stop",
                                 "wait_closed"}

\* daemon-shutdown never spawns.
StoppersDoNotSpawn ==
    \A c \in Clients : cpc[c] \in ConnectorSteps => c \in Connectors

Typing == TypeOK /\ StoppersDoNotSpawn

\* The parts of the types a client's own state has, and the rest.
ClientTyping ==
    /\ cpc \in [Clients -> ClientSteps]
    /\ conn \in [Clients -> Daemons \cup {NoOne}]
    /\ accepted \in SUBSET Clients
    /\ child \in [Clients -> Daemons \cup {NoOne}]
    /\ replacing \in [Clients -> BOOLEAN]
    /\ \A c \in Clients :
         /\ cpc[c] \in {"handshake", "ask_stop", "rehandshake"} =>
                conn[c] \in Daemons
         /\ cpc[c] \in {"wait", "wait_child"} => child[c] \in Daemons
    /\ StoppersDoNotSpawn

SharedTyping ==
    /\ path \in Daemons \cup {NoOne}
    /\ listening \in SUBSET Daemons
    /\ lock \in [owner : Clients \cup {NoOne}, old : BOOLEAN]
    /\ dpc \in [Daemons -> DaemonSteps]
    /\ built \in [Daemons -> {Build[c] : c \in Connectors} \cup {NoOne}]
    /\ inode \in [Daemons -> Daemons \cup {NoOne}]
    /\ requests \in 0..MaxRequests /\ kills \in 0..MaxKills
    /\ slow \in 0..MaxSlowStarts

LEMMA TypingSplit == /\ Typing <=> ClientTyping /\ SharedTyping
                     /\ Typing' <=> ClientTyping' /\ SharedTyping'
BY DEF Typing, TypeOK, ClientTyping, SharedTyping

\* The end of a command leaves the client as it was before it.
LEMMA FinishTyped ==
    ASSUME ClientTyping, NEW c \in Clients, Finish(c)
    PROVE  ClientTyping'
<1> USE DEF ClientTyping, Finish, Go, Disconnect
<1>1. cpc' \in [Clients -> ClientSteps] BY DEF ClientSteps
<1>2. conn' \in [Clients -> Daemons \cup {NoOne}] OBVIOUS
<1>3. accepted' \in SUBSET Clients OBVIOUS
<1>4. child' \in [Clients -> Daemons \cup {NoOne}] OBVIOUS
<1>5. replacing' \in [Clients -> BOOLEAN] OBVIOUS
<1>6. cpc'[c] = "idle" OBVIOUS
<1>7. \A e \in Clients \ {c} : /\ cpc'[e] = cpc[e] /\ conn'[e] = conn[e]
                               /\ child'[e] = child[e]
  OBVIOUS
<1>8. StoppersDoNotSpawn'
  BY <1>6, <1>7 DEF StoppersDoNotSpawn, ConnectorSteps
<1>9. \A e \in Clients :
         /\ cpc'[e] \in {"handshake", "ask_stop", "rehandshake"} =>
                conn'[e] \in Daemons
         /\ cpc'[e] \in {"wait", "wait_child"} => child'[e] \in Daemons
  BY <1>6, <1>7
<1> QED BY <1>1, <1>2, <1>3, <1>4, <1>5, <1>8, <1>9

\* A step that changes nothing but a client's place.
LEMMA MoveTyped ==
    ASSUME ClientTyping, NEW c \in Clients, NEW step \in ClientSteps,
           Go(c, step), UNCHANGED <<links, child, replacing>>,
           step \in ConnectorSteps => c \in Connectors,
           step \in {"handshake", "ask_stop", "rehandshake"} =>
               conn[c] \in Daemons,
           step \in {"wait", "wait_child"} => child[c] \in Daemons
    PROVE  ClientTyping'
BY DEF ClientTyping, StoppersDoNotSpawn, Go, links

\* A connection to whoever listens on the path.
LEMMA ConnectTyped ==
    ASSUME ClientTyping, SharedTyping, NEW c \in Clients,
           NEW step \in ClientSteps \ {"wait", "wait_child"},
           Answering, ConnectTo(c, step),
           step \in ConnectorSteps => c \in Connectors
    PROVE  ClientTyping'
BY DEF ClientTyping, SharedTyping, StoppersDoNotSpawn, ConnectTo, Answering, Go

LEMMA TypingInit == Init => Typing
BY EndpointAssumption
DEF Init, Typing, TypeOK, StoppersDoNotSpawn, ConnectorSteps, NoLock,
    DaemonSteps, ClientSteps

\* Every step of a daemon keeps the types.
LEMMA TypingDaemon ==
    ASSUME Typing, NEW d \in Daemons,
           DaemonStep(d) \/ StopServing(d) \/ KillDaemon(d)
    PROVE  Typing'
<1> USE EndpointAssumption
    DEF Typing, TypeOK, StoppersDoNotSpawn, ConnectorSteps, DaemonSteps,
        ClientSteps, GoDaemon, Exit, sockets, daemons, links, clients, bounds
<1>1. CASE Probe(d) BY <1>1 DEF Probe
<1>2. CASE Clear(d) BY <1>2 DEF Clear
<1>3. CASE Bind(d) BY <1>3 DEF Bind
<1>4. CASE Listen(d) BY <1>4 DEF Listen
<1>5. CASE Record(d) BY <1>5 DEF Record
<1>6. CASE \E c \in Clients : Accept(d, c) BY <1>6 DEF Accept
<1>7. CASE CheckOwn(d) BY <1>7 DEF CheckOwn
<1>8. CASE RemoveOwn(d) BY <1>8 DEF RemoveOwn
<1>9. CASE Close(d) BY <1>9 DEF Close
<1>10. CASE StopServing(d) BY <1>10 DEF StopServing
<1>11. CASE KillDaemon(d) BY <1>11 DEF KillDaemon
<1> QED BY <1>1, <1>2, <1>3, <1>4, <1>5, <1>6, <1>7, <1>8, <1>9, <1>10,
           <1>11 DEF DaemonStep

\* A failed spawn.
LEMMA EndSpawnTyped ==
    ASSUME ClientTyping, NEW c \in Connectors, EndSpawn(c)
    PROVE  ClientTyping'
<1>1. "unlock" \in ClientSteps /\ c \in Clients BY DEF ClientSteps, Clients
<1>2. CASE Finish(c) BY <1>1, <1>2, FinishTyped
<1>3. CASE Go(c, "unlock") /\ UNCHANGED <<links, child, replacing>>
  BY <1>1, <1>3, MoveTyped
<1> QED BY <1>2, <1>3 DEF EndSpawn

\* Every step of a client keeps the types.
LEMMA TypingClient ==
    ASSUME Typing, NEW c \in Clients,
           ClientStep(c) \/ Begin(c) \/ GiveUpWait(c) \/ KillClient(c)
    PROVE  Typing'
<1>0. ClientTyping /\ SharedTyping BY TypingSplit
<1>a. cpc[c] \in ConnectorSteps => c \in Connectors
  BY <1>0 DEF ClientTyping, StoppersDoNotSpawn
<1>b. ASSUME UNCHANGED <<sockets, lock, daemons, bounds>> PROVE SharedTyping'
  BY <1>0, <1>b DEF SharedTyping, sockets, daemons, bounds
<1> USE DEF ClientSteps, ConnectorSteps
<1>1. CASE Connect(c)
  <2>1. ASSUME Answering /\ ConnectTo(c, "handshake")
        PROVE ClientTyping'
    BY <1>0, <2>1, ConnectTyped
  <2>2. ASSUME Finish(c) PROVE ClientTyping'
    BY <1>0, <2>2, FinishTyped
  <2>3. ASSUME /\ c \in Connectors /\ Go(c, "lock_age")
               /\ UNCHANGED <<links, child, replacing>>
        PROVE ClientTyping'
    BY <1>0, <2>3, MoveTyped
  <2> QED BY <1>1, <1>b, <2>1, <2>2, <2>3, TypingSplit DEF Connect
<1>2. CASE CheckLockAge(c)
  <2>1. ClientTyping' BY <1>0, <1>a, <1>2, MoveTyped DEF CheckLockAge, links
  <2> QED BY <1>2, <1>b, <2>1, TypingSplit DEF CheckLockAge
<1>3. CASE DropOldLock(c)
  <2>1. ClientTyping' BY <1>0, <1>a, <1>3, MoveTyped DEF DropOldLock, links
  <2>2. SharedTyping'
    BY <1>0, <1>3 DEF DropOldLock, SharedTyping, NoLock, sockets, daemons, bounds
  <2> QED BY <2>1, <2>2, TypingSplit
<1>4. CASE CreateLock(c)
  <2>1. ClientTyping'
    <3>1. CASE Go(c, "recheck")
      BY <1>0, <1>a, <1>4, <3>1, MoveTyped DEF CreateLock, links
    <3>2. CASE Go(c, "contended")
      BY <1>0, <1>a, <1>4, <3>2, MoveTyped DEF CreateLock, links
    <3> QED BY <1>4, <3>1, <3>2 DEF CreateLock
  <2>2. SharedTyping'
    <3>1. lock' \in [owner : Clients \cup {NoOne}, old : BOOLEAN]
      <4>1. CASE lock' = [owner |-> c, old |-> FALSE] BY <4>1
      <4>2. CASE UNCHANGED lock BY <1>0, <4>2 DEF SharedTyping
      <4> QED BY <1>4, <4>1, <4>2 DEF CreateLock
    <3> QED
      BY <1>0, <1>4, <3>1 DEF CreateLock, SharedTyping, sockets, daemons, bounds
  <2> QED BY <2>1, <2>2, TypingSplit
<1>5. CASE Recheck(c)
  <2>1. ASSUME Answering /\ ConnectTo(c, "unlock")
        PROVE ClientTyping'
    BY <1>0, <1>a, <1>5, <2>1, ConnectTyped DEF Recheck
  <2>2. ASSUME Go(c, "spawn") /\ UNCHANGED <<links, child, replacing>>
        PROVE ClientTyping'
    BY <1>0, <1>a, <1>5, <2>2, MoveTyped DEF Recheck
  <2> QED BY <1>5, <1>b, <2>1, <2>2, TypingSplit DEF Recheck
<1>6. CASE \E d \in Daemons : Spawn(c, d)
  <2>1. PICK d \in Daemons : Spawn(c, d) BY <1>6
  <2>2. c \in Connectors BY <1>a, <2>1 DEF Spawn
  <2>3. ClientTyping'
    BY <1>0, <2>1, <2>2 DEF Spawn, Go, ClientTyping, StoppersDoNotSpawn, links
  <2>4. SharedTyping'
    BY <1>0, <2>1, <2>2
    DEF Spawn, GoDaemon, SharedTyping, DaemonSteps, sockets, bounds
  <2> QED BY <2>3, <2>4, TypingSplit
<1>7. CASE SpawnFails(c)
  BY <1>0, <1>a, <1>b, <1>7, EndSpawnTyped, TypingSplit DEF SpawnFails
<1>8. CASE WaitConnect(c)
  <2>1. ASSUME /\ Answering
               /\ ConnectTo(c, IF replacing[c] THEN "rehandshake" ELSE "unlock")
        PROVE ClientTyping'
    <3>1. ASSUME Answering /\ ConnectTo(c, "rehandshake")
          PROVE ClientTyping'
      BY <1>0, <1>a, <1>8, <3>1, ConnectTyped DEF WaitConnect
    <3>2. ASSUME Answering /\ ConnectTo(c, "unlock")
          PROVE ClientTyping'
      BY <1>0, <1>a, <1>8, <3>2, ConnectTyped DEF WaitConnect
    <3> QED BY <2>1, <3>1, <3>2
  <2>2. ASSUME Go(c, "wait_child") /\ UNCHANGED <<links, child, replacing>>
        PROVE ClientTyping'
    BY <1>0, <1>a, <1>8, <2>2, MoveTyped DEF WaitConnect, ClientTyping
  <2> QED BY <1>8, <1>b, <2>1, <2>2, TypingSplit DEF WaitConnect
<1>9. CASE WaitChild(c)
  <2>1. ASSUME EndSpawn(c)
        PROVE ClientTyping'
    BY <1>0, <1>a, <1>9, <2>1, EndSpawnTyped DEF WaitChild
  <2>2. ASSUME Go(c, "wait") /\ UNCHANGED <<links, child, replacing>>
        PROVE ClientTyping'
    BY <1>0, <1>a, <1>9, <2>2, MoveTyped DEF WaitChild, ClientTyping
  <2> QED BY <1>9, <1>b, <2>1, <2>2, TypingSplit DEF WaitChild
<1>10. CASE Unlock(c)
  <2>1. SharedTyping'
    BY <1>0, <1>10 DEF Unlock, SharedTyping, NoLock, sockets, daemons, bounds
  <2>2. CASE Finish(c) BY <1>0, <2>1, <2>2, FinishTyped, TypingSplit
  <2>3. CASE /\ conn[c] # NoOne /\ Go(c, "handshake")
             /\ UNCHANGED <<links, child, replacing>>
    BY <1>0, <2>1, <2>3, MoveTyped, TypingSplit DEF ClientTyping
  <2> QED BY <1>10, <2>2, <2>3 DEF Unlock
<1>11. CASE WaitForOther(c)
  <2>1. ASSUME Answering /\ ConnectTo(c, "handshake")
        PROVE ClientTyping'
    BY <1>0, <2>1, ConnectTyped
  <2>2. ASSUME Finish(c) PROVE ClientTyping'
    BY <1>0, <2>2, FinishTyped
  <2> QED BY <1>11, <1>b, <2>1, <2>2, TypingSplit DEF WaitForOther
<1>12. CASE Handshake(c)
  <2>1. ASSUME Finish(c) PROVE ClientTyping'
    BY <1>0, <2>1, FinishTyped
  <2>2. ASSUME Go(c, "ask_stop") /\ UNCHANGED <<links, child, replacing>>
        PROVE ClientTyping'
    BY <1>0, <1>12, <2>2, MoveTyped DEF Handshake, ClientTyping
  <2> QED BY <1>12, <1>b, <2>1, <2>2, TypingSplit DEF Handshake
<1>13. CASE AskStop(c)
  <2>1. SharedTyping'
    BY <1>0, <1>13
    DEF AskStop, SharedTyping, DaemonSteps, sockets, bounds
  <2>2. CASE Finish(c) BY <1>0, <2>1, <2>2, FinishTyped, TypingSplit
  <2>3. CASE /\ Disconnect(c) /\ Go(c, "wait_closed")
             /\ UNCHANGED <<child, replacing>>
    <3>1. ClientTyping'
      BY <1>0, <2>3 DEF ClientTyping, StoppersDoNotSpawn, Disconnect, Go
    <3> QED BY <2>1, <3>1, TypingSplit
  <2> QED BY <1>13, <2>2, <2>3 DEF AskStop
<1>14. CASE WaitClosed(c)
  <2>1. ASSUME Finish(c) PROVE ClientTyping'
    BY <1>0, <2>1, FinishTyped
  <2>2. ASSUME /\ c \in Connectors
               /\ replacing' = [replacing EXCEPT ![c] = TRUE]
               /\ Go(c, "spawn") /\ UNCHANGED <<links, child>>
        PROVE ClientTyping'
    BY <1>0, <2>2 DEF ClientTyping, StoppersDoNotSpawn, Go, links
  <2> QED BY <1>14, <1>b, <2>1, <2>2, TypingSplit DEF WaitClosed
<1>15. CASE Rehandshake(c)
  BY <1>0, <1>b, <1>15, FinishTyped, TypingSplit DEF Rehandshake
<1>16. CASE Begin(c)
  <2>1. ClientTyping' BY <1>0, <1>16, MoveTyped DEF Begin, links
  <2>2. SharedTyping'
    BY <1>0, <1>16, EndpointAssumption DEF Begin, SharedTyping, sockets, daemons
  <2> QED BY <2>1, <2>2, TypingSplit
<1>17. CASE GiveUpWait(c)
  <2>1. ClientTyping'
    BY <1>0, <1>a, <1>17, EndSpawnTyped DEF GiveUpWait
  <2>2. SharedTyping'
    BY <1>0, <1>17, EndpointAssumption
    DEF GiveUpWait, SharedTyping, sockets, daemons
  <2> QED BY <2>1, <2>2, TypingSplit
<1>18. CASE KillClient(c)
  <2>1. ClientTyping' BY <1>0, <1>18, FinishTyped DEF KillClient
  <2>2. SharedTyping'
    BY <1>0, <1>18, EndpointAssumption
    DEF KillClient, SharedTyping, sockets, daemons
  <2> QED BY <2>1, <2>2, TypingSplit
<1> QED BY <1>1, <1>2, <1>3, <1>4, <1>5, <1>6, <1>7, <1>8, <1>9, <1>10,
           <1>11, <1>12, <1>13, <1>14, <1>15, <1>16, <1>17, <1>18
        DEF ClientStep

LEMMA TypingNext == Typing /\ [Next]_vars => Typing'
<1> SUFFICES ASSUME Typing, [Next]_vars PROVE Typing'
  OBVIOUS
<1>1. CASE AgeLock
  BY <1>1 DEF AgeLock, Typing, TypeOK, StoppersDoNotSpawn, sockets, daemons,
              links, clients, bounds
<1>2. CASE UNCHANGED vars
  BY <1>2 DEF vars, Typing, TypeOK, StoppersDoNotSpawn, sockets, daemons,
              links, clients, bounds
<1> QED BY <1>1, <1>2, TypingDaemon, TypingClient DEF Next

\* Paths, locks, program counters and links keep their types: a client that
\* talks to a daemon has a stream, one that waits for a child has one.
THEOREM Typed == Spec => []TypeOK
<1>1. Typing => TypeOK BY DEF Typing
<1> QED BY TypingInit, TypingNext, <1>1, PTL DEF Spec

-----------------------------------------------------------------------------
\* The socket the path names belongs to a daemon that has not closed, knows
\* it for its own once it has recorded it, and will remove it.
OwnerIsAlive ==
    kills = 0 =>
        \A d \in Daemons : path = d =>
            \/ dpc[d] \in {"listen", "record"}
            \/ dpc[d] \in {"serving", "drain", "remove"} /\ inode[d] = d

LEMMA OwnerInit == Init => OwnerIsAlive
BY EndpointAssumption DEF Init, OwnerIsAlive

\* A daemon's step keeps the owner of the path alive unless it is a kill.
LEMMA OwnerDaemon ==
    ASSUME Typing, OwnerIsAlive, NEW d \in Daemons,
           DaemonStep(d) \/ StopServing(d) \/ KillDaemon(d)
    PROVE  OwnerIsAlive'
<1> USE EndpointAssumption
    DEF Typing, TypeOK, OwnerIsAlive, GoDaemon, Exit, sockets, bounds
<1>1. CASE Probe(d) BY <1>1 DEF Probe
<1>2. CASE Clear(d) BY <1>2 DEF Clear
<1>3. CASE Bind(d) BY <1>3 DEF Bind
<1>4. CASE Listen(d) BY <1>4 DEF Listen
<1>5. CASE Record(d) BY <1>5 DEF Record
<1>6. CASE \E c \in Clients : Accept(d, c) BY <1>6 DEF Accept, daemons
<1>7. CASE CheckOwn(d) BY <1>7 DEF CheckOwn
<1>8. CASE RemoveOwn(d) BY <1>8 DEF RemoveOwn
<1>9. CASE Close(d) BY <1>9 DEF Close
<1>10. CASE StopServing(d) BY <1>10 DEF StopServing
<1>11. CASE KillDaemon(d) BY <1>11 DEF KillDaemon
<1> QED BY <1>1, <1>2, <1>3, <1>4, <1>5, <1>6, <1>7, <1>8, <1>9, <1>10,
           <1>11 DEF DaemonStep

\* A client starts a daemon that owns nothing yet, or ends an accept loop.
LEMMA OwnerClient ==
    ASSUME Typing, OwnerIsAlive, NEW c \in Clients,
           ClientStep(c) \/ Begin(c) \/ GiveUpWait(c) \/ KillClient(c)
    PROVE  OwnerIsAlive'
<1>1. CASE \E d \in Daemons : Spawn(c, d)
  BY <1>1 DEF Spawn, GoDaemon, Typing, TypeOK, OwnerIsAlive, sockets, bounds
<1>2. CASE AskStop(c)
  BY <1>2 DEF AskStop, Typing, TypeOK, OwnerIsAlive, sockets, bounds
<1>3. CASE KillClient(c)
  BY <1>3, EndpointAssumption DEF KillClient, Typing, TypeOK, OwnerIsAlive
<1>4. CASE UNCHANGED <<path, dpc, inode, kills>>
  BY <1>4 DEF OwnerIsAlive
<1> QED
  BY <1>1, <1>2, <1>3, <1>4
  DEF ClientStep, Connect, CheckLockAge, DropOldLock, CreateLock, Recheck,
      SpawnFails, WaitConnect, WaitChild, Unlock, WaitForOther, Handshake,
      WaitClosed, Rehandshake, Begin, GiveUpWait, sockets, daemons, bounds

LEMMA OwnerNext == Typing /\ OwnerIsAlive /\ [Next]_vars => OwnerIsAlive'
<1> SUFFICES ASSUME Typing, OwnerIsAlive, [Next]_vars PROVE OwnerIsAlive'
  OBVIOUS
<1>1. CASE UNCHANGED <<path, dpc, inode, kills>>
  BY <1>1 DEF OwnerIsAlive
<1> QED BY <1>1, OwnerDaemon, OwnerClient
        DEF Next, AgeLock, vars, sockets, daemons, bounds

\* A socket file without its daemon was left by a process that was killed:
\* orderly starts and stops, in any order and any number, remove theirs.
THEOREM OnlyKillsLeaveSockets == Spec => []LeftoverMeansKill
<1>1. Typing /\ OwnerIsAlive => LeftoverMeansKill
  BY DEF Typing, TypeOK, OwnerIsAlive, LeftoverMeansKill
<1> QED BY TypingInit, TypingNext, OwnerInit, OwnerNext, <1>1, PTL DEF Spec

-----------------------------------------------------------------------------
\* Without kills the lock file and the clients under it agree: the file
\* exists exactly while its creator is between creation and removal, so it
\* never ages and nobody drops it.
LockMatchesHolder ==
    /\ kills = 0
    /\ ~lock.old
    /\ \A c \in Clients :
         /\ UnderLock(c) <=> lock.owner = c
         /\ cpc[c] # "lock_drop"
         /\ replacing[c] =>
                cpc[c] \in {"spawn", "wait", "wait_child", "rehandshake"}

LEMMA LockInit == Init => LockMatchesHolder
BY EndpointAssumption DEF Init, LockMatchesHolder, UnderLock, NoLock

\* A client that stays on its side of the lock, while the file stays.
LEMMA LockKept ==
    ASSUME Typing, LockMatchesHolder, UNCHANGED <<lock, kills>>,
           NEW c \in Clients,
           \A e \in Clients \ {c} : /\ cpc'[e] = cpc[e]
                                   /\ replacing'[e] = replacing[e],
           UnderLock(c)' <=> UnderLock(c),
           cpc'[c] # "lock_drop",
           replacing'[c] =>
               cpc'[c] \in {"spawn", "wait", "wait_child", "rehandshake"}
    PROVE  LockMatchesHolder'
BY DEF LockMatchesHolder, UnderLock

\* The client's own place after a move and after the end of a command.
LEMMA Moved ==
    ASSUME Typing, NEW c \in Clients, NEW step, Go(c, step),
           UNCHANGED replacing
    PROVE  /\ cpc'[c] = step /\ replacing'[c] = replacing[c]
           /\ \A e \in Clients \ {c} : /\ cpc'[e] = cpc[e]
                                      /\ replacing'[e] = replacing[e]
BY DEF Typing, TypeOK, Go

LEMMA Finished ==
    ASSUME Typing, NEW c \in Clients, Finish(c)
    PROVE  /\ cpc'[c] = "idle" /\ ~replacing'[c]
           /\ \A e \in Clients \ {c} : /\ cpc'[e] = cpc[e]
                                      /\ replacing'[e] = replacing[e]
BY DEF Typing, TypeOK, Finish, Go

\* A spawn that ends: a replacement was never under the lock, any other
\* client goes on to remove it.
LEMMA LockEndSpawn ==
    ASSUME Typing, LockMatchesHolder, NEW c \in Clients, EndSpawn(c),
           cpc[c] \in {"spawn", "wait", "wait_child"},
           UNCHANGED <<lock, kills>>
    PROVE  LockMatchesHolder'
<1>1. CASE replacing[c]
  BY <1>1, Finished, LockKept DEF EndSpawn, UnderLock
<1>2. CASE ~replacing[c]
  BY <1>2, Moved, LockKept DEF EndSpawn, UnderLock
<1> QED BY <1>1, <1>2

LEMMA LockClient ==
    ASSUME Typing, LockMatchesHolder, kills' = 0, NEW c \in Clients,
           ClientStep(c) \/ Begin(c) \/ GiveUpWait(c) \/ KillClient(c)
    PROVE  LockMatchesHolder'
<1>a. replacing[c] => cpc[c] \in {"spawn", "wait", "wait_child", "rehandshake"}
  BY DEF LockMatchesHolder
<1> USE DEF UnderLock, links, bounds
<1>1. CASE Connect(c)
  BY <1>1, <1>a, Moved, Finished, LockKept DEF Connect, ConnectTo
<1>2. CASE CheckLockAge(c)
  <2>1. Go(c, "lock_create") BY <1>2 DEF CheckLockAge, LockMatchesHolder
  <2> QED BY <1>2, <1>a, <2>1, Moved, LockKept DEF CheckLockAge
<1>3. CASE DropOldLock(c)
  BY <1>3 DEF DropOldLock, LockMatchesHolder
<1>4. CASE CreateLock(c)
  <2>1. CASE lock = NoLock /\ lock' = [owner |-> c, old |-> FALSE]
                          /\ Go(c, "recheck")
    BY <1>4, <1>a, <2>1, Moved, EndpointAssumption
    DEF CreateLock, LockMatchesHolder, NoLock
  <2>2. CASE Go(c, "contended") /\ UNCHANGED lock
    BY <1>4, <1>a, <2>2, Moved, LockKept DEF CreateLock
  <2> QED BY <1>4, <2>1, <2>2 DEF CreateLock
<1>5. CASE Recheck(c)
  BY <1>5, <1>a, Moved, LockKept DEF Recheck, ConnectTo
<1>6. CASE \E d \in Daemons : Spawn(c, d)
  BY <1>6, <1>a, Moved, LockKept DEF Spawn
<1>7. CASE SpawnFails(c)
  BY <1>7, LockEndSpawn DEF SpawnFails
<1>8. CASE WaitConnect(c)
  BY <1>8, <1>a, Moved, LockKept DEF WaitConnect, ConnectTo
<1>9. CASE WaitChild(c)
  BY <1>9, <1>a, Moved, LockKept, LockEndSpawn DEF WaitChild
<1>10. CASE Unlock(c)
  <2>1. lock.owner = c /\ lock' = NoLock /\ kills' = kills
    BY <1>10, <1>a DEF Unlock, LockMatchesHolder
  <2>2. /\ cpc'[c] \in {"idle", "handshake"} /\ ~replacing'[c]
        /\ \A e \in Clients \ {c} : /\ cpc'[e] = cpc[e]
                                   /\ replacing'[e] = replacing[e]
    BY <1>10, <1>a, Moved, Finished DEF Unlock
  <2> QED BY <2>1, <2>2, EndpointAssumption DEF LockMatchesHolder, NoLock
<1>11. CASE WaitForOther(c)
  BY <1>11, <1>a, Moved, Finished, LockKept DEF WaitForOther, ConnectTo
<1>12. CASE Handshake(c)
  BY <1>12, <1>a, Moved, Finished, LockKept DEF Handshake
<1>13. CASE AskStop(c)
  BY <1>13, <1>a, Moved, Finished, LockKept DEF AskStop
<1>14. CASE WaitClosed(c)
  <2>1. CASE Finish(c)
    BY <1>14, <1>a, <2>1, Finished, LockKept DEF WaitClosed
  <2>2. CASE replacing' = [replacing EXCEPT ![c] = TRUE] /\ Go(c, "spawn")
    <3>1. /\ cpc'[c] = "spawn" /\ replacing'[c]
          /\ \A e \in Clients \ {c} : /\ cpc'[e] = cpc[e]
                                     /\ replacing'[e] = replacing[e]
      BY <2>2 DEF Typing, TypeOK, Go
    <3> QED BY <1>14, <3>1, LockKept DEF WaitClosed
  <2> QED BY <1>14, <2>1, <2>2 DEF WaitClosed
<1>15. CASE Rehandshake(c)
  BY <1>15, Finished, LockKept DEF Rehandshake
<1>16. CASE Begin(c)
  BY <1>16, <1>a, Moved, LockKept DEF Begin
<1>17. CASE GiveUpWait(c)
  BY <1>17, LockEndSpawn DEF GiveUpWait
<1>18. CASE KillClient(c)
  BY <1>18 DEF KillClient, LockMatchesHolder
<1> QED BY <1>1, <1>2, <1>3, <1>4, <1>5, <1>6, <1>7, <1>8, <1>9, <1>10,
           <1>11, <1>12, <1>13, <1>14, <1>15, <1>16, <1>17, <1>18
        DEF ClientStep

\* Kills are counted and never taken back.
LEMMA KillsGrow == Typing /\ [Next]_vars /\ kills' = 0 => kills = 0
<1> SUFFICES ASSUME Typing, [Next]_vars PROVE kills' \in {kills, kills + 1}
  BY DEF Typing, TypeOK
<1> USE DEF bounds
<1>1. ASSUME NEW c \in Clients, Begin(c) \/ GiveUpWait(c) \/ KillClient(c)
      PROVE  kills' \in {kills, kills + 1}
  BY <1>1 DEF Begin, GiveUpWait, KillClient
<1>2. ASSUME NEW c \in Clients, ClientStep(c) PROVE kills' = kills
  BY <1>2
  DEF ClientStep, Connect, CheckLockAge, DropOldLock, CreateLock, Recheck, Spawn,
      SpawnFails, WaitConnect, WaitChild, Unlock, WaitForOther, Handshake, AskStop,
      WaitClosed, Rehandshake
<1>3. ASSUME NEW d \in Daemons, DaemonStep(d) \/ StopServing(d) \/ KillDaemon(d)
      PROVE  kills' \in {kills, kills + 1}
  BY <1>3 DEF DaemonStep, StopServing, Probe, Clear, Bind, Listen, Record, Accept,
     CheckOwn, RemoveOwn, Close, KillDaemon
<1>4. CASE AgeLock BY <1>4 DEF AgeLock
<1>5. CASE UNCHANGED vars BY <1>5 DEF vars
<1> QED BY <1>1, <1>2, <1>3, <1>4, <1>5 DEF Next

LEMMA LockNext ==
    Typing /\ LockMatchesHolder /\ [Next]_vars /\ kills' = 0 => LockMatchesHolder'
<1> SUFFICES ASSUME Typing, LockMatchesHolder, [Next]_vars, kills' = 0
             PROVE  LockMatchesHolder'
  OBVIOUS
<1>1. CASE UNCHANGED <<lock, kills, cpc, replacing>>
  BY <1>1 DEF LockMatchesHolder, UnderLock
<1>2. ASSUME NEW d \in Daemons, DaemonStep(d) \/ StopServing(d) \/ KillDaemon(d)
      PROVE  LockMatchesHolder'
  <2>1. ~KillDaemon(d) BY DEF KillDaemon, LockMatchesHolder
  <2> QED
    BY <1>1, <1>2, <2>1
    DEF DaemonStep, StopServing, Probe, Clear, Bind, Listen, Record, Accept,
        CheckOwn, RemoveOwn, Close, clients, bounds
<1>3. ~AgeLock
  <2> SUFFICES ASSUME AgeLock PROVE FALSE
    OBVIOUS
  <2>1. lock \in [owner : Clients \cup {NoOne}, old : BOOLEAN] /\ ~lock.old
    BY DEF Typing, TypeOK, LockMatchesHolder
  <2>2. CASE lock.owner \in Clients
    BY <2>2 DEF AgeLock, LockMatchesHolder
  <2>3. CASE lock.owner = NoOne
    <3>1. lock = [owner |-> NoOne, old |-> FALSE] BY <2>1, <2>3
    <3> QED BY <3>1 DEF AgeLock, NoLock
  <2> QED BY <2>1, <2>2, <2>3
<1> QED
  BY <1>1, <1>2, <1>3, LockClient DEF Next, vars, clients, bounds

\* Until a process is killed at most one client at a time is between the
\* creation and the removal of the spawn lock, however late daemons start.
THEOREM SpawnLockExcludes == Spec => []OneSpawner
<1> DEFINE Inv == kills = 0 => LockMatchesHolder
<1>1. Typing /\ Inv => OneSpawner
  BY DEF LockMatchesHolder, OneSpawner
<1>2. Typing /\ Inv /\ [Next]_vars => Inv'
  BY LockNext, KillsGrow
<1>3. Init => Inv BY LockInit
<1> HIDE DEF Inv
<1> QED BY TypingInit, TypingNext, <1>1, <1>2, <1>3, PTL DEF Spec

-----------------------------------------------------------------------------
\* One client connects, it is not killed, and a daemon it starts opens its
\* endpoint before the client gives up on it.  Any number of daemon-shutdown
\* commands and kills of daemons remain.
OneClient ==
    /\ \A a, b \in Connectors : a = b
    /\ Killable \cap Connectors = {}
    /\ MaxSlowStarts = 0

\* Steps of a daemon before its endpoint is open.
Unopened == {"probe", "clear", "bind", "listen"}

\* A daemon owns the path from its bind to its removal and listens from then
\* to its end.  One that is not open yet has the client waiting for it, and
\* nobody answers on the path: the client looked before it spawned, and no
\* other daemon can have come up since.
PathOwned ==
    /\ \A d \in Daemons :
         /\ d \in listening <=>
                dpc[d] \in {"record", "serving", "drain", "remove", "close"}
         /\ dpc[d] \in {"listen", "record", "serving", "drain", "remove"} =>
                path = d
         /\ dpc[d] \in {"serving", "drain", "remove"} => inode[d] = d
         /\ dpc[d] \in Unopened =>
                /\ ~Answering
                /\ \E c \in Connectors :
                      cpc[c] \in {"wait", "wait_child"} /\ child[c] = d
    /\ \A c \in Connectors : cpc[c] = "spawn" => ~Answering

\* At the start no process runs and the path is free.
LEMMA PathInit == Init => PathOwned
BY EndpointAssumption DEF Init, PathOwned, Unopened, Answering, Clients

\* The one client waits for at most one daemon, and then spawns none.
LEMMA OneUnopened ==
    ASSUME OneClient, PathOwned, NEW d \in Daemons, dpc[d] \in Unopened
    PROVE  /\ \A e \in Daemons : dpc[e] \in Unopened => e = d
           /\ \A c \in Connectors : cpc[c] # "spawn"
BY DEF OneClient, PathOwned

\* A daemon's step: it clears the path only of a dead daemon's socket.
LEMMA PathDaemon ==
    ASSUME OneClient, Typing, PathOwned, NEW d \in Daemons,
           DaemonStep(d) \/ StopServing(d) \/ KillDaemon(d)
    PROVE  PathOwned'
<1> USE EndpointAssumption
    DEF Typing, TypeOK, PathOwned, Answering, Unopened, GoDaemon, Exit,
        sockets, daemons, clients, links
<1>1. CASE Probe(d) BY <1>1 DEF Probe
<1>2. CASE Clear(d)
  <2>1. \A e \in Daemons : dpc[e] \in Unopened => e = d
    BY <1>2, OneUnopened DEF Clear
  <2> QED BY <1>2, <2>1 DEF Clear
<1>3. CASE Bind(d)
  <2>1. /\ \A e \in Daemons : dpc[e] \in Unopened => e = d
        /\ \A c \in Connectors : cpc[c] # "spawn"
    BY <1>3, OneUnopened DEF Bind
  <2> QED BY <1>3, <2>1 DEF Bind
<1>4. CASE Listen(d)
  <2>1. /\ \A e \in Daemons : dpc[e] \in Unopened => e = d
        /\ \A c \in Connectors : cpc[c] # "spawn"
    BY <1>4, OneUnopened DEF Listen
  <2> QED BY <1>4, <2>1 DEF Listen
<1>5. CASE Record(d) BY <1>5 DEF Record
<1>6. CASE \E c \in Clients : Accept(d, c) BY <1>6 DEF Accept
<1>7. CASE CheckOwn(d) BY <1>7 DEF CheckOwn
<1>8. CASE RemoveOwn(d) BY <1>8 DEF RemoveOwn
<1>9. CASE Close(d) BY <1>9 DEF Close
<1>10. CASE StopServing(d) BY <1>10 DEF StopServing
<1>11. CASE KillDaemon(d) BY <1>11 DEF KillDaemon
<1> QED BY <1>1, <1>2, <1>3, <1>4, <1>5, <1>6, <1>7, <1>8, <1>9, <1>10,
           <1>11 DEF DaemonStep

\* A client that does not wait for an unopened daemon may go anywhere but to
\* a spawn.
LEMMA PathClientMoves ==
    ASSUME Typing, PathOwned, NEW c \in Clients,
           UNCHANGED <<path, listening, dpc, inode>>,
           \A e \in Clients \ {c} : cpc'[e] = cpc[e] /\ child'[e] = child[e],
           cpc'[c] # "spawn",
           \/ cpc'[c] \in {"wait", "wait_child"} /\ child'[c] = child[c]
           \/ \A d \in Daemons : dpc[d] \in Unopened =>
                 ~(cpc[c] \in {"wait", "wait_child"} /\ child[c] = d)
    PROVE  PathOwned'
BY DEF PathOwned, Answering, Clients

\* The others stay where they are while c goes to one of the steps in S.
OnlyClient(c, S) ==
    /\ cpc'[c] \in S
    /\ \A e \in Clients \ {c} : cpc'[e] = cpc[e] /\ child'[e] = child[e]

LEMMA FinishAlone ==
    ASSUME Typing, NEW c \in Clients, Finish(c)
    PROVE  OnlyClient(c, {"idle"})
BY DEF Typing, TypeOK, Finish, Go, OnlyClient

LEMMA GoAlone ==
    ASSUME Typing, NEW c \in Clients, NEW s, Go(c, s), UNCHANGED child
    PROVE  OnlyClient(c, {s})
BY DEF Typing, TypeOK, Go, OnlyClient

\* A client that was not waiting, or has nothing to wait for any more.
LEMMA PathLeaves ==
    ASSUME Typing, PathOwned, NEW c \in Clients, NEW S,
           UNCHANGED <<path, listening, dpc, inode>>,
           OnlyClient(c, S), "spawn" \notin S,
           \/ cpc[c] \notin {"wait", "wait_child"}
           \/ dpc[child[c]] \notin Unopened
           \/ Answering
    PROVE  PathOwned'
<1>1. ASSUME NEW d \in Daemons, dpc[d] \in Unopened,
             cpc[c] \in {"wait", "wait_child"}, child[c] = d
      PROVE  FALSE
  BY <1>1 DEF PathOwned
<1>2. cpc'[c] # "spawn"
  BY DEF OnlyClient
<1> QED BY <1>1, <1>2, PathClientMoves DEF OnlyClient

\* A client that saw nobody answer goes on to spawn.
LEMMA PathToSpawn ==
    ASSUME Typing, PathOwned, NEW c \in Clients,
           UNCHANGED <<path, listening, dpc, inode>>,
           OnlyClient(c, {"spawn"}), ~Answering,
           cpc[c] \notin {"wait", "wait_child"}
    PROVE  PathOwned'
BY DEF PathOwned, OnlyClient, Answering, Clients

\* The end of a spawn.
LEMMA EndSpawnAlone ==
    ASSUME Typing, NEW c \in Clients, EndSpawn(c)
    PROVE  OnlyClient(c, {"idle", "unlock"})
<1>1. CASE Finish(c) BY <1>1, FinishAlone DEF OnlyClient
<1>2. CASE Go(c, "unlock") /\ UNCHANGED child
  BY <1>2, GoAlone DEF OnlyClient
<1> QED BY <1>1, <1>2 DEF EndSpawn

\* A client's step: it leaves no daemon it started before that daemon is open
\* or dead.
LEMMA PathClient ==
    ASSUME OneClient, Typing, PathOwned, NEW c \in Clients,
           ClientStep(c) \/ Begin(c) \/ GiveUpWait(c) \/ KillClient(c)
    PROVE  PathOwned'
<1> DEFINE Still == UNCHANGED <<path, listening, dpc, inode>>
           Idles == cpc[c] \notin {"wait", "wait_child"}
<1>1. CASE Connect(c)
  <2>1. Still /\ Idles BY <1>1 DEF Connect, sockets, daemons
  <2>2. OnlyClient(c, {"handshake", "lock_age", "idle"})
    BY <1>1, FinishAlone, GoAlone DEF Connect, ConnectTo, OnlyClient
  <2> QED BY <2>1, <2>2, PathLeaves
<1>2. CASE CheckLockAge(c) \/ DropOldLock(c) \/ CreateLock(c)
  <2>1. Still /\ Idles
    BY <1>2 DEF CheckLockAge, DropOldLock, CreateLock, sockets, daemons
  <2>2. OnlyClient(c, {"lock_drop", "lock_create", "recheck", "contended"})
    BY <1>2, GoAlone
    DEF CheckLockAge, DropOldLock, CreateLock, OnlyClient
  <2> QED BY <2>1, <2>2, PathLeaves
<1>3. CASE Recheck(c)
  <2>1. Still /\ Idles BY <1>3 DEF Recheck, sockets, daemons
  <2>2. CASE Answering
    <3>1. OnlyClient(c, {"unlock"})
      BY <1>3, <2>2, GoAlone DEF Recheck, ConnectTo
    <3> QED BY <2>1, <3>1, PathLeaves
  <2>3. CASE ~Answering
    <3>1. OnlyClient(c, {"spawn"}) BY <1>3, <2>3, GoAlone DEF Recheck
    <3> QED BY <2>1, <2>3, <3>1, PathToSpawn
  <2> QED BY <2>2, <2>3
<1>4. ASSUME NEW d \in Daemons, Spawn(c, d) PROVE PathOwned'
  <2>1. /\ dpc' = [dpc EXCEPT ![d] = "probe"] /\ cpc[c] = "spawn"
        /\ dpc[d] = "unborn"
        /\ UNCHANGED <<path, listening, inode>>
    BY <1>4 DEF Spawn, GoDaemon, sockets
  <2>2. cpc'[c] = "wait" /\ child'[c] = d
    BY <1>4 DEF Spawn, Go, Typing, TypeOK
  <2>3. c \in Connectors
    BY <2>1 DEF Typing, StoppersDoNotSpawn, ConnectorSteps, ClientSteps
  <2>4. ~Answering
    BY <2>1, <2>3 DEF PathOwned
  <2>5. \A e \in Daemons : dpc[e] \notin Unopened
    BY <2>1, <2>3, OneUnopened
  <2>6. \A e \in Daemons :
           e # d => dpc'[e] = dpc[e] /\ dpc'[e] \notin Unopened
    BY <2>1, <2>5 DEF Typing, TypeOK
  <2>7. dpc'[d] = "probe"
    BY <2>1 DEF Typing, TypeOK
  <2>8. \A b \in Connectors : b = c
    BY <2>3 DEF OneClient
  <2> QED
    BY <2>1, <2>2, <2>3, <2>4, <2>6, <2>7, <2>8
    DEF PathOwned, Answering, Unopened
<1>5. CASE SpawnFails(c)
  <2>1. Still /\ Idles /\ EndSpawn(c)
    BY <1>5 DEF SpawnFails, sockets, daemons
  <2> QED BY <2>1, EndSpawnAlone, PathLeaves
<1>6. CASE WaitConnect(c)
  <2>1. Still BY <1>6 DEF WaitConnect, sockets, daemons
  <2>2. CASE Answering
    <3>1. OnlyClient(c, {"rehandshake", "unlock"})
      BY <1>6, <2>2, GoAlone DEF WaitConnect, ConnectTo, OnlyClient
    <3> QED BY <2>1, <2>2, <3>1, PathLeaves
  <2>3. CASE ~Answering
    <3>1. OnlyClient(c, {"wait_child"}) /\ child' = child
      BY <1>6, <2>3, GoAlone DEF WaitConnect
    <3> QED BY <2>1, <3>1, PathClientMoves DEF OnlyClient
  <2> QED BY <2>2, <2>3
<1>7. CASE WaitChild(c)
  <2>1. Still BY <1>7 DEF WaitChild, sockets, daemons
  <2>2. CASE dpc[child[c]] = "dead"
    <3>1. EndSpawn(c) BY <1>7, <2>2 DEF WaitChild
    <3> QED BY <2>1, <2>2, <3>1, EndSpawnAlone, PathLeaves DEF Unopened
  <2>3. CASE dpc[child[c]] # "dead"
    <3>1. OnlyClient(c, {"wait"}) /\ child' = child
      BY <1>7, <2>3, GoAlone DEF WaitChild
    <3> QED BY <2>1, <3>1, PathClientMoves DEF OnlyClient
  <2> QED BY <2>2, <2>3
<1>8. CASE GiveUpWait(c)
  <2>1. Still /\ EndSpawn(c) BY <1>8 DEF GiveUpWait, sockets, daemons
  <2>2. ~Starting(child[c])
    BY <1>8 DEF GiveUpWait, OneClient, Typing, TypeOK
  <2> QED BY <2>1, <2>2, EndSpawnAlone, PathLeaves DEF Starting, Unopened
<1>9. CASE Unlock(c) \/ WaitForOther(c) \/ Handshake(c) \/ Rehandshake(c)
  <2>1. Still /\ Idles
    BY <1>9
    DEF Unlock, WaitForOther, Handshake, Rehandshake, sockets, daemons
  <2>2. OnlyClient(c, {"handshake", "ask_stop", "idle"})
    BY <1>9, FinishAlone, GoAlone
    DEF Unlock, WaitForOther, Handshake, Rehandshake, ConnectTo, OnlyClient
  <2> QED BY <2>1, <2>2, PathLeaves
<1>10. CASE AskStop(c)
  <2>1. OnlyClient(c, {"wait_closed", "idle"})
    BY <1>10, FinishAlone, GoAlone DEF AskStop, OnlyClient
  <2>2. cpc[c] = "ask_stop" /\ UNCHANGED <<path, listening, inode>>
    BY <1>10 DEF AskStop, sockets
  <2>3. \A d \in Daemons :
           dpc'[d] = dpc[d] \/ (dpc[d] = "serving" /\ dpc'[d] = "drain")
    BY <1>10 DEF AskStop, Typing, TypeOK
  <2> QED
    BY <2>1, <2>2, <2>3
    DEF PathOwned, OnlyClient, Answering, Unopened, Clients
<1>11. CASE WaitClosed(c)
  <2>1. Still /\ Idles BY <1>11 DEF WaitClosed, sockets, daemons
  <2>2. CASE Finish(c) BY <2>1, <2>2, FinishAlone, PathLeaves
  <2>3. CASE ~Finish(c)
    <3>1. OnlyClient(c, {"spawn"}) /\ ~Answering
      BY <1>11, <2>3, GoAlone DEF WaitClosed
    <3> QED BY <2>1, <3>1, PathToSpawn
  <2> QED BY <2>2, <2>3
<1>12. CASE Begin(c)
  <2>1. Still /\ Idles BY <1>12 DEF Begin, sockets, daemons
  <2>2. OnlyClient(c, {"connect"}) BY <1>12, GoAlone DEF Begin
  <2> QED BY <2>1, <2>2, PathLeaves
<1>13. CASE KillClient(c)
  <2>1. Still /\ Finish(c) BY <1>13 DEF KillClient, sockets, daemons
  <2>2. c \notin Connectors BY <1>13 DEF KillClient, OneClient
  <2>3. Idles
    BY <2>2 DEF Typing, StoppersDoNotSpawn, ConnectorSteps, ClientSteps
  <2> QED BY <2>1, <2>3, FinishAlone, PathLeaves
<1> QED
  BY <1>1, <1>2, <1>3, <1>4, <1>5, <1>6, <1>7, <1>8, <1>9, <1>10, <1>11,
     <1>12, <1>13
  DEF ClientStep

LEMMA PathNext ==
    ASSUME OneClient
    PROVE  Typing /\ PathOwned /\ [Next]_vars => PathOwned'
<1> SUFFICES ASSUME Typing, PathOwned, [Next]_vars PROVE PathOwned'
  OBVIOUS
<1>1. CASE UNCHANGED <<path, listening, dpc, inode, cpc, child>>
  BY <1>1 DEF PathOwned, Answering
<1> QED BY <1>1, PathDaemon, PathClient
        DEF Next, AgeLock, vars, sockets, daemons, clients

\* With one connecting client, and however many daemons are killed or told to
\* stop, a daemon that serves is the one its endpoint leads to: the check of
\* clear_endpoint and the spawn lock are enough for a client alone.
THEOREM OneClientKeepsPath ==
    ASSUME OneClient
    PROVE  Spec => []ListenerKeepsPath
<1>1. PathOwned => ListenerKeepsPath
  BY DEF PathOwned, ListenerKeepsPath
<1> QED BY TypingInit, TypingNext, PathInit, PathNext, <1>1, PTL DEF Spec

\* Under the same assumption what cleanup_socket removes after its check is
\* the stopping daemon's own socket.
THEOREM OneClientCleanup ==
    ASSUME OneClient
    PROVE  Spec => []CleanupSparesOthers
<1>1. PathOwned => CleanupSparesOthers
  BY DEF PathOwned, CleanupSparesOthers
<1> QED BY TypingInit, TypingNext, PathInit, PathNext, <1>1, PTL DEF Spec

=============================================================================
