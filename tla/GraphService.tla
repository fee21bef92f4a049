---------------------------- MODULE GraphService ----------------------------
(***************************************************************************)
(* What a caller of get_or_build_call_graph may rely on, without locks,    *)
(* caches or builds: the workspace has a version, edits are acknowledged   *)
(* some time after they change it, and a caller that asks is answered with *)
(* a graph of some version between the one acknowledged when it asked and  *)
(* the current one, or with none.  The answer does not change while the    *)
(* caller keeps it.                                                        *)
(***************************************************************************)
EXTENDS Integers

CONSTANT Callers

VARIABLES version, acked, call

vars == <<version, acked, call>>

Idle == [at |-> "idle", need |-> 0, got |-> 0]

Init ==
    /\ version = 0
    /\ acked = 0
    /\ call = [c \in Callers |-> Idle]

Change ==
    /\ version' = version + 1
    /\ UNCHANGED <<acked, call>>

Acknowledge ==
    /\ acked' \in acked..version
    /\ UNCHANGED <<version, call>>

Ask(c) ==
    /\ call[c] = Idle
    /\ call' = [call EXCEPT ![c] = [at |-> "asked", need |-> acked, got |-> 0]]
    /\ UNCHANGED <<version, acked>>

Answer(c) ==
    /\ call[c].at = "asked"
    /\ \E v \in call[c].need..version :
          call' = [call EXCEPT ![c].at = "answered", ![c].got = v]
    /\ UNCHANGED <<version, acked>>

\* An invalidation ran between the build and the hand-over.
AnswerEmpty(c) ==
    /\ call[c].at = "asked"
    /\ call' = [call EXCEPT ![c].at = "empty"]
    /\ UNCHANGED <<version, acked>>

\* The guard is dropped, or the request failed.
Release(c) ==
    /\ call[c] # Idle
    /\ call' = [call EXCEPT ![c] = Idle]
    /\ UNCHANGED <<version, acked>>

Next ==
    \/ Change
    \/ Acknowledge
    \/ \E c \in Callers : Ask(c) \/ Answer(c) \/ AnswerEmpty(c) \/ Release(c)

Spec == Init /\ [][Next]_vars
=============================================================================
