--------------------------- MODULE BridgeService ----------------------------
(***************************************************************************)
(* What a user of the semantic bridge may rely on, without locks, restarts *)
(* or time limits: at most one generation of the bridge is installed, each *)
(* one newer than all before it; a caller that uses one keeps it until it  *)
(* leaves; and one call at a time runs in the CLR, in a generation that    *)
(* its caller used when it began, though perhaps no longer.                *)
(***************************************************************************)
EXTENDS Integers

CONSTANT Callers

VARIABLES current,   \* the generation installed, 0 = none
          newest,    \* the newest generation that was ever installed
          using,     \* the generation each caller uses, 0 = none
          running    \* the calls inside the CLR

vars == <<current, newest, using, running>>

Init ==
    /\ current = 0
    /\ newest = 0
    /\ using = [c \in Callers |-> 0]
    /\ running = {}

\* Generations that were started and never installed leave gaps.
Start ==
    /\ current = 0
    /\ current' > newest
    /\ newest' = current'
    /\ UNCHANGED <<using, running>>

\* A restart or a shutdown takes the bridge down, which its users prevent.
Stop ==
    /\ current # 0
    /\ \A c \in Callers : using[c] = 0
    /\ current' = 0
    /\ UNCHANGED <<newest, using, running>>

Enter(c) ==
    /\ current # 0
    /\ using[c] = 0
    /\ using' = [using EXCEPT ![c] = current]
    /\ UNCHANGED <<current, newest, running>>

Leave(c) ==
    /\ using[c] # 0
    /\ using' = [using EXCEPT ![c] = 0]
    /\ UNCHANGED <<current, newest, running>>

Call(c) ==
    /\ using[c] # 0
    /\ running = {}
    /\ running' = {[caller |-> c, gen |-> using[c]]}
    /\ UNCHANGED <<current, newest, using>>

\* A call ends whenever it likes, long after its caller gave up on it or never.
CallEnds ==
    /\ running # {}
    /\ running' = {}
    /\ UNCHANGED <<current, newest, using>>

Next ==
    \/ Start
    \/ Stop
    \/ \E c \in Callers : Enter(c) \/ Leave(c) \/ Call(c)
    \/ CallEnds

Spec == Init /\ [][Next]_vars
=============================================================================
