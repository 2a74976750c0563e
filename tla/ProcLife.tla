------------------------------ MODULE ProcLife ------------------------------
(***************************************************************************)
(* What the process table promises: the life of a slot and its place on a  *)
(* processor, without queues, priorities, channels or system calls.        *)
(***************************************************************************)
CONSTANTS Slots, Cores, None, First

VARIABLES state, cpu

Init ==
  /\ state = [p \in Slots |-> IF p = First THEN "RUNNABLE" ELSE "UNUSED"]
  /\ cpu = [c \in Cores |-> None]

Become(p, from, to) == state[p] = from /\ state' = [state EXCEPT ![p] = to]

\* A slot is claimed, given back, published and, after its death, reaped.
Slot(p) ==
  /\ \/ Become(p, "UNUSED", "EMBRYO")
     \/ Become(p, "EMBRYO", "UNUSED")
     \/ Become(p, "EMBRYO", "RUNNABLE")
     \/ Become(p, "ZOMBIE", "UNUSED") /\ p # First
  /\ UNCHANGED cpu

\* An idle core takes a process that is ready.
Dispatch(c, p) ==
  /\ cpu[c] = None
  /\ Become(p, "RUNNABLE", "RUNNING")
  /\ cpu' = [cpu EXCEPT ![c] = p]

\* Some sleepers wake up.
Awaken(S) ==
  /\ \A p \in S : state[p] = "SLEEPING"
  /\ state' = [p \in Slots |-> IF p \in S THEN "RUNNABLE" ELSE state[p]]
  /\ UNCHANGED cpu

\* The process on core c leaves it; only its death wakes others in the same step.
Leave(c, to, S) ==
  /\ cpu[c] # None /\ state[cpu[c]] = "RUNNING"
  /\ to \in {"RUNNABLE", "SLEEPING", "ZOMBIE"}
  /\ to = "ZOMBIE" => cpu[c] # First
  /\ to # "ZOMBIE" => S = {}
  /\ \A p \in S : state[p] = "SLEEPING"
  /\ state' = [p \in Slots |-> IF p = cpu[c] THEN to
                               ELSE IF p \in S THEN "RUNNABLE" ELSE state[p]]
  /\ cpu' = [cpu EXCEPT ![c] = None]

Next ==
  \/ \E p \in Slots : Slot(p)
  \/ \E c \in Cores, p \in Slots : Dispatch(c, p)
  \/ \E S \in SUBSET Slots : Awaken(S)
  \/ \E c \in Cores, S \in SUBSET Slots, to \in {"RUNNABLE", "SLEEPING", "ZOMBIE"} :
       Leave(c, to, S)

Spec == Init /\ [][Next]_<<state, cpu>>
=============================================================================
