----------------------------- MODULE AtomicDisk -----------------------------
(***************************************************************************)
(* What the log promises: operations change the contents that the system   *)
(* sees, and a crash takes the disk back to a moment at which no operation *)
(* was in progress.  Each operation survives as a whole or not at all.     *)
(***************************************************************************)
CONSTANTS Ops, Blocks, Vals

VARIABLES stable,    \* what a reboot would find
          current,   \* what the running system sees
          active     \* operations in progress

Init ==
  /\ stable \in [Blocks -> Vals]
  /\ current = stable
  /\ active = {}

Begin(p) == p \notin active /\ active' = active \cup {p} /\ UNCHANGED <<stable, current>>

Write(p, b, v) ==
  /\ p \in active
  /\ current' = [current EXCEPT ![b] = v]
  /\ UNCHANGED <<stable, active>>

End(p) == p \in active /\ active' = active \ {p} /\ UNCHANGED <<stable, current>>

Commit == active = {} /\ stable' = current /\ UNCHANGED <<current, active>>

Crash == current' = stable /\ active' = {} /\ UNCHANGED stable

Next ==
  \/ \E p \in Ops : Begin(p) \/ End(p) \/ \E b \in Blocks, v \in Vals : Write(p, b, v)
  \/ Commit \/ Crash

Spec == Init /\ [][Next]_<<stable, current, active>>
=============================================================================
