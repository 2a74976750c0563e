----------------------------- MODULE BlockStore -----------------------------
(***************************************************************************)
(* What the buffer cache promises: a block has one content, and at most    *)
(* one process at a time has it in its hands and may change it.            *)
(***************************************************************************)
CONSTANTS Procs, Blocks, Vals, NoProc

VARIABLES content, owner

Init == content \in [Blocks -> Vals] /\ owner = [k \in Blocks |-> NoProc]

Take(p, k) ==
  /\ owner[k] = NoProc
  /\ owner' = [owner EXCEPT ![k] = p]
  /\ UNCHANGED content

Put(p, k, v) ==
  /\ owner[k] = p
  /\ content' = [content EXCEPT ![k] = v]
  /\ UNCHANGED owner

Drop(p, k) ==
  /\ owner[k] = p
  /\ owner' = [owner EXCEPT ![k] = NoProc]
  /\ UNCHANGED content

Next == \E p \in Procs, k \in Blocks : Take(p, k) \/ (\E v \in Vals : Put(p, k, v)) \/ Drop(p, k)
Spec == Init /\ [][Next]_<<content, owner>>
=============================================================================
