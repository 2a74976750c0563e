--------------------------- MODULE PrivateMemory ----------------------------
(***************************************************************************)
(* What copy-on-write fork and lazy allocation promise: every address      *)
(* space has a memory of its own.  A store of a process changes one page   *)
(* of its own space, fork copies the memory of the parent, exec puts a new *)
(* one in its place, and nothing else changes it.  Pages that are new, or  *)
(* were given up, read as zero; a closed page is neither read nor written. *)
(***************************************************************************)
CONSTANTS Procs, Spaces, Pages, Vals, Zero, Closed, NoSpace

VARIABLES space, image   \* the space of each process, the memory of each space

Blank == [v \in Pages |-> Zero]
Users(a) == {p \in Procs : space[p] = a}

Init ==
  /\ \E p \in Procs, a \in Spaces : space = [q \in Procs |-> IF q = p THEN a ELSE NoSpace]
  /\ image = [a \in Spaces |-> Blank]

\* A load of p from page v returns x.
Loads(p, v, x) == x \in Vals /\ image[space[p]][v] = x

Store(p, v, x) ==
  /\ image[space[p]][v] # Closed
  /\ image' = [image EXCEPT ![space[p]][v] = x]
  /\ UNCHANGED space

\* p gives page v up.
Discard(p, v) ==
  /\ image' = [image EXCEPT ![space[p]][v] = Zero]
  /\ UNCHANGED space

\* p has a child q, with a copy of its memory in d or in the same space.
Fork(p, q, d) ==
  /\ space[q] = NoSpace /\ Users(d) = {}
  /\ space' = [space EXCEPT ![q] = d]
  /\ image' = [image EXCEPT ![d] = image[space[p]]]

Clone(p, q) ==
  /\ space[q] = NoSpace
  /\ space' = [space EXCEPT ![q] = space[p]]
  /\ UNCHANGED image

\* p goes over to the memory m of a program.
Exec(p, d, m) ==
  /\ Users(space[p]) = {p} /\ Users(d) = {}
  /\ space' = [space EXCEPT ![p] = d]
  /\ image' = [image EXCEPT ![d] = m, ![space[p]] = Blank]

\* p is gone, and with the last process of a space its memory.
Exit(p) ==
  /\ space' = [space EXCEPT ![p] = NoSpace]
  /\ image' = IF Users(space[p]) = {p} THEN [image EXCEPT ![space[p]] = Blank] ELSE image
=============================================================================
