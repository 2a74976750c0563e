------------------------------ MODULE RunQueue ------------------------------
(***************************************************************************)
(* The per-CPU run queues of proc.c as operators on values: one FIFO list  *)
(* per priority level and a count of the processes waiting.  The linked    *)
(* lists head[]/tail[]/rqnext are sequences, and a loop that pushes one    *)
(* process after the other is one append of the selected processes.        *)
(***************************************************************************)
EXTENDS Integers, Sequences, FiniteSets

CONSTANTS NPROC,   \* slots of ptable.proc
          NCPU,    \* processors found at boot (the code's ncpu)
          NPRIO    \* priority levels, 0 the highest

ASSUME NProcAssumption == NPROC \in Nat \ {0}
ASSUME NCpuAssumption == NCPU \in Nat \ {0}
ASSUME NPrioAssumption == NPRIO \in Nat \ {0}

Procs == 1..NPROC
NoProc == 0
Cpus == 0..(NCPU - 1)
Levels == 0..(NPRIO - 1)

\* The elements of s that are in S, in the order they have in s.
SelectIn(s, S) ==
  LET sel[i \in 0..Len(s)] ==
        IF i = 0 THEN << >>
        ELSE IF s[i] \in S THEN Append(sel[i - 1], s[i]) ELSE sel[i - 1]
  IN sel[Len(s)]

\* The order in which a loop over ptable.proc meets the members of S.
InTableOrder(S) == SelectIn([i \in Procs |-> i], S)

Queued(s) == {s[i] : i \in DOMAIN s}

(* The queues rq hold the processes of R and no others, each one once, at  *)
(* the place the functions cpuOf and prioOf give it.                       *)
Distinct(s) == \A i, j \in DOMAIN s : s[i] = s[j] => i = j
Holds(rq, R, cpuOf, prioOf) ==
  \A c \in Cpus, l \in Levels :
    /\ Distinct(rq[c][l])
    /\ \A p \in Procs : p \in Queued(rq[c][l]) <=> p \in R /\ cpuOf[p] = c /\ prioOf[p] = l
-----------------------------------------------------------------------------
(* rq_push of each process of s in turn, on the queue and at the level the *)
(* functions cpuOf and prioOf give it.                                     *)
rq_push(rq, s, cpuOf, prioOf) ==
  [c \in Cpus |-> [l \in Levels |->
     rq[c][l] \o SelectIn(s, {p \in Procs : cpuOf[p] = c /\ prioOf[p] = l})]]

nready_push(n, S, cpuOf) ==
  [c \in Cpus |-> n[c] + Cardinality({p \in S : cpuOf[p] = c})]

\* The levels of cpu c that rq_pop finds non-empty, and the one it takes.
Occupied(rq, c) == {l \in Levels : rq[c][l] # << >>}
TopLevel(rq, c) == CHOOSE l \in Occupied(rq, c) : \A k \in Occupied(rq, c) : l <= k

rq_head(rq, c) == Head(rq[c][TopLevel(rq, c)])
rq_pop(rq, c) == [rq EXCEPT ![c][TopLevel(rq, c)] = Tail(@)]

\* The first cpu with the fewest processes waiting.
least_loaded_cpu(n) ==
  CHOOSE c \in Cpus : \A d \in Cpus : n[c] < n[d] \/ (n[c] = n[d] /\ c <= d)

(* The cpus an idle cpu may steal from have more than one process waiting; *)
(* rq_steal takes the first of the busiest.                                *)
Victims(n, self) == {c \in Cpus \ {self} : n[c] > 1}
rq_steal(n, self) ==
  CHOOSE c \in Victims(n, self) :
    \A d \in Victims(n, self) : n[c] > n[d] \/ (n[c] = n[d] /\ c <= d)

\* Faulty: the process stays in the queue of its old level.
rq_age_in_place(rq, boosted) == rq
(* rq_age empties each queue from the highest level down and pushes every  *)
(* process back, those of boosted one level up: a level keeps the others   *)
(* and then receives the boosted of the level below.                       *)
rq_age(rq, boosted) ==
  [c \in Cpus |-> [l \in Levels |->
     SelectIn(rq[c][l], Procs \ boosted)
       \o (IF l + 1 \in Levels THEN SelectIn(rq[c][l + 1], boosted) ELSE << >>)]]
=============================================================================
