------------------------------ MODULE ProcInv ------------------------------
(***************************************************************************)
(* The inductive invariants of Proc, and two facts that the proofs about it *)
(* take as hypotheses where the theory behind them is not at hand.         *)
(***************************************************************************)
EXTENDS Proc

Building(p) == pc[p] \in {"fork_fill", "clone_fill", "publish"}

(* What a process in the middle of fork or clone may rely on: the slot it  *)
(* fills is an EMBRYO that nobody else fills, and it is itself not asleep. *)
BuildInv ==
  /\ \A p \in Procs : Building(p) => np[p] \in Procs /\ state[np[p]] = "EMBRYO"
  /\ \A p, q \in Procs : Building(p) /\ Building(q) /\ np[p] = np[q] => p = q
  /\ \A p \in Procs : state[p] \in {"UNUSED", "EMBRYO", "ZOMBIE"} => pc[p] \in {"user", "exit"}
  /\ \A p \in Procs : state[p] = "SLEEPING" => pc[p] \in {"kernel", "exit", "wait", "join"}

\* A running process has some of its quantum left: trap() never charges it below zero.
SliceInv == \A p \in Procs : state[p] = "RUNNING" => slice[p] # 0

\* The inductive invariant of the scheduler.
SchedInv ==
  /\ TypeOK /\ RunQueueInv /\ CpuInv /\ BoostIsTemporary /\ BuildInv /\ SliceInv
  /\ irq # "age" => since < AGING_INTERVAL

Alive == {"RUNNING", "RUNNABLE", "SLEEPING"}

\* initproc lives for ever and is nobody's child; nobody is its own parent.
InitInv ==
  /\ state[initproc] \in Alive /\ parent[initproc] = NoProc
  /\ pc[initproc] \notin {"exit", "clone_fill", "join"}
  /\ \A q \in Procs : parent[q] # q

\* The slot under construction gets its parent and address space together.
SlotInv ==
  \A p \in Procs :
    /\ pc[p] \in {"fork_fill", "clone_fill"} => /\ parent[np[p]] = NoProc
                                                /\ pgdir[np[p]] = NoPgdir
    /\ pc[p] = "publish" => pgdir[np[p]] # NoPgdir

HasSpace == \A p \in Procs : state[p] \in Alive \cup {"ZOMBIE"} => pgdir[p] # NoPgdir

\* A thread runs in the address space of its parent until init inherits it.
ThreadShares ==
  \A q \in Procs : parent[q] # NoProc /\ parent[q] # initproc /\ isthread[q]
                    => pgdir[q] = pgdir[parent[q]]

\* The inductive invariant of the life cycle, on top of the scheduler's.
LifeInv ==
  /\ InitInv /\ SlotInv /\ HasSpace /\ ThreadShares
  /\ ParentAlive /\ SpacesInv /\ SoleUser /\ NoMissedExit

\* Every non-empty set of naturals has a least element.
LeastExists == \A T \in SUBSET Nat : T # {} => \E x \in T : \A y \in T : x <= y

\* Cpu c was idle and now runs a process that was waiting.
Dispatched(c) ==
  \E p \in Procs : /\ state[p] = "RUNNABLE"
                  /\ state' = [state EXCEPT ![p] = "RUNNING"]
                  /\ chan' = [chan EXCEPT ![p] = NoChan]
                  /\ cpu[c] = NoProc /\ cpu' = [cpu EXCEPT ![c] = p]
=============================================================================
