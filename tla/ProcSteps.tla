----------------------------- MODULE ProcSteps ------------------------------
(***************************************************************************)
(* The steps of Proc that leave the run queues alone keep the invariant of *)
(* the scheduler.  All steps keep the invariant of the life of a process,  *)
(* and are steps of ProcLife.                                              *)
(***************************************************************************)
EXTENDS ProcInv, TLAPS

\* A process that does not wait may change its queue and its level freely.
LEMMA HoldsFrame ==
  ASSUME NEW rq, NEW R, NEW cpuOf, NEW prioOf, Holds(rq, R, cpuOf, prioOf),
         NEW cpuNew, NEW prioNew,
         \A p \in Procs \cap R : cpuNew[p] = cpuOf[p] /\ prioNew[p] = prioOf[p]
  PROVE  Holds(rq, R, cpuNew, prioNew)
BY DEF Holds

\* Steps that leave the queues and the states alone keep the scheduler's facts.
LEMMA SchedFrame ==
  ASSUME RunQueueInv, CpuInv, BoostIsTemporary,
         UNCHANGED <<state, rqcpu, prio, base_prio, waited, runq, nready, cpu>>
  PROVE  RunQueueInv' /\ CpuInv' /\ BoostIsTemporary'
BY DEF RunQueueInv, Ready, CpuInv, BoostIsTemporary, Holds

\* The run queues are right as long as the same processes wait at the same places.
LEMMA RunQueueFrame ==
  ASSUME RunQueueInv, Ready' = Ready, UNCHANGED <<rqcpu, prio, runq, nready>>
  PROVE  RunQueueInv'
BY DEF RunQueueInv, Holds

\* What is known of the process that runs on cpu c.
LEMMA RunningFacts ==
  ASSUME SchedInv, NEW c \in Cpus, cpu[c] # NoProc
  PROVE  /\ cpu[c] \in Procs
         /\ state[cpu[c]] = "RUNNING"
         /\ rqcpu[cpu[c]] = c
         /\ \A d \in Cpus : cpu[d] = cpu[c] => d = c
BY DEF SchedInv, TypeOK, CpuInv

\* A process in fork or clone and the slot it fills.
LEMMA BuilderFacts ==
  ASSUME SchedInv, NEW c \in Cpus, cpu[c] # NoProc, Building(cpu[c])
  PROVE  /\ cpu[c] \in Procs /\ state[cpu[c]] = "RUNNING"
         /\ np[cpu[c]] \in Procs /\ state[np[cpu[c]]] = "EMBRYO" /\ np[cpu[c]] # cpu[c]
         /\ ~Building(np[cpu[c]])
         /\ \A x \in Procs : Building(x) /\ np[x] = np[cpu[c]] => x = cpu[c]
BY RunningFacts DEF SchedInv, BuildInv, Building

\* A quantum is at least one tick at every level.
LEMMA QuantumNat == \A l \in Levels : quantum_for(l) \in Nat /\ quantum_for(l) # 0
<1>1. \A a, b \in Nat \ {0} : a * b \in Nat /\ a * b # 0
  OBVIOUS
<1>2. \A l \in Levels : NPRIO - l \in Nat \ {0}
  BY NPrioAssumption DEF Levels
<1> QED BY Zenon, <1>1, <1>2, QuantumAssumption DEF quantum_for

\* A running process moves to a place outside fork and clone, and nobody is rescheduled.
LEMMA GotoStep ==
  ASSUME SchedInv, NEW c \in Cpus, cpu[c] # NoProc,
         NEW pt \in Places, pt \notin {"fork_fill", "clone_fill", "publish"},
         Goto(cpu[c], pt), UNCHANGED <<state, killed, chan, schedRest, identVars>>,
         pgdir' \in [Procs -> PgDirs \cup {NoPgdir}], spaces' \in SUBSET PgDirs
  PROVE  SchedInv'
<1>1. TypeOK /\ RunQueueInv /\ CpuInv /\ BoostIsTemporary /\ BuildInv /\ SliceInv
  BY Zenon DEF SchedInv
<1>2. cpu[c] \in Procs /\ state[cpu[c]] = "RUNNING"
  BY Zenon, <1>1, RunningFacts
<1>3. RunQueueInv' /\ CpuInv' /\ BoostIsTemporary'
  BY Zenon, <1>1, SchedFrame DEF schedRest, queueVars, prioVars
<1>4. TypeOK'
  BY Zenon, <1>1, <1>2 DEF TypeOK, Goto, schedRest, queueVars, prioVars, timerVars, identVars
<1>5. BuildInv'
  BY ZenonT(60), <1>1, <1>2 DEF BuildInv, Building, Goto, TypeOK, identVars
<1>6. SliceInv'
  BY Zenon, <1>1 DEF SliceInv, schedRest, prioVars
<1> QED BY Zenon, <1>3, <1>4, <1>5, <1>6 DEF SchedInv, schedRest, timerVars

\* The system calls and traps that only move the caller.
LEMMA GotoSteps ==
  ASSUME SchedInv, NEW c \in Cpus,
         fork_begin(c) \/ exec_begin(c) \/ exec_commit(c) \/ syscall_enter(c)
           \/ syscall_return(c) \/ exit_begin(c)
  PROVE  SchedInv'
<1>1. TypeOK
  BY Zenon DEF SchedInv
<1>2. pgdir \in [Procs -> PgDirs \cup {NoPgdir}] /\ spaces \in SUBSET PgDirs
  BY Zenon, <1>1 DEF TypeOK
<1>3. \A pt \in {"fork", "exec", "kernel", "user", "exit"} :
        pt \in Places /\ pt \notin {"fork_fill", "clone_fill", "publish"}
  BY Zenon DEF Places
<1>4. CASE fork_begin(c) \/ exec_begin(c)
  <2>1. cpu[c] # NoProc
    BY Zenon, <1>4 DEF fork_begin, exec_begin, CheckUnshared, Syscall, At
  <2>2. PICK pt \in {"fork", "exec"} : CheckUnshared(c, pt)
    BY Zenon, <1>4 DEF fork_begin, exec_begin
  <2>3. Goto(cpu[c], pt) /\ UNCHANGED <<state, killed, chan, schedRest, spaceVars, identVars>>
    BY Zenon, <2>2 DEF CheckUnshared
  <2>4. pgdir' = pgdir /\ spaces' = spaces
    BY Zenon, <2>3 DEF spaceVars
  <2> QED BY Zenon, <1>2, <1>3, <2>1, <2>3, <2>4, GotoStep
<1>5. CASE exec_commit(c)
  <2>1. cpu[c] # NoProc /\ Goto(cpu[c], "user")
        /\ UNCHANGED <<state, killed, chan, schedRest, identVars>>
    BY Zenon, <1>5 DEF exec_commit, At
  <2>2. pgdir' \in [Procs -> PgDirs \cup {NoPgdir}] /\ spaces' \in SUBSET PgDirs
    BY Zenon, <1>2, <1>5 DEF exec_commit, spaceVars
  <2> QED BY Zenon, <1>3, <2>1, <2>2, GotoStep
<1>6. CASE syscall_enter(c) \/ syscall_return(c) \/ exit_begin(c)
  <2>1. cpu[c] # NoProc
    BY Zenon, <1>6 DEF syscall_enter, syscall_return, exit_begin, Syscall, At
  <2>2. PICK pt \in {"kernel", "user", "exit"} : Goto(cpu[c], pt)
    BY Zenon, <1>6 DEF syscall_enter, syscall_return, exit_begin
  <2>3. UNCHANGED <<state, killed, chan, schedRest, identVars>> /\ UNCHANGED <<pgdir, spaces>>
    BY Zenon, <1>6 DEF syscall_enter, syscall_return, exit_begin, idleRest, schedRest, spaceVars
  <2>4. pgdir' \in [Procs -> PgDirs \cup {NoPgdir}] /\ spaces' \in SUBSET PgDirs
    BY Zenon, <1>2, <2>3
  <2> QED BY Zenon, <1>3, <2>1, <2>2, <2>3, <2>4, GotoStep
<1> QED BY Zenon, <1>4, <1>5, <1>6

\* setpriority charges the new priority at once: the caller is on no queue.
LEMMA SetpriorityStep ==
  ASSUME SchedInv, NEW c \in Cpus, setpriority(c)
  PROVE  SchedInv'
<1>1. TypeOK /\ RunQueueInv /\ CpuInv /\ BoostIsTemporary /\ BuildInv /\ SliceInv
  BY Zenon DEF SchedInv
<1>2. cpu[c] \in Procs /\ state[cpu[c]] = "RUNNING"
  BY Zenon, <1>1, RunningFacts DEF setpriority, Syscall, At
<1>3. PICK l \in Levels :
        /\ base_prio' = [base_prio EXCEPT ![cpu[c]] = l]
        /\ prio' = [prio EXCEPT ![cpu[c]] = l]
        /\ slice' = [slice EXCEPT ![cpu[c]] = quantum_for(l)]
  BY Zenon DEF setpriority
<1>4. UNCHANGED <<state, killed, chan, rqcpu, pc, cpu, queueVars, waited, timerVars,
                  spaceVars, identVars>>
  BY Zenon DEF setpriority
<1>5. quantum_for(l) \in Nat /\ quantum_for(l) # 0
  BY Zenon, QuantumNat
<1>6. TypeOK'
  BY Zenon, <1>1, <1>2, <1>3, <1>4, <1>5 DEF TypeOK, queueVars, timerVars, spaceVars, identVars
<1>7. RunQueueInv'
  <2>1. Ready' = Ready /\ cpu[c] \notin Ready
    BY Zenon, <1>2, <1>4 DEF Ready
  <2>2. \A x \in Procs \cap Ready : rqcpu'[x] = rqcpu[x] /\ prio'[x] = prio[x]
    BY Zenon, <1>1, <1>3, <1>4, <2>1 DEF TypeOK
  <2>3. Holds(runq, Ready, rqcpu', prio')
    BY Zenon, <1>1, <2>2, HoldsFrame DEF RunQueueInv
  <2> QED BY Zenon, <1>1, <1>4, <2>1, <2>3 DEF RunQueueInv, queueVars
<1>8. CpuInv' /\ BuildInv'
  BY <1>1, <1>4 DEF CpuInv, BuildInv, Building, identVars
<1>9. BoostIsTemporary'
  BY <1>1, <1>2, <1>3, <1>4, NPrioAssumption DEF BoostIsTemporary, TypeOK, Levels
<1>10. SliceInv'
  BY Zenon, <1>1, <1>2, <1>3, <1>4, <1>5 DEF SliceInv, TypeOK
<1> QED BY Zenon, <1>4, <1>6, <1>7, <1>8, <1>9, <1>10 DEF SchedInv, timerVars

\* allocproc hands out a slot that nobody runs, waits for or fills.
LEMMA AllocprocStep ==
  ASSUME LeastExists, SchedInv, NEW c \in Cpus, cpu[c] # NoProc, ~Building(cpu[c]),
         NEW to \in {"fork_fill", "clone_fill"}, allocproc(c, to)
  PROVE  SchedInv'
<1> DEFINE p == cpu[c]
           q == CHOOSE x \in FreeSlots : \A y \in FreeSlots : x <= y
<1>1. TypeOK /\ RunQueueInv /\ CpuInv /\ BoostIsTemporary /\ BuildInv /\ SliceInv
  BY Zenon DEF SchedInv
<1>2. p \in Procs /\ state[p] = "RUNNING"
  BY Zenon, <1>1, RunningFacts
<1>3. q \in FreeSlots
  <2>1. FreeSlots # {} /\ FreeSlots \in SUBSET Nat
    BY NProcAssumption DEF allocproc, FreeSlots, Procs
  <2> HIDE DEF q
  <2>2. \E x \in FreeSlots : \A y \in FreeSlots : x <= y
    BY Zenon, <2>1 DEF LeastExists
  <2> QED BY Zenon, <2>2 DEF q
<1>4. q \in Procs /\ state[q] = "UNUSED"
  BY <1>3 DEF FreeSlots
<1>5. /\ state' = [state EXCEPT ![q] = "EMBRYO"]
      /\ pid' = [pid EXCEPT ![q] = nextpid]
      /\ nextpid' = nextpid + 1
      /\ pgdir' = [pgdir EXCEPT ![q] = NoPgdir]
      /\ isthread' = [isthread EXCEPT ![q] = FALSE]
      /\ base_prio' = [base_prio EXCEPT ![q] = NPRIO \div 2]
      /\ prio' = [prio EXCEPT ![q] = NPRIO \div 2]
      /\ slice' = [slice EXCEPT ![q] = quantum_for(NPRIO \div 2)]
      /\ waited' = [waited EXCEPT ![q] = 0]
      /\ rqcpu' = [rqcpu EXCEPT ![q] = 0]
      /\ np' = [np EXCEPT ![p] = q]
      /\ pc' = [pc EXCEPT ![p] = to, ![q] = "user"]
      /\ UNCHANGED <<killed, chan, cpu, queueVars, timerVars, spaces, parent>>
  BY Zenon DEF allocproc
<1> HIDE DEF p, q
<1>6. NPRIO \div 2 \in Levels /\ 0 \in Cpus /\ quantum_for(NPRIO \div 2) \in Nat
      /\ 0 \in 0..AGING_TICKS
  BY SMTT(60), NPrioAssumption, NCpuAssumption, AgingAssumption, QuantumNat DEF Levels, Cpus
<1>7. TypeOK'
  <2>1. state' \in [Procs -> States] /\ pid' \in [Procs -> Nat] /\ nextpid' \in Nat
    <3>1. state' \in [Procs -> States]
      BY Zenon, <1>1, <1>4, <1>5 DEF TypeOK, States
    <3>2. nextpid \in Nat /\ pid \in [Procs -> Nat]
      BY Zenon, <1>1 DEF TypeOK
    <3> QED BY <1>4, <1>5, <3>1, <3>2
  <2>2. pgdir' \in [Procs -> PgDirs \cup {NoPgdir}] /\ isthread' \in [Procs -> BOOLEAN]
    <3>1. pgdir' \in [Procs -> PgDirs \cup {NoPgdir}]
      BY Zenon, <1>1, <1>4, <1>5 DEF TypeOK
    <3>2. isthread' \in [Procs -> BOOLEAN]
      BY Zenon, <1>1, <1>4, <1>5 DEF TypeOK
    <3> QED BY Zenon, <3>1, <3>2
  <2>3. /\ base_prio' \in [Procs -> Levels] /\ prio' \in [Procs -> Levels]
        /\ slice' \in [Procs -> Nat] /\ waited' \in [Procs -> 0..AGING_TICKS]
        /\ rqcpu' \in [Procs -> Cpus]
    BY Zenon, <1>1, <1>4, <1>5, <1>6 DEF TypeOK
  <2>4. np' \in [Procs -> Procs \cup {NoProc}] /\ pc' \in [Procs -> Places]
    BY Zenon, <1>1, <1>4, <1>5 DEF TypeOK, Places
  <2> QED BY Zenon, <1>1, <1>5, <2>1, <2>2, <2>3, <2>4 DEF TypeOK, queueVars, timerVars
<1>8. RunQueueInv'
  <2>1. Ready' = Ready /\ q \notin Ready
    BY Zenon, <1>1, <1>4, <1>5 DEF Ready, TypeOK
  <2>2. \A x \in Procs \cap Ready : rqcpu'[x] = rqcpu[x] /\ prio'[x] = prio[x]
    BY Zenon, <1>1, <1>5, <2>1 DEF TypeOK
  <2>3. Holds(runq, Ready, rqcpu', prio')
    BY Zenon, <1>1, <2>2, HoldsFrame DEF RunQueueInv
  <2>4. ASSUME NEW d \in Cpus
        PROVE  {x \in Ready : rqcpu'[x] = d} = {x \in Ready : rqcpu[x] = d}
    BY Zenon, <2>2 DEF Ready
  <2> QED BY Zenon, <1>1, <1>5, <2>1, <2>3, <2>4 DEF RunQueueInv, queueVars
<1>9. CpuInv'
  BY <1>1, <1>4, <1>5 DEF CpuInv, TypeOK
<1>10. BoostIsTemporary'
  BY SMTT(60), <1>1, <1>4, <1>5, <1>6, NPrioAssumption DEF BoostIsTemporary, TypeOK, Levels
<1>11. BuildInv'
  <2>1. p # q /\ ~Building(p)
    BY Zenon, <1>2, <1>4 DEF p
  <2>2. \A x \in Procs : Building(x)' <=> (x = p \/ (x # q /\ Building(x)))
    BY Zenon, <1>1, <1>2, <1>4, <1>5, <2>1 DEF Building, TypeOK
  <2>3. \A x \in Procs : Building(x) => np[x] # q /\ x # q
    BY Zenon, <1>1, <1>4 DEF BuildInv, Building
  <2>4. \A x \in Procs : np'[x] = IF x = p THEN q ELSE np[x]
    BY Zenon, <1>1, <1>5 DEF TypeOK
  <2>5. \A x \in Procs : state'[x] = IF x = q THEN "EMBRYO" ELSE state[x]
    BY Zenon, <1>1, <1>5 DEF TypeOK
  <2>6. \A x \in Procs : pc'[x] = IF x = q THEN "user" ELSE IF x = p THEN to ELSE pc[x]
    BY Zenon, <1>1, <1>5 DEF TypeOK
  <2>7. \A x \in Procs : Building(x)' => np'[x] \in Procs /\ state'[np'[x]] = "EMBRYO"
    BY <1>1, <1>4, <2>2, <2>3, <2>4, <2>5 DEF BuildInv
  <2>8. \A x, y \in Procs : Building(x)' /\ Building(y)' /\ np'[x] = np'[y] => x = y
    BY <1>1, <2>2, <2>3, <2>4 DEF BuildInv
  <2>9. /\ \A x \in Procs : state'[x] \in {"UNUSED", "EMBRYO", "ZOMBIE"}
              => pc'[x] \in {"user", "exit"}
        /\ \A x \in Procs : state'[x] = "SLEEPING"
              => pc'[x] \in {"kernel", "exit", "wait", "join"}
    BY <1>1, <1>2, <2>1, <2>5, <2>6 DEF BuildInv
  <2> QED BY Zenon, <2>7, <2>8, <2>9 DEF BuildInv
<1>12. SliceInv'
  BY Zenon, <1>1, <1>4, <1>5 DEF SliceInv, TypeOK
<1> QED BY Zenon, <1>5, <1>7, <1>8, <1>9, <1>10, <1>11, <1>12 DEF SchedInv, timerVars

\* fork and clone take a slot, or fork gives up when the table is full.
LEMMA AllocSteps ==
  ASSUME LeastExists, SchedInv, NEW c \in Cpus, fork_alloc(c) \/ clone_alloc(c)
  PROVE  SchedInv'
<1>1. cpu[c] # NoProc /\ ~Building(cpu[c])
  BY Zenon DEF fork_alloc, clone_alloc, Syscall, At, Building
<1>2. CASE \E to \in {"fork_fill", "clone_fill"} : allocproc(c, to)
  BY Zenon, <1>1, <1>2, AllocprocStep
<1>3. CASE /\ Goto(cpu[c], "user")
           /\ UNCHANGED <<state, killed, chan, schedRest, spaceVars, identVars>>
  <2>1. pgdir' \in [Procs -> PgDirs \cup {NoPgdir}] /\ spaces' \in SUBSET PgDirs
    BY Zenon, <1>3 DEF SchedInv, TypeOK, spaceVars
  <2>2. "user" \in Places /\ "user" \notin {"fork_fill", "clone_fill", "publish"}
    BY Zenon DEF Places
  <2> QED BY Zenon, <1>1, <1>3, <2>1, <2>2, GotoStep
<1> QED BY Zenon, <1>2, <1>3 DEF fork_alloc, clone_alloc

\* A slot goes back when no page is left.
LEMMA AllocFailsStep ==
  ASSUME SchedInv, NEW c \in Cpus, alloc_fails(c)
  PROVE  SchedInv'
<1> DEFINE p == cpu[c]
           q == np[cpu[c]]
<1>1. TypeOK /\ RunQueueInv /\ CpuInv /\ BoostIsTemporary /\ BuildInv /\ SliceInv
  BY Zenon DEF SchedInv
<1>2. cpu[c] # NoProc /\ Building(cpu[c])
  BY Zenon DEF alloc_fails, At, Building
<1>3. /\ p \in Procs /\ state[p] = "RUNNING"
      /\ q \in Procs /\ state[q] = "EMBRYO" /\ q # p /\ ~Building(q)
      /\ \A x \in Procs : Building(x) /\ np[x] = q => x = p
  BY Zenon, <1>2, BuilderFacts
<1>4. /\ state' = [state EXCEPT ![q] = "UNUSED"]
      /\ np' = [np EXCEPT ![p] = NoProc]
      /\ pc' = [pc EXCEPT ![p] = "user"]
      /\ UNCHANGED <<killed, chan, schedRest, spaceVars, pid, parent, isthread, nextpid>>
  BY Zenon DEF alloc_fails, Goto
<1> HIDE DEF p, q
<1>5. TypeOK'
  <2>1. state' \in [Procs -> States] /\ np' \in [Procs -> Procs \cup {NoProc}]
        /\ pc' \in [Procs -> Places]
    BY Zenon, <1>1, <1>3, <1>4 DEF TypeOK, States, Places
  <2> QED BY Zenon, <1>1, <1>4, <2>1 DEF TypeOK, schedRest, queueVars, prioVars, timerVars, spaceVars
<1>6. Ready' = Ready
  BY Zenon, <1>1, <1>3, <1>4 DEF Ready, TypeOK
<1>7. RunQueueInv'
  <2>1. UNCHANGED <<rqcpu, prio, runq, nready>>
    BY Zenon, <1>4 DEF schedRest, queueVars, prioVars
  <2> QED BY Zenon, <1>1, <1>6, <2>1, RunQueueFrame
<1>8. CpuInv'
  <2>1. \A x \in Procs : state'[x] = "RUNNING" <=> state[x] = "RUNNING"
    BY Zenon, <1>1, <1>3, <1>4 DEF TypeOK
  <2>2. cpu' = cpu /\ rqcpu' = rqcpu
    BY Zenon, <1>4 DEF schedRest
  <2> QED BY Zenon, <1>1, <2>1, <2>2 DEF CpuInv
<1>9. BoostIsTemporary' /\ SliceInv'
  BY Zenon, <1>1, <1>3, <1>4 DEF BoostIsTemporary, SliceInv, TypeOK, schedRest, prioVars
<1>10. BuildInv'
  BY ZenonT(60), <1>1, <1>3, <1>4 DEF BuildInv, Building, TypeOK
<1> QED BY Zenon, <1>4, <1>5, <1>7, <1>8, <1>9, <1>10 DEF SchedInv, schedRest, timerVars

\* fork and clone fill in the slot: the child takes the priority of its parent.
LEMMA FillStep ==
  ASSUME SchedInv, NEW c \in Cpus, fork_fill(c) \/ clone_fill(c)
  PROVE  SchedInv'
<1> DEFINE p == cpu[c]
           q == np[cpu[c]]
<1>1. TypeOK /\ RunQueueInv /\ CpuInv /\ BoostIsTemporary /\ BuildInv /\ SliceInv
  BY Zenon DEF SchedInv
<1>2. cpu[c] # NoProc /\ Building(cpu[c])
  BY Zenon DEF fork_fill, clone_fill, At, Building
<1>3. /\ p \in Procs /\ state[p] = "RUNNING"
      /\ q \in Procs /\ state[q] = "EMBRYO" /\ q # p /\ ~Building(q)
      /\ \A x \in Procs : Building(x) /\ np[x] = q => x = p
  BY Zenon, <1>2, BuilderFacts
<1>4. /\ spaces' \in SUBSET PgDirs
      /\ \E d \in PgDirs \cup {NoPgdir}, thread \in BOOLEAN : FillSlot(p, d, thread)
  BY Zenon, <1>1, <1>3 DEF fork_fill, clone_fill, TypeOK
<1>5. PICK d \in PgDirs \cup {NoPgdir}, thread \in BOOLEAN : FillSlot(p, d, thread)
  BY Zenon, <1>4
<1>6. /\ pgdir' = [pgdir EXCEPT ![q] = d]
      /\ parent' = [parent EXCEPT ![q] = p]
      /\ isthread' = [isthread EXCEPT ![q] = thread]
      /\ base_prio' = [base_prio EXCEPT ![q] = base_prio[p]]
      /\ prio' = [prio EXCEPT ![q] = base_prio[p]]
      /\ pc' = [pc EXCEPT ![p] = "publish"]
      /\ UNCHANGED <<state, killed, chan, rqcpu, cpu, queueVars, slice, waited, timerVars,
                     pid, nextpid, np>>
  BY Zenon, <1>5 DEF FillSlot, Goto
<1> HIDE DEF p, q
<1>7. TypeOK'
  <2>1. pgdir' \in [Procs -> PgDirs \cup {NoPgdir}]
        /\ parent' \in [Procs -> Procs \cup {NoProc}]
    BY Zenon, <1>1, <1>3, <1>6 DEF TypeOK
  <2>2. isthread' \in [Procs -> BOOLEAN]
    BY Zenon, <1>1, <1>3, <1>6 DEF TypeOK
  <2>3. base_prio' \in [Procs -> Levels] /\ prio' \in [Procs -> Levels]
        /\ pc' \in [Procs -> Places]
    BY Zenon, <1>1, <1>3, <1>6 DEF TypeOK, Places
  <2> QED BY Zenon, <1>1, <1>4, <1>6, <2>1, <2>2, <2>3 DEF TypeOK, queueVars, timerVars
<1>8. RunQueueInv'
  <2>1. Ready' = Ready /\ q \notin Ready
    BY Zenon, <1>3, <1>6 DEF Ready
  <2>2. \A x \in Procs \cap Ready : rqcpu'[x] = rqcpu[x] /\ prio'[x] = prio[x]
    BY Zenon, <1>1, <1>6, <2>1 DEF TypeOK
  <2>3. Holds(runq, Ready, rqcpu', prio')
    BY Zenon, <1>1, <2>2, HoldsFrame DEF RunQueueInv
  <2> QED BY Zenon, <1>1, <1>6, <2>1, <2>3 DEF RunQueueInv, queueVars
<1>9. CpuInv' /\ SliceInv'
  BY Zenon, <1>1, <1>6 DEF CpuInv, SliceInv
<1>10. BoostIsTemporary'
  BY Zenon, <1>1, <1>3, <1>6, NPrioAssumption DEF BoostIsTemporary, TypeOK, Levels
<1>11. BuildInv'
  <2>1. \A x \in Procs : Building(x)' <=> Building(x)
    BY Zenon, <1>1, <1>2, <1>3, <1>6 DEF Building, TypeOK, p
  <2>2. \A x \in Procs : x # p => pc'[x] = pc[x]
    BY Zenon, <1>1, <1>6 DEF TypeOK
  <2> QED BY Zenon, <1>1, <1>3, <1>6, <2>1, <2>2 DEF BuildInv
<1> QED BY Zenon, <1>6, <1>7, <1>8, <1>9, <1>10, <1>11 DEF SchedInv, timerVars

\* The running process falls asleep and leaves its cpu empty.
LEMMA SleepOnStep ==
  ASSUME SchedInv, NEW c \in Cpus, cpu[c] # NoProc, ~Building(cpu[c]), NEW ch \in Nat,
         NEW pt \in {"kernel", "exit", "wait", "join"}, SleepOn(c, ch, pt)
  PROVE  SchedInv'
<1> DEFINE p == cpu[c]
<1>1. TypeOK /\ RunQueueInv /\ CpuInv /\ BoostIsTemporary /\ BuildInv /\ SliceInv
  BY Zenon DEF SchedInv
<1>2. p \in Procs /\ state[p] = "RUNNING" /\ rqcpu[p] = c
      /\ \A d \in Cpus : cpu[d] = p => d = c
  BY Zenon, RunningFacts
<1>3. /\ state' = [state EXCEPT ![p] = "SLEEPING"]
      /\ chan' = [chan EXCEPT ![p] = ch]
      /\ cpu' = [cpu EXCEPT ![c] = NoProc]
      /\ pc' = [pc EXCEPT ![p] = pt]
      /\ UNCHANGED <<rqcpu, queueVars, idleRest>>
  BY Zenon DEF SleepOn, Goto
<1>4. cpu[c] = p /\ ~Building(p)
  BY Zenon
<1> HIDE DEF p
<1>5. TypeOK'
  <2>1. /\ state' \in [Procs -> States] /\ chan' \in [Procs -> Nat]
        /\ cpu' \in [Cpus -> Procs \cup {NoProc}] /\ pc' \in [Procs -> Places]
    BY Zenon, <1>1, <1>2, <1>3 DEF TypeOK, States, Places
  <2> QED BY Zenon, <1>1, <1>3, <2>1
      DEF TypeOK, idleRest, queueVars, prioVars, timerVars, spaceVars, identVars
<1>6. Ready' = Ready
  BY Zenon, <1>1, <1>2, <1>3 DEF Ready, TypeOK
<1>7. RunQueueInv'
  <2>1. UNCHANGED <<rqcpu, prio, runq, nready>>
    BY Zenon, <1>3 DEF idleRest, queueVars, prioVars
  <2> QED BY Zenon, <1>1, <1>6, <2>1, RunQueueFrame
<1>8. CpuInv'
  BY <1>1, <1>2, <1>3, <1>4 DEF CpuInv, TypeOK, NoProc, Procs
<1>9. BoostIsTemporary' /\ SliceInv'
  BY Zenon, <1>1, <1>2, <1>3 DEF BoostIsTemporary, SliceInv, TypeOK, idleRest, prioVars
<1>10. BuildInv'
  BY ZenonT(60), <1>1, <1>2, <1>3, <1>4 DEF BuildInv, Building, TypeOK, idleRest, identVars
<1> QED BY Zenon, <1>3, <1>5, <1>7, <1>8, <1>9, <1>10 DEF SchedInv, idleRest, timerVars

\* sleep() and futex_wait().
LEMMA SleepStep ==
  ASSUME SchedInv, NEW c \in Cpus, sleep(c)
  PROVE  SchedInv'
<1>1. cpu[c] # NoProc /\ ~Building(cpu[c])
  BY Zenon DEF sleep, At, Building
<1>2. Chans \cup {Ticks} \subseteq Nat
  BY NProcAssumption, ChanAssumption DEF Chans, Ticks
<1>3. PICK ch \in Nat, pt \in {"kernel", "exit"} : SleepOn(c, ch, pt)
  BY Zenon, <1>2 DEF sleep
<1> QED BY Zenon, <1>1, <1>3, SleepOnStep

\* wait() and join() reap a zombie, return or fall asleep on the caller's slot.
LEMMA ReapStep ==
  ASSUME LeastExists, SchedInv, NEW c \in Cpus, cpu[c] # NoProc, ~Building(cpu[c]),
         NEW kids \in SUBSET Procs, NEW frees \in BOOLEAN, NEW pt \in {"wait", "join"},
         ReapFrom(c, kids, frees, pt)
  PROVE  SchedInv'
<1> DEFINE p == cpu[c]
           zombies == {q \in kids : state[q] = "ZOMBIE"}
           z == CHOOSE x \in zombies : \A y \in zombies : x <= y
<1>1. TypeOK /\ RunQueueInv /\ CpuInv /\ BoostIsTemporary /\ BuildInv /\ SliceInv
  BY Zenon DEF SchedInv
<1>2. p \in Procs /\ state[p] = "RUNNING"
  BY Zenon, RunningFacts
<1>3. CASE /\ zombies # {}
           /\ spaces' = IF frees /\ pgdir_users(pgdir[z]) = {z}
                        THEN spaces \ {pgdir[z]} ELSE spaces
           /\ pgdir' = [pgdir EXCEPT ![z] = NoPgdir]
           /\ isthread' = [isthread EXCEPT ![z] = FALSE]
           /\ pid' = [pid EXCEPT ![z] = 0]
           /\ parent' = [parent EXCEPT ![z] = NoProc]
           /\ killed' = [killed EXCEPT ![z] = FALSE]
           /\ state' = [state EXCEPT ![z] = "UNUSED"]
           /\ Goto(p, "user")
           /\ UNCHANGED <<chan, schedRest, nextpid, np>>
  <2>1. z \in zombies
    <3>1. zombies \subseteq Procs
      OBVIOUS
    <3>2. Procs \subseteq Nat
      BY NProcAssumption DEF Procs
    <3>3. zombies # {}
      BY Zenon, <1>3
    <3> HIDE DEF zombies
    <3>4. \E x \in zombies : \A y \in zombies : x <= y
      BY Zenon, <3>1, <3>2, <3>3 DEF LeastExists
    <3> QED BY Zenon, <3>4
  <2>2. z \in Procs /\ state[z] = "ZOMBIE"
    BY Zenon, <2>1
  <2> HIDE DEF z, p, zombies
  <2>3. TypeOK'
    <3>1. state' \in [Procs -> States] /\ pid' \in [Procs -> Nat]
      BY Zenon, <1>1, <1>3, <2>2 DEF TypeOK, States
    <3>2. /\ pgdir' \in [Procs -> PgDirs \cup {NoPgdir}] /\ spaces' \in SUBSET PgDirs
          /\ parent' \in [Procs -> Procs \cup {NoProc}]
      BY Zenon, <1>1, <1>3, <2>2 DEF TypeOK
    <3>3. isthread' \in [Procs -> BOOLEAN] /\ killed' \in [Procs -> BOOLEAN]
      BY ZenonT(60), <1>1, <1>3, <2>2 DEF TypeOK
    <3>4. pc' \in [Procs -> Places]
      BY Zenon, <1>1, <1>2, <1>3 DEF TypeOK, Places, Goto
    <3> QED BY Zenon, <1>1, <1>3, <3>1, <3>2, <3>3, <3>4
        DEF TypeOK, schedRest, queueVars, prioVars, timerVars
  <2>4. Ready' = Ready
    BY Zenon, <1>1, <1>3, <2>2 DEF Ready, TypeOK
  <2>5. RunQueueInv'
    <3>1. UNCHANGED <<rqcpu, prio, runq, nready>>
      BY Zenon, <1>3 DEF schedRest, queueVars, prioVars
    <3> QED BY Zenon, <1>1, <2>4, <3>1, RunQueueFrame
  <2>6. \A x \in Procs : state'[x] = IF x = z THEN "UNUSED" ELSE state[x]
    BY Zenon, <1>1, <1>3 DEF TypeOK
  <2>7. CpuInv'
    <3>1. \A x \in Procs : state'[x] = "RUNNING" <=> state[x] = "RUNNING"
      BY Zenon, <2>2, <2>6
    <3>2. cpu' = cpu /\ rqcpu' = rqcpu
      BY Zenon, <1>3 DEF schedRest
    <3> QED BY Zenon, <1>1, <3>1, <3>2 DEF CpuInv
  <2>8. BoostIsTemporary' /\ SliceInv'
    <3>1. UNCHANGED <<prio, base_prio, waited, slice>>
      BY Zenon, <1>3 DEF schedRest, prioVars
    <3> QED BY Zenon, <1>1, <2>2, <2>6, <3>1 DEF BoostIsTemporary, SliceInv
  <2>9. BuildInv'
    <3>1. \A x \in Procs : pc'[x] = IF x = p THEN "user" ELSE pc[x]
      BY Zenon, <1>1, <1>3 DEF TypeOK, Goto
    <3>2. np' = np /\ z # p
      BY Zenon, <1>2, <1>3, <2>2
    <3>3. \A x \in Procs : Building(x)' => Building(x)
      BY Zenon, <3>1 DEF Building
    <3>4. \A x \in Procs : Building(x) => np[x] \in Procs /\ np[x] # z /\ state[np[x]] = "EMBRYO"
      BY Zenon, <1>1, <2>2 DEF BuildInv
    <3>5. \A x \in Procs : Building(x)' => np'[x] \in Procs /\ state'[np'[x]] = "EMBRYO"
      BY Zenon, <2>6, <3>2, <3>3, <3>4
    <3>6. \A x, y \in Procs : Building(x)' /\ Building(y)' /\ np'[x] = np'[y] => x = y
      BY Zenon, <1>1, <3>2, <3>3 DEF BuildInv
    <3>7. \A x \in Procs : state'[x] \in {"UNUSED", "EMBRYO", "ZOMBIE"} => pc'[x] \in {"user", "exit"}
      BY Zenon, <1>1, <2>2, <2>6, <3>1 DEF BuildInv
    <3>8. \A x \in Procs : state'[x] = "SLEEPING"
                              => pc'[x] \in {"kernel", "exit", "wait", "join"}
      BY <1>1, <1>2, <2>6, <3>1 DEF BuildInv
    <3> QED BY Zenon, <3>5, <3>6, <3>7, <3>8 DEF BuildInv
  <2> QED BY Zenon, <1>3, <2>3, <2>5, <2>7, <2>8, <2>9 DEF SchedInv, schedRest, timerVars
<1>4. CASE /\ Goto(p, "user")
           /\ UNCHANGED <<state, chan, schedRest, killed, spaceVars, identVars>>
  <2>1. pgdir' \in [Procs -> PgDirs \cup {NoPgdir}] /\ spaces' \in SUBSET PgDirs
    BY Zenon, <1>1, <1>4 DEF TypeOK, spaceVars
  <2>2. "user" \in Places /\ "user" \notin {"fork_fill", "clone_fill", "publish"}
    BY Zenon DEF Places
  <2> QED BY Zenon, <1>4, <2>1, <2>2, GotoStep
<1>5. CASE SleepOn(c, p, pt)
  <2>1. p \in Nat
    BY <1>2, NProcAssumption DEF Procs
  <2> QED BY Zenon, <1>5, <2>1, SleepOnStep
<1> QED BY Zenon, <1>3, <1>4, <1>5 DEF ReapFrom
-----------------------------------------------------------------------------
\* The first process is alone.
LEMMA LifeInvInit == Init => LifeInv
<1> SUFFICES ASSUME Init PROVE LifeInv
  OBVIOUS
<1>1. initproc \in Procs
  BY NProcAssumption DEF initproc, Procs
<1>2. PICK d \in PgDirs :
        /\ pgdir = [p \in Procs |-> IF p = initproc THEN d ELSE NoPgdir]
        /\ spaces = {d}
  BY Zenon DEF Init
<1>3. d # NoPgdir
  BY Zenon, PgDirAssumption DEF NoPgdir
<1>4. InitInv /\ SlotInv
  BY <1>1 DEF Init, InitInv, SlotInv, Alive, NoProc, Procs
<1>5. HasSpace
  BY Zenon, <1>1, <1>2, <1>3 DEF Init, HasSpace, Alive
<1>6. ThreadShares /\ ParentAlive
  BY Zenon, <1>1 DEF Init, ThreadShares, ParentAlive
<1>7. SpacesInv
  BY Zenon, <1>1, <1>2, <1>3 DEF Init, SpacesInv
<1>8. SoleUser /\ NoMissedExit
  BY Zenon, <1>1 DEF Init, SoleUser, NoMissedExit
<1> QED BY Zenon, <1>4, <1>5, <1>6, <1>7, <1>8 DEF LifeInv

(* Steps that neither create, end nor reap a process, nor touch an address *)
(* space: processes that are alive stay so and only move in their code.    *)
LEMMA LifeFrame ==
  ASSUME SchedInv, LifeInv,
         \A p \in Procs : state'[p] = state[p] \/ (state[p] \in Alive /\ state'[p] \in Alive),
         UNCHANGED <<pgdir, spaces, parent, isthread, np>>,
         \A p \in Procs : pc'[p] = pc[p] \/
           pc'[p] \in {"user", "kernel", "fork", "exec", "wait"}
             \cup (IF p = initproc THEN {} ELSE {"exit", "join"})
  PROVE  /\ InitInv' /\ SlotInv' /\ HasSpace' /\ ThreadShares' /\ ParentAlive' /\ SpacesInv'
         /\ \A d : pgdir_users(d)' = pgdir_users(d)
<1>1. TypeOK /\ BuildInv
  BY Zenon DEF SchedInv
<1>2. initproc \in Procs
  BY NProcAssumption DEF initproc, Procs
<1>3. \A p \in Procs : /\ state'[p] = "UNUSED" <=> state[p] = "UNUSED"
                       /\ state'[p] \in Alive <=> state[p] \in Alive
                       /\ state'[p] = "ZOMBIE" <=> state[p] = "ZOMBIE"
  BY Zenon DEF Alive
<1>4. InitInv'
  BY Zenon, <1>2, <1>3 DEF LifeInv, InitInv
<1>5. SlotInv'
  <2> SUFFICES ASSUME NEW p \in Procs
               PROVE  /\ pc'[p] \in {"fork_fill", "clone_fill"} =>
                           parent[np[p]] = NoProc /\ pgdir[np[p]] = NoPgdir
                      /\ pc'[p] = "publish" => pgdir[np[p]] # NoPgdir
    BY Zenon DEF SlotInv
  <2>1. pc'[p] \in {"fork_fill", "clone_fill", "publish"} => pc'[p] = pc[p]
    OBVIOUS
  <2> QED BY Zenon, <2>1 DEF LifeInv, SlotInv
<1>6. HasSpace'
  BY Zenon, <1>3 DEF LifeInv, HasSpace
<1>7. ThreadShares'
  BY Zenon DEF LifeInv, ThreadShares
<1>8. ParentAlive'
  <2>1. ParentAlive
    BY Zenon DEF LifeInv
  <2>2. \A q \in Procs : parent[q] # NoProc => parent[q] \in Procs
    BY Zenon, <1>1 DEF TypeOK
  <2> QED BY Zenon, <1>3, <2>1, <2>2 DEF ParentAlive, Alive
<1>9. SpacesInv'
  <2>1. {q \in Procs : state'[q] # "UNUSED"} = {q \in Procs : state[q] # "UNUSED"}
    BY Zenon, <1>3
  <2> QED BY Zenon, <2>1 DEF LifeInv, SpacesInv
<1>10. \A d : pgdir_users(d)' = pgdir_users(d)
  BY Zenon, <1>3 DEF pgdir_users
<1> QED BY Zenon, <1>4, <1>5, <1>6, <1>7, <1>8, <1>9, <1>10

\* The facts about fork and exec follow when nobody enters them and no user joins.
LEMMA SoleFrame ==
  ASSUME SchedInv, SoleUser,
         \A p \in Procs : state'[p] = state[p] \/ (state[p] \in Alive /\ state'[p] \in Alive),
         pgdir' = pgdir, \A d : pgdir_users(d)' = pgdir_users(d),
         \A p \in Procs : pc'[p] = pc[p] \/ pc'[p] \notin {"fork", "fork_fill", "exec"}
  PROVE  SoleUser'
<1> SUFFICES ASSUME NEW p \in Procs, state'[p] \in {"RUNNING", "RUNNABLE"},
                    pc'[p] \in {"fork", "fork_fill", "exec"}
             PROVE  pgdir_users(pgdir[p])' = {p}
  BY Zenon DEF SoleUser
<1>1. pc[p] \in {"fork", "fork_fill", "exec"} /\ state[p] \in Alive
  BY Zenon DEF Alive
<1>2. state[p] # "SLEEPING"
  BY Zenon, <1>1 DEF SchedInv, BuildInv
<1> QED BY Zenon, <1>1, <1>2 DEF SoleUser, Alive

\* Nobody falls asleep in wait or join, and nobody exits.
LEMMA ExitFrame ==
  ASSUME SchedInv, NoMissedExit,
         \A p \in Procs : state'[p] = state[p] \/ (state[p] \in Alive /\ state'[p] \in Alive),
         UNCHANGED <<parent, isthread>>,
         \A p \in Procs : state'[p] = "SLEEPING" /\ pc'[p] \in {"wait", "join"} =>
           state[p] = "SLEEPING" /\ pc'[p] = pc[p] /\ chan'[p] = chan[p]
             /\ killed'[p] = killed[p]
  PROVE  NoMissedExit'
<1> SUFFICES ASSUME NEW p \in Procs, state'[p] = "SLEEPING", pc'[p] \in {"wait", "join"}
             PROVE  /\ ~killed'[p]
                    /\ chan'[p] = p
                    /\ \A q \in Procs : parent[q] = p /\ (pc'[p] = "join" => isthread[q])
                                         => state'[q] # "ZOMBIE"
  BY DEF NoMissedExit
<1>1. /\ state[p] = "SLEEPING" /\ pc'[p] = pc[p]
      /\ chan'[p] = chan[p] /\ killed'[p] = killed[p]
  OBVIOUS
<1>2. \A q \in Procs : state'[q] = "ZOMBIE" => state[q] = "ZOMBIE"
  BY Zenon DEF Alive
<1> QED BY Zenon, <1>1, <1>2 DEF NoMissedExit

\* The steps of the scheduler and of the timer.
LEMMA LifeSchedStep ==
  ASSUME SchedInv, LifeInv,
         TimerTick \/ scheduler_tick
           \/ \E c \in Cpus : scheduler(c) \/ trap_slice(c) \/ setpriority(c),
         \A c \in Cpus : scheduler(c) => Dispatched(c)
  PROVE  LifeInv'
<1>1. TypeOK /\ RunQueueInv
  BY Zenon DEF SchedInv
<1>2. UNCHANGED <<pc, killed, pgdir, spaces, parent, isthread, np>>
  BY ZenonT(60) DEF TimerTick, scheduler_tick, scheduler, trap_slice, setpriority, spaceVars, identVars
<1> DEFINE Kept(p) ==
             /\ state'[p] = state[p] \/ (state[p] \in Alive /\ state'[p] \in Alive)
             /\ state'[p] = "SLEEPING" => state[p] = "SLEEPING" /\ chan'[p] = chan[p]
<1>3. \A p \in Procs : Kept(p)
  <2>1. CASE TimerTick
    BY Zenon, <1>1, <2>1 DEF TimerTick, Sleepers, Alive, TypeOK
  <2>2. CASE scheduler_tick
    BY Zenon, <2>2 DEF scheduler_tick
  <2>3. ASSUME NEW c \in Cpus, setpriority(c) PROVE \A p \in Procs : Kept(p)
    BY Zenon, <2>3 DEF setpriority
  <2>4. ASSUME NEW c \in Cpus, trap_slice(c) PROVE \A p \in Procs : Kept(p)
    <3>1. chan' = chan /\ (state' = state \/ (cpu[c] # NoProc
                                        /\ state' = [state EXCEPT ![cpu[c]] = "RUNNABLE"]))
      BY Zenon, <2>4 DEF trap_slice
    <3>2. cpu[c] # NoProc => cpu[c] \in Procs /\ state[cpu[c]] = "RUNNING"
      BY Zenon, RunningFacts
    <3> QED BY Zenon, <1>1, <3>1, <3>2 DEF TypeOK, Alive
  <2>5. ASSUME NEW c \in Cpus, scheduler(c) PROVE \A p \in Procs : Kept(p)
    <3>1. PICK p \in Procs : /\ state[p] = "RUNNABLE"
                             /\ state' = [state EXCEPT ![p] = "RUNNING"]
                             /\ chan' = [chan EXCEPT ![p] = NoChan]
      BY Zenon, <2>5 DEF Dispatched
    <3> QED BY Zenon, <1>1, <3>1 DEF TypeOK, Alive
  <2> QED BY Zenon, <2>1, <2>2, <2>3, <2>4, <2>5
<1>4. /\ InitInv' /\ SlotInv' /\ HasSpace' /\ ThreadShares' /\ ParentAlive' /\ SpacesInv'
      /\ \A d : pgdir_users(d)' = pgdir_users(d)
  BY Zenon, <1>2, <1>3, LifeFrame
<1>5. SoleUser'
  BY Zenon, <1>2, <1>3, <1>4, SoleFrame DEF LifeInv
<1>6. NoMissedExit'
  BY Zenon, <1>2, <1>3, ExitFrame DEF LifeInv
<1> QED BY Zenon, <1>4, <1>5, <1>6 DEF LifeInv

\* wakeup(), futex_wake() and kill(): whoever is marked by kill() is awake.
LEMMA LifeWakeStep ==
  ASSUME SchedInv, LifeInv,
         (\E ch \in Chans : wakeup(ch)) \/ (\E c \in Cpus : futex_wake(c) \/ kill(c))
  PROVE  LifeInv'
<1>1. TypeOK
  BY Zenon DEF SchedInv
<1>2. UNCHANGED <<pc, chan, pgdir, spaces, parent, isthread, np>>
  BY Zenon DEF wakeup, futex_wake, kill, idleRest, spaceVars, identVars
<1> DEFINE Kept(p) ==
             /\ state'[p] = state[p] \/ (state[p] \in Alive /\ state'[p] \in Alive)
             /\ state'[p] = "SLEEPING" => state[p] = "SLEEPING" /\ killed'[p] = killed[p]
<1>3. \A p \in Procs : Kept(p)
  <2>1. ASSUME NEW ch \in Chans, wakeup(ch) PROVE \A p \in Procs : Kept(p)
    BY Zenon, <2>1 DEF wakeup, MadeRunnable, Sleepers, Alive, idleRest
  <2>2. ASSUME NEW c \in Cpus, futex_wake(c) PROVE \A p \in Procs : Kept(p)
    <3>1. PICK S \in SUBSET Procs : /\ \A p \in S : state[p] = "SLEEPING"
                                    /\ state' = MadeRunnable(S)
      BY Zenon, <2>2 DEF futex_wake, Sleepers
    <3>2. killed' = killed
      BY Zenon, <2>2 DEF futex_wake, idleRest
    <3> QED BY Zenon, <3>1, <3>2 DEF MadeRunnable, Alive
  <2>3. ASSUME NEW c \in Cpus, kill(c) PROVE \A p \in Procs : Kept(p)
    <3> DEFINE victim(k) == CHOOSE x \in Procs :
                              pid[x] = k /\ \A y \in Procs : pid[y] = k => x <= y
    <3>1. PICK k \in KillArgs :
            /\ killed' = [killed EXCEPT ![victim(k)] = TRUE]
            /\ state' = MadeRunnable({victim(k)} \cap {q \in Procs : state[q] = "SLEEPING"})
      BY Zenon, <2>3 DEF kill, Asleep
    <3> HIDE DEF victim
    <3>2. \A p \in Procs : killed'[p] = IF p = victim(k) THEN TRUE ELSE killed[p]
      BY Zenon, <1>1, <3>1 DEF TypeOK
    <3>3. \A p \in Procs : state'[p] = IF p = victim(k) /\ state[p] = "SLEEPING"
                                       THEN "RUNNABLE" ELSE state[p]
      BY Zenon, <3>1 DEF MadeRunnable
    <3> QED BY Zenon, <3>2, <3>3 DEF Alive
  <2> QED BY Zenon, <2>1, <2>2, <2>3
<1>4. /\ InitInv' /\ SlotInv' /\ HasSpace' /\ ThreadShares' /\ ParentAlive' /\ SpacesInv'
      /\ \A d : pgdir_users(d)' = pgdir_users(d)
  BY Zenon, <1>2, <1>3, LifeFrame
<1>5. SoleUser'
  BY Zenon, <1>2, <1>3, <1>4, SoleFrame DEF LifeInv
<1>6. NoMissedExit'
  BY Zenon, <1>2, <1>3, ExitFrame DEF LifeInv
<1> QED BY Zenon, <1>4, <1>5, <1>6 DEF LifeInv

\* A running process moves in its own code and its address space stays put.
LEMMA LifeGotoStep ==
  ASSUME SchedInv, LifeInv, NEW c \in Cpus, cpu[c] # NoProc,
         NEW pt \in {"user", "kernel", "fork", "exec", "exit"},
         pt = "exit" => cpu[c] # initproc,
         pt \in {"fork", "exec"} => ~addrspace_shared(cpu[c]),
         Goto(cpu[c], pt), UNCHANGED <<state, killed, chan, spaceVars, identVars>>
  PROVE  LifeInv'
<1>1. TypeOK
  BY Zenon DEF SchedInv
<1>2. cpu[c] \in Procs /\ state[cpu[c]] = "RUNNING"
  BY Zenon, RunningFacts
<1>3. \A p \in Procs : pc'[p] = IF p = cpu[c] THEN pt ELSE pc[p]
  BY Zenon, <1>1 DEF Goto, TypeOK
<1>4. UNCHANGED <<pgdir, spaces, parent, isthread, np>>
  BY Zenon DEF spaceVars, identVars
<1>5. \A p \in Procs : pc'[p] = pc[p] \/
        pc'[p] \in {"user", "kernel", "fork", "exec", "wait"}
          \cup (IF p = initproc THEN {} ELSE {"exit", "join"})
  BY Zenon, <1>3
<1>6. /\ InitInv' /\ SlotInv' /\ HasSpace' /\ ThreadShares' /\ ParentAlive' /\ SpacesInv'
      /\ \A d : pgdir_users(d)' = pgdir_users(d)
  BY Zenon, <1>4, <1>5, LifeFrame
<1>7. SoleUser'
  <2> SUFFICES ASSUME NEW p \in Procs, state'[p] \in {"RUNNING", "RUNNABLE"},
                      pc'[p] \in {"fork", "fork_fill", "exec"}
               PROVE  pgdir_users(pgdir[p])' = {p}
    BY Zenon, <1>4 DEF SoleUser
  <2>0. pgdir_users(pgdir[p])' = pgdir_users(pgdir[p])
    BY Zenon, <1>4 DEF pgdir_users
  <2>1. CASE p = cpu[c]
    <3>1. pgdir_users(pgdir[p]) \ {p} = {} /\ p \in pgdir_users(pgdir[p])
      BY Zenon, <1>2, <1>3, <2>1 DEF addrspace_shared, pgdir_users
    <3> QED BY Zenon, <2>0, <3>1
  <2>2. CASE p # cpu[c]
    BY Zenon, <1>3, <2>0, <2>2 DEF LifeInv, SoleUser
  <2> QED BY Zenon, <2>1, <2>2
<1>8. \A p \in Procs : state'[p] = "SLEEPING" /\ pc'[p] \in {"wait", "join"} =>
        state[p] = "SLEEPING" /\ pc'[p] = pc[p] /\ chan'[p] = chan[p] /\ killed'[p] = killed[p]
  BY Zenon, <1>2, <1>3
<1>9. NoMissedExit'
  BY Zenon, <1>4, <1>8, ExitFrame DEF LifeInv
<1> QED BY Zenon, <1>6, <1>7, <1>9 DEF LifeInv

\* The system calls and traps that only move the caller.
LEMMA LifeGotoSteps ==
  ASSUME SchedInv, LifeInv, NEW c \in Cpus,
         fork_begin(c) \/ exec_begin(c) \/ syscall_enter(c) \/ syscall_return(c)
           \/ exit_begin(c)
  PROVE  LifeInv'
<1>1. cpu[c] # NoProc
  BY Zenon DEF fork_begin, exec_begin, CheckUnshared, syscall_enter, syscall_return, exit_begin,
         Syscall, At
<1>2. UNCHANGED <<state, killed, chan, spaceVars, identVars>>
  BY Zenon DEF fork_begin, exec_begin, CheckUnshared, syscall_enter, syscall_return, exit_begin,
         idleRest
<1>3. PICK pt \in {"user", "kernel", "fork", "exec", "exit"} :
        /\ pt = "exit" => cpu[c] # initproc
        /\ pt \in {"fork", "exec"} => ~addrspace_shared(cpu[c])
        /\ Goto(cpu[c], pt)
  BY Zenon DEF fork_begin, exec_begin, CheckUnshared, syscall_enter, syscall_return, exit_begin
<1> QED BY Zenon, <1>1, <1>2, <1>3, LifeGotoStep

\* The caller falls asleep; in wait and join it has looked for zombies first.
LEMMA LifeSleepStep ==
  ASSUME SchedInv, LifeInv, NEW c \in Cpus, cpu[c] # NoProc, NEW ch \in Nat,
         NEW pt \in {"kernel", "exit", "wait", "join"},
         pt \in {"exit", "join"} => cpu[c] # initproc,
         pt \in {"wait", "join"} =>
           /\ ~killed[cpu[c]] /\ ch = cpu[c]
           /\ \A q \in Procs : parent[q] = cpu[c] /\ (pt = "join" => isthread[q])
                                => state[q] # "ZOMBIE",
         SleepOn(c, ch, pt)
  PROVE  LifeInv'
<1> DEFINE p == cpu[c]
<1>1. TypeOK
  BY Zenon DEF SchedInv
<1>2. p \in Procs /\ state[p] = "RUNNING"
  BY Zenon, RunningFacts
<1>3. \A x \in Procs : /\ pc'[x] = IF x = p THEN pt ELSE pc[x]
                       /\ state'[x] = IF x = p THEN "SLEEPING" ELSE state[x]
                       /\ chan'[x] = IF x = p THEN ch ELSE chan[x]
  BY Zenon, <1>1 DEF SleepOn, Goto, TypeOK
<1>4. UNCHANGED <<pgdir, spaces, parent, isthread, np, killed>>
  BY Zenon DEF SleepOn, idleRest, spaceVars, identVars
<1> HIDE DEF p
<1>5. \A x \in Procs : pc'[x] = pc[x] \/
        pc'[x] \in {"user", "kernel", "fork", "exec", "wait"}
          \cup (IF x = initproc THEN {} ELSE {"exit", "join"})
  BY Zenon, <1>3 DEF p
<1>6. \A x \in Procs : state'[x] = state[x] \/ (state[x] \in Alive /\ state'[x] \in Alive)
  BY Zenon, <1>2, <1>3 DEF Alive
<1>7. /\ InitInv' /\ SlotInv' /\ HasSpace' /\ ThreadShares' /\ ParentAlive' /\ SpacesInv'
      /\ \A d : pgdir_users(d)' = pgdir_users(d)
  BY Zenon, <1>4, <1>5, <1>6, LifeFrame
<1>8. \A x \in Procs : pc'[x] = pc[x] \/ pc'[x] \notin {"fork", "fork_fill", "exec"}
  BY Zenon, <1>3
<1>9. SoleUser'
  BY Zenon, <1>4, <1>6, <1>7, <1>8, SoleFrame DEF LifeInv
<1>10. NoMissedExit'
  <2> SUFFICES ASSUME NEW x \in Procs, state'[x] = "SLEEPING", pc'[x] \in {"wait", "join"}
               PROVE  /\ ~killed[x]
                      /\ chan'[x] = x
                      /\ \A q \in Procs : parent[q] = x /\ (pc'[x] = "join" => isthread[q])
                                           => state'[q] # "ZOMBIE"
    BY Zenon, <1>4 DEF NoMissedExit
  <2>1. \A q \in Procs : state'[q] = "ZOMBIE" => state[q] = "ZOMBIE"
    BY Zenon, <1>3
  <2>2. CASE x = p
    BY Zenon, <1>3, <2>1, <2>2 DEF p
  <2>3. CASE x # p
    BY Zenon, <1>3, <2>1, <2>3 DEF LifeInv, NoMissedExit
  <2> QED BY Zenon, <2>2, <2>3
<1> QED BY Zenon, <1>7, <1>9, <1>10 DEF LifeInv

\* An address space exists when it has a user.
LEMMA SpacesByUsers ==
  /\ SpacesInv <=> \A d : d \in spaces <=> d # NoPgdir /\ pgdir_users(d) # {}
  /\ SpacesInv' <=> \A d : d \in spaces' <=> d # NoPgdir /\
                      {p \in Procs : state'[p] # "UNUSED" /\ pgdir'[p] = d} # {}
<1>1. SpacesInv <=> \A d : d \in spaces <=> d # NoPgdir /\ pgdir_users(d) # {}
  BY Zenon DEF SpacesInv, pgdir_users
<1>2. SpacesInv' <=> \A d : d \in spaces' <=> d # NoPgdir /\
                      {p \in Procs : state'[p] # "UNUSED" /\ pgdir'[p] = d} # {}
  BY Zenon DEF SpacesInv
<1> QED BY Zenon, <1>1, <1>2

\* A fresh slot has no parent, no children and no address space.
LEMMA LifeAllocStep ==
  ASSUME LeastExists, SchedInv, LifeInv, NEW c \in Cpus, cpu[c] # NoProc, ~Building(cpu[c]),
         NEW to \in {"fork_fill", "clone_fill"}, allocproc(c, to),
         to = "fork_fill" => pc[cpu[c]] = "fork",
         to = "clone_fill" => cpu[c] # initproc
  PROVE  LifeInv'
<1> DEFINE p == cpu[c]
           q == CHOOSE x \in FreeSlots : \A y \in FreeSlots : x <= y
<1>1. TypeOK /\ BuildInv
  BY Zenon DEF SchedInv
<1>2. p \in Procs /\ state[p] = "RUNNING"
  BY Zenon, RunningFacts
<1>3. q \in Procs /\ state[q] = "UNUSED"
  <2>1. FreeSlots # {} /\ FreeSlots \in SUBSET Nat
    BY NProcAssumption DEF allocproc, FreeSlots, Procs
  <2>2. \E x \in FreeSlots : \A y \in FreeSlots : x <= y
    BY Zenon, <2>1 DEF LeastExists
  <2>3. q \in FreeSlots
    BY Zenon, <2>2
  <2> QED BY SMTT(60), <2>3 DEF FreeSlots
<1>4. \A x \in Procs :
        /\ state'[x] = IF x = q THEN "EMBRYO" ELSE state[x]
        /\ pgdir'[x] = IF x = q THEN NoPgdir ELSE pgdir[x]
        /\ isthread'[x] = IF x = q THEN FALSE ELSE isthread[x]
        /\ np'[x] = IF x = p THEN q ELSE np[x]
        /\ pc'[x] = IF x = q THEN "user" ELSE IF x = p THEN to ELSE pc[x]
  <2>1. /\ state' = [state EXCEPT ![q] = "EMBRYO"]
        /\ pgdir' = [pgdir EXCEPT ![q] = NoPgdir]
        /\ isthread' = [isthread EXCEPT ![q] = FALSE]
        /\ np' = [np EXCEPT ![p] = q]
        /\ pc' = [pc EXCEPT ![p] = to, ![q] = "user"]
    BY Zenon DEF allocproc
  <2>2. /\ DOMAIN state = Procs /\ DOMAIN pgdir = Procs /\ DOMAIN isthread = Procs
        /\ DOMAIN np = Procs /\ DOMAIN pc = Procs
    BY Zenon, <1>1 DEF TypeOK
  <2> HIDE DEF p, q
  <2> QED BY Zenon, <1>2, <1>3, <2>1, <2>2
<1>5. UNCHANGED <<killed, chan, spaces, parent>>
  BY Zenon DEF allocproc
<1> HIDE DEF q
<1>6. /\ parent[q] = NoProc /\ p # q
      /\ \A x \in Procs : parent[x] # q /\ (Building(x) => np[x] # q)
  <2>1. \A x \in Procs : parent[x] # q
    BY SMTT(60), <1>3 DEF LifeInv, ParentAlive, NoProc, Procs
  <2> QED BY Zenon, <1>1, <1>2, <1>3, <2>1 DEF LifeInv, ParentAlive, BuildInv
<1>7. InitInv'
  <2>1. initproc \in Procs
    BY SMTT(60), NProcAssumption DEF initproc, Procs
  <2>2. initproc # q
    BY Zenon, <1>3 DEF LifeInv, InitInv, Alive
  <2> QED BY Zenon, <1>4, <1>5, <2>1, <2>2 DEF LifeInv, InitInv
<1>8. SlotInv'
  <2> SUFFICES ASSUME NEW x \in Procs
               PROVE  /\ pc'[x] \in {"fork_fill", "clone_fill"} =>
                           parent'[np'[x]] = NoProc /\ pgdir'[np'[x]] = NoPgdir
                      /\ pc'[x] = "publish" => pgdir'[np'[x]] # NoPgdir
    BY Zenon DEF SlotInv
  <2>1. CASE x = p
    BY ZenonT(60), <1>3, <1>4, <1>5, <1>6, <2>1
  <2>2. CASE x # p
    <3>1. CASE x # q /\ Building(x)
      <4>1. np[x] \in Procs /\ np[x] # q /\ pc'[x] = pc[x] /\ np'[x] = np[x]
        BY Zenon, <1>1, <1>4, <1>6, <2>2, <3>1 DEF BuildInv
      <4>2. parent'[np'[x]] = parent[np[x]] /\ pgdir'[np'[x]] = pgdir[np[x]]
        BY ZenonT(60), <1>4, <1>5, <4>1
      <4> QED BY Zenon, <4>1, <4>2 DEF LifeInv, SlotInv
    <3>2. CASE x = q \/ ~Building(x)
      BY Zenon, <1>4, <2>2, <3>2 DEF Building
    <3> QED BY ZenonT(60), <3>1, <3>2
  <2> QED BY Zenon, <2>1, <2>2
<1>9. HasSpace'
  BY Zenon, <1>4 DEF LifeInv, HasSpace, Alive
<1>10. ThreadShares'
  <2>1. \A x \in Procs : parent[x] # NoProc => parent[x] \in Procs /\ x # q /\ parent[x] # q
    BY Zenon, <1>1, <1>6 DEF TypeOK
  <2> QED BY Zenon, <1>4, <1>5, <2>1 DEF LifeInv, ThreadShares
<1>11. ParentAlive'
  <2>1. \A x \in Procs : parent[x] # NoProc => parent[x] \in Procs /\ x # q /\ parent[x] # q
    BY Zenon, <1>1, <1>6 DEF TypeOK
  <2> QED BY Zenon, <1>4, <1>5, <2>1 DEF LifeInv, ParentAlive
<1>12. ASSUME NEW d, d # NoPgdir
       PROVE  {x \in Procs : state'[x] # "UNUSED" /\ pgdir'[x] = d} = pgdir_users(d)
  BY ZenonT(60), <1>3, <1>4, <1>12 DEF pgdir_users
<1>13. SpacesInv'
  BY Zenon, <1>5, <1>12, SpacesByUsers DEF LifeInv
<1>14. SoleUser'
  <2> SUFFICES ASSUME NEW x \in Procs, state'[x] \in {"RUNNING", "RUNNABLE"},
                      pc'[x] \in {"fork", "fork_fill", "exec"}
               PROVE  {y \in Procs : state'[y] # "UNUSED" /\ pgdir'[y] = pgdir'[x]} = {x}
    BY Zenon DEF SoleUser, pgdir_users
  <2>1. x # q /\ state[x] \in {"RUNNING", "RUNNABLE"} /\ pgdir'[x] = pgdir[x]
    BY Zenon, <1>4
  <2>2. pc[x] \in {"fork", "fork_fill", "exec"}
    BY ZenonT(60), <1>4, <2>1
  <2>3. pgdir[x] # NoPgdir
    BY Zenon, <2>1 DEF LifeInv, HasSpace, Alive
  <2> QED BY Zenon, <1>12, <2>1, <2>2, <2>3 DEF LifeInv, SoleUser
<1>15. NoMissedExit'
  <2> SUFFICES ASSUME NEW x \in Procs, state'[x] = "SLEEPING", pc'[x] \in {"wait", "join"}
               PROVE  /\ ~killed[x]
                      /\ chan[x] = x
                      /\ \A y \in Procs : parent[y] = x /\ (pc'[x] = "join" => isthread'[y])
                                           => state'[y] # "ZOMBIE"
    BY Zenon, <1>5 DEF NoMissedExit
  <2>1. state[x] = "SLEEPING" /\ pc[x] = pc'[x]
    BY Zenon, <1>2, <1>4
  <2>2. \A y \in Procs : state'[y] = "ZOMBIE" => state[y] = "ZOMBIE" /\ isthread'[y] = isthread[y]
    BY ZenonT(60), <1>4
  <2> QED BY ZenonT(60), <2>1, <2>2 DEF LifeInv, NoMissedExit
<1> QED BY Zenon, <1>7, <1>8, <1>9, <1>10, <1>11, <1>13, <1>14, <1>15 DEF LifeInv

\* fork and clone take a slot, or fork gives up.
LEMMA LifeAllocSteps ==
  ASSUME LeastExists, SchedInv, LifeInv, NEW c \in Cpus, fork_alloc(c) \/ clone_alloc(c)
  PROVE  LifeInv'
<1>1. cpu[c] # NoProc /\ ~Building(cpu[c])
  BY Zenon DEF fork_alloc, clone_alloc, Syscall, At, Building
<1>2. CASE pc[cpu[c]] = "fork" /\ allocproc(c, "fork_fill")
  BY Zenon, <1>1, <1>2, LifeAllocStep
<1>3. CASE cpu[c] # initproc /\ allocproc(c, "clone_fill")
  BY Zenon, <1>1, <1>3, LifeAllocStep
<1>4. CASE /\ Goto(cpu[c], "user")
           /\ UNCHANGED <<state, killed, chan, schedRest, spaceVars, identVars>>
  <2>1. UNCHANGED <<state, killed, chan, spaceVars, identVars>>
    BY Zenon, <1>4
  <2> QED BY Zenon, <1>1, <1>4, <2>1, LifeGotoStep
<1> QED BY Zenon, <1>2, <1>3, <1>4 DEF fork_alloc, clone_alloc, At

\* A slot that goes back had no parent and no address space yet.
LEMMA LifeAllocFailsStep ==
  ASSUME SchedInv, LifeInv, NEW c \in Cpus, alloc_fails(c)
  PROVE  LifeInv'
<1> DEFINE p == cpu[c]
           q == np[cpu[c]]
<1>1. TypeOK /\ BuildInv
  BY Zenon DEF SchedInv
<1>2. cpu[c] # NoProc /\ Building(cpu[c]) /\ pc[p] \in {"fork_fill", "clone_fill"}
  BY Zenon DEF alloc_fails, At, Building
<1>3. /\ p \in Procs /\ state[p] = "RUNNING"
      /\ q \in Procs /\ state[q] = "EMBRYO" /\ q # p /\ ~Building(q)
      /\ \A x \in Procs : Building(x) /\ np[x] = q => x = p
  BY Zenon, <1>2, BuilderFacts
<1>4. parent[q] = NoProc /\ pgdir[q] = NoPgdir /\ \A x \in Procs : parent[x] # q
  <2>1. \A x \in Procs : parent[x] # q
    BY SMTT(60), <1>3 DEF LifeInv, ParentAlive, NoProc, Procs
  <2> QED BY Zenon, <1>2, <1>3, <2>1 DEF LifeInv, SlotInv
<1>5. \A x \in Procs :
        /\ state'[x] = IF x = q THEN "UNUSED" ELSE state[x]
        /\ np'[x] = IF x = p THEN NoProc ELSE np[x]
        /\ pc'[x] = IF x = p THEN "user" ELSE pc[x]
  BY Zenon, <1>1 DEF alloc_fails, Goto, TypeOK
<1>6. UNCHANGED <<killed, chan, spaces, pgdir, parent, isthread>>
  BY Zenon DEF alloc_fails, spaceVars
<1> HIDE DEF p, q
<1>7. InitInv'
  <2>1. initproc \in Procs /\ initproc # q
    BY SMTT(60), <1>3, NProcAssumption DEF LifeInv, InitInv, Alive, initproc, Procs
  <2> QED BY Zenon, <1>5, <1>6, <2>1 DEF LifeInv, InitInv
<1>8. SlotInv'
  <2> SUFFICES ASSUME NEW x \in Procs
               PROVE  /\ pc'[x] \in {"fork_fill", "clone_fill"} =>
                           parent[np'[x]] = NoProc /\ pgdir[np'[x]] = NoPgdir
                      /\ pc'[x] = "publish" => pgdir[np'[x]] # NoPgdir
    BY Zenon, <1>6 DEF SlotInv
  <2>1. CASE x = p
    BY Zenon, <1>5, <2>1
  <2>2. CASE x # p
    <3>1. np'[x] = np[x] /\ pc'[x] = pc[x]
      BY Zenon, <1>5, <2>2
    <3>2. /\ pc[x] \in {"fork_fill", "clone_fill"} =>
                parent[np[x]] = NoProc /\ pgdir[np[x]] = NoPgdir
          /\ pc[x] = "publish" => pgdir[np[x]] # NoPgdir
      BY Zenon DEF LifeInv, SlotInv
    <3> QED BY Zenon, <3>1, <3>2
  <2> QED BY Zenon, <2>1, <2>2
<1>9. HasSpace'
  BY Zenon, <1>5, <1>6 DEF LifeInv, HasSpace, Alive
<1>10. ThreadShares'
  BY Zenon, <1>6 DEF LifeInv, ThreadShares
<1>11. ParentAlive'
  <2>1. \A x \in Procs : parent[x] # NoProc => parent[x] \in Procs /\ x # q /\ parent[x] # q
    BY Zenon, <1>1, <1>4 DEF TypeOK
  <2> QED BY Zenon, <1>5, <1>6, <2>1 DEF LifeInv, ParentAlive
<1>12. ASSUME NEW d, d # NoPgdir
       PROVE  {x \in Procs : state'[x] # "UNUSED" /\ pgdir'[x] = d} = pgdir_users(d)
  BY Zenon, <1>4, <1>5, <1>6, <1>12 DEF pgdir_users
<1>13. SpacesInv'
  BY Zenon, <1>6, <1>12, SpacesByUsers DEF LifeInv
<1>14. SoleUser'
  <2> SUFFICES ASSUME NEW x \in Procs, state'[x] \in {"RUNNING", "RUNNABLE"},
                      pc'[x] \in {"fork", "fork_fill", "exec"}
               PROVE  {y \in Procs : state'[y] # "UNUSED" /\ pgdir'[y] = pgdir'[x]} = {x}
    BY Zenon DEF SoleUser, pgdir_users
  <2>1. state[x] \in {"RUNNING", "RUNNABLE"} /\ pgdir'[x] = pgdir[x]
        /\ pc[x] \in {"fork", "fork_fill", "exec"}
    BY Zenon, <1>5, <1>6
  <2>2. pgdir[x] # NoPgdir
    BY Zenon, <2>1 DEF LifeInv, HasSpace, Alive
  <2> QED BY Zenon, <1>12, <2>1, <2>2 DEF LifeInv, SoleUser
<1>15. NoMissedExit'
  <2> SUFFICES ASSUME NEW x \in Procs, state'[x] = "SLEEPING", pc'[x] \in {"wait", "join"}
               PROVE  /\ ~killed[x]
                      /\ chan[x] = x
                      /\ \A y \in Procs : parent[y] = x /\ (pc'[x] = "join" => isthread[y])
                                           => state'[y] # "ZOMBIE"
    BY Zenon, <1>6 DEF NoMissedExit
  <2>1. state[x] = "SLEEPING" /\ pc[x] = pc'[x]
    BY Zenon, <1>5
  <2>2. \A y \in Procs : state'[y] = "ZOMBIE" => state[y] = "ZOMBIE"
    BY Zenon, <1>5
  <2> QED BY Zenon, <2>1, <2>2 DEF LifeInv, NoMissedExit
<1> QED BY Zenon, <1>7, <1>8, <1>9, <1>10, <1>11, <1>13, <1>14, <1>15 DEF LifeInv

(* The child gets its parent and its address space: a new one from fork,   *)
(* which nobody else uses, or the parent's from clone.                     *)
LEMMA LifeFillStep ==
  ASSUME SchedInv, LifeInv, NEW c \in Cpus, fork_fill(c) \/ clone_fill(c)
  PROVE  LifeInv'
<1> DEFINE p == cpu[c]
           q == np[cpu[c]]
<1>1. TypeOK /\ BuildInv
  BY Zenon DEF SchedInv
<1>2. cpu[c] # NoProc /\ Building(cpu[c]) /\ pc[p] \in {"fork_fill", "clone_fill"}
  BY Zenon DEF fork_fill, clone_fill, At, Building
<1>3. /\ p \in Procs /\ state[p] = "RUNNING"
      /\ q \in Procs /\ state[q] = "EMBRYO" /\ q # p /\ ~Building(q)
      /\ \A x \in Procs : Building(x) /\ np[x] = q => x = p
  BY Zenon, <1>2, BuilderFacts
<1>4. parent[q] = NoProc /\ pgdir[q] = NoPgdir /\ \A x \in Procs : parent[x] # q
  <2>1. \A x \in Procs : parent[x] # q
    BY SMTT(60), <1>3 DEF LifeInv, ParentAlive, NoProc, Procs
  <2> QED BY Zenon, <1>2, <1>3, <2>1 DEF LifeInv, SlotInv
<1>5. pgdir[p] # NoPgdir /\ pgdir[p] \in spaces /\ pgdir[p] \in PgDirs
  <2>1. pgdir[p] # NoPgdir /\ pgdir[p] \in PgDirs
    BY Zenon, <1>1, <1>3 DEF LifeInv, HasSpace, Alive, TypeOK
  <2>2. p \in pgdir_users(pgdir[p])
    BY Zenon, <1>3 DEF pgdir_users
  <2> QED BY Zenon, <2>1, <2>2, SpacesByUsers DEF LifeInv
<1>6. PICK d \in PgDirs, thread \in BOOLEAN :
        /\ FillSlot(p, d, thread) /\ spaces' = spaces \cup {d} /\ d # NoPgdir
        /\ \/ d \notin spaces /\ ~thread
           \/ d = pgdir[p] /\ thread /\ pc[p] = "clone_fill"
  <2>1. CASE fork_fill(c)
    <3>1. \A d \in PgDirs : d # NoPgdir
      BY Zenon, PgDirAssumption DEF NoPgdir
    <3>2. PICK d \in PgDirs \ spaces : FillSlot(p, d, FALSE) /\ spaces' = spaces \cup {d}
      BY Zenon, <2>1 DEF fork_fill
    <3> QED BY Zenon, <3>1, <3>2
  <2>2. CASE clone_fill(c)
    <3>1. FillSlot(p, pgdir[p], TRUE) /\ spaces' = spaces /\ pc[p] = "clone_fill"
      BY ZenonT(60), <2>2 DEF clone_fill, At
    <3>2. spaces' = spaces \cup {pgdir[p]}
      BY Zenon, <1>5, <3>1
    <3> QED BY Zenon, <1>5, <3>1, <3>2
  <2> QED BY Zenon, <2>1, <2>2
<1>7. \A x \in Procs :
        /\ pgdir'[x] = IF x = q THEN d ELSE pgdir[x]
        /\ parent'[x] = IF x = q THEN p ELSE parent[x]
        /\ pc'[x] = IF x = p THEN "publish" ELSE pc[x]
  BY Zenon, <1>1, <1>6 DEF FillSlot, Goto, TypeOK
<1>8. \A x \in Procs : isthread'[x] = IF x = q THEN thread ELSE isthread[x]
  BY Zenon, <1>1, <1>6 DEF FillSlot, TypeOK
<1>9. UNCHANGED <<state, killed, chan, np>>
  BY Zenon, <1>6 DEF FillSlot
<1>10. p # NoProc
  BY Zenon, <1>2
<1> HIDE DEF p, q
<1>11. initproc \in Procs /\ initproc # q
  BY SMTT(60), <1>3, NProcAssumption DEF LifeInv, InitInv, Alive, initproc, Procs
<1>12. InitInv'
  BY ZenonT(60), <1>3, <1>7, <1>9, <1>11 DEF LifeInv, InitInv
<1>13. SlotInv'
  <2> SUFFICES ASSUME NEW x \in Procs
               PROVE  /\ pc'[x] \in {"fork_fill", "clone_fill"} =>
                           parent'[np[x]] = NoProc /\ pgdir'[np[x]] = NoPgdir
                      /\ pc'[x] = "publish" => pgdir'[np[x]] # NoPgdir
    BY Zenon, <1>9 DEF SlotInv
  <2>1. CASE x = p
    BY ZenonT(60), <1>3, <1>6, <1>7, <2>1 DEF q, p
  <2>2. CASE x # p /\ Building(x)
    <3>1. np[x] \in Procs /\ np[x] # q
      BY Zenon, <1>1, <1>3, <2>2 DEF BuildInv
    <3>2. pgdir'[np[x]] = pgdir[np[x]] /\ parent'[np[x]] = parent[np[x]] /\ pc'[x] = pc[x]
      BY Zenon, <1>7, <2>2, <3>1
    <3> QED BY ZenonT(60), <3>2 DEF LifeInv, SlotInv
  <2>3. CASE x # p /\ ~Building(x)
    BY Zenon, <1>7, <2>3 DEF Building
  <2> QED BY Zenon, <2>1, <2>2, <2>3
<1>14. HasSpace'
  BY Zenon, <1>3, <1>7, <1>9 DEF LifeInv, HasSpace, Alive
<1>15. ThreadShares'
  <2> SUFFICES ASSUME NEW x \in Procs, parent'[x] # NoProc, parent'[x] # initproc,
                      isthread'[x]
               PROVE  pgdir'[x] = pgdir'[parent'[x]]
    BY Zenon DEF ThreadShares
  <2>1. CASE x = q
    BY Zenon, <1>3, <1>6, <1>7, <1>8, <2>1
  <2>2. CASE x # q
    <3>1. parent[x] \in Procs /\ parent[x] # q /\ parent'[x] = parent[x]
      <4>1. parent'[x] = parent[x] /\ parent[x] # q
        BY Zenon, <1>4, <1>7, <2>2
      <4>2. parent[x] \in Procs \cup {NoProc}
        BY ZenonT(60), <1>1 DEF TypeOK
      <4> QED BY Zenon, <4>1, <4>2
    <3>2. pgdir[x] = pgdir[parent[x]]
      BY ZenonT(60), <1>7, <1>8, <2>2, <3>1 DEF LifeInv, ThreadShares
    <3> QED BY Zenon, <1>7, <2>2, <3>1, <3>2
  <2> QED BY Zenon, <2>1, <2>2
<1>16. ParentAlive'
  <2>1. \A x \in Procs : parent[x] # NoProc => parent[x] \in Procs
    BY Zenon, <1>1 DEF TypeOK
  <2> QED BY Zenon, <1>3, <1>7, <1>9, <2>1 DEF LifeInv, ParentAlive
<1>17. ASSUME NEW e, e # NoPgdir
       PROVE  {x \in Procs : state'[x] # "UNUSED" /\ pgdir'[x] = e}
                = pgdir_users(e) \cup (IF e = d THEN {q} ELSE {})
  BY ZenonT(60), <1>3, <1>4, <1>7, <1>9, <1>17 DEF pgdir_users
<1>18. SpacesInv'
  <2>1. \A e : e \in spaces <=> e # NoPgdir /\ pgdir_users(e) # {}
    BY Zenon, SpacesByUsers DEF LifeInv
  <2>2. \A e : e \in spaces' <=> e # NoPgdir /\
                 {x \in Procs : state'[x] # "UNUSED" /\ pgdir'[x] = e} # {}
    BY SMTT(60), <1>6, <1>17, <2>1
  <2> QED BY Zenon, <2>2, SpacesByUsers
<1>19. SoleUser'
  <2> SUFFICES ASSUME NEW x \in Procs, state'[x] \in {"RUNNING", "RUNNABLE"},
                      pc'[x] \in {"fork", "fork_fill", "exec"}
               PROVE  {y \in Procs : state'[y] # "UNUSED" /\ pgdir'[y] = pgdir'[x]} = {x}
    BY Zenon DEF SoleUser, pgdir_users
  <2>1. x # p /\ x # q /\ state[x] \in {"RUNNING", "RUNNABLE"} /\ pgdir'[x] = pgdir[x]
        /\ pc[x] \in {"fork", "fork_fill", "exec"}
    BY Zenon, <1>3, <1>7, <1>9
  <2>2. pgdir[x] # NoPgdir /\ pgdir_users(pgdir[x]) = {x}
    BY Zenon, <2>1 DEF LifeInv, HasSpace, SoleUser, Alive
  <2>3. pgdir[x] \in spaces
    BY Zenon, <2>2, SpacesByUsers DEF LifeInv
  <2>4. d # pgdir[x]
    <3>1. CASE d \notin spaces
      BY Zenon, <2>3, <3>1
    <3>2. CASE d = pgdir[p]
      BY Zenon, <1>3, <2>1, <2>2, <3>2 DEF pgdir_users
    <3> QED BY Zenon, <1>6, <3>1, <3>2
  <2> QED BY Zenon, <1>17, <2>1, <2>2, <2>4
<1>20. NoMissedExit'
  <2> SUFFICES ASSUME NEW x \in Procs, state[x] = "SLEEPING", pc'[x] \in {"wait", "join"}
               PROVE  /\ ~killed[x]
                      /\ chan[x] = x
                      /\ \A y \in Procs : parent'[y] = x /\ (pc'[x] = "join" => isthread'[y])
                                           => state[y] # "ZOMBIE"
    BY Zenon, <1>9 DEF NoMissedExit
  <2>1. pc[x] = pc'[x]
    BY ZenonT(60), <1>7
  <2>2. \A y \in Procs : state[y] = "ZOMBIE" =>
          parent'[y] = parent[y] /\ isthread'[y] = isthread[y]
    BY Zenon, <1>3, <1>7, <1>8
  <2> QED BY SMTT(60), <2>1, <2>2 DEF LifeInv, NoMissedExit
<1> QED BY Zenon, <1>12, <1>13, <1>14, <1>15, <1>16, <1>18, <1>19, <1>20 DEF LifeInv

\* The child starts with its own parent and address space.
LEMMA LifePublishStep ==
  ASSUME SchedInv, LifeInv, NEW c \in Cpus, fork_publish(c)
  PROVE  LifeInv'
<1> DEFINE p == cpu[c]
           q == np[cpu[c]]
<1>1. TypeOK /\ BuildInv
  BY Zenon DEF SchedInv
<1>2. cpu[c] # NoProc /\ Building(cpu[c]) /\ pc[p] = "publish"
  BY ZenonT(60) DEF fork_publish, At, Building
<1>3. /\ p \in Procs /\ state[p] = "RUNNING"
      /\ q \in Procs /\ state[q] = "EMBRYO" /\ q # p
      /\ \A x \in Procs : Building(x) /\ np[x] = q => x = p
  BY ZenonT(60), <1>2, BuilderFacts
<1>4. pgdir[q] # NoPgdir /\ pc[q] \in {"user", "exit"}
  BY Zenon, <1>1, <1>2, <1>3 DEF LifeInv, SlotInv, BuildInv
<1>5. \A x \in Procs :
        /\ state'[x] = IF x = q THEN "RUNNABLE" ELSE state[x]
        /\ np'[x] = IF x = p THEN NoProc ELSE np[x]
        /\ pc'[x] = IF x = p THEN "user" ELSE pc[x]
  BY Zenon, <1>1 DEF fork_publish, Goto, TypeOK
<1>6. UNCHANGED <<killed, chan, spaces, pgdir, parent, isthread>>
  BY Zenon DEF fork_publish, spaceVars
<1> HIDE DEF p, q
<1>7. InitInv'
  <2>1. initproc \in Procs /\ initproc # q
    BY SMTT(60), <1>3, NProcAssumption DEF LifeInv, InitInv, Alive, initproc, Procs
  <2> QED BY Zenon, <1>5, <1>6, <2>1 DEF LifeInv, InitInv
<1>8. SlotInv'
  <2> SUFFICES ASSUME NEW x \in Procs
               PROVE  /\ pc'[x] \in {"fork_fill", "clone_fill"} =>
                           parent[np'[x]] = NoProc /\ pgdir[np'[x]] = NoPgdir
                      /\ pc'[x] = "publish" => pgdir[np'[x]] # NoPgdir
    BY Zenon, <1>6 DEF SlotInv
  <2>1. CASE x = p
    BY Zenon, <1>5, <2>1
  <2>2. CASE x # p
    <3>1. np'[x] = np[x] /\ pc'[x] = pc[x]
      BY Zenon, <1>5, <2>2
    <3>2. /\ pc[x] \in {"fork_fill", "clone_fill"} =>
                parent[np[x]] = NoProc /\ pgdir[np[x]] = NoPgdir
          /\ pc[x] = "publish" => pgdir[np[x]] # NoPgdir
      BY Zenon DEF LifeInv, SlotInv
    <3> QED BY Zenon, <3>1, <3>2
  <2> QED BY Zenon, <2>1, <2>2
<1>9. HasSpace'
  BY Zenon, <1>4, <1>5, <1>6 DEF LifeInv, HasSpace, Alive
<1>10. ThreadShares'
  BY Zenon, <1>6 DEF LifeInv, ThreadShares
<1>11. ParentAlive'
  <2>1. \A x \in Procs : parent[x] # NoProc => parent[x] \in Procs
    BY Zenon, <1>1 DEF TypeOK
  <2> QED BY Zenon, <1>5, <1>6, <2>1 DEF LifeInv, ParentAlive
<1>12. ASSUME NEW d
       PROVE  {x \in Procs : state'[x] # "UNUSED" /\ pgdir'[x] = d} = pgdir_users(d)
  BY Zenon, <1>3, <1>5, <1>6 DEF pgdir_users
<1>13. SpacesInv'
  BY Zenon, <1>6, <1>12, SpacesByUsers DEF LifeInv
<1>14. SoleUser'
  <2> SUFFICES ASSUME NEW x \in Procs, state'[x] \in {"RUNNING", "RUNNABLE"},
                      pc'[x] \in {"fork", "fork_fill", "exec"}
               PROVE  {y \in Procs : state'[y] # "UNUSED" /\ pgdir'[y] = pgdir'[x]} = {x}
    BY Zenon DEF SoleUser, pgdir_users
  <2>1. x # p /\ x # q
    BY ZenonT(60), <1>3, <1>4, <1>5
  <2> QED BY Zenon, <1>5, <1>6, <1>12, <2>1 DEF LifeInv, SoleUser
<1>15. NoMissedExit'
  <2> SUFFICES ASSUME NEW x \in Procs, state'[x] = "SLEEPING", pc'[x] \in {"wait", "join"}
               PROVE  /\ ~killed[x]
                      /\ chan[x] = x
                      /\ \A y \in Procs : parent[y] = x /\ (pc'[x] = "join" => isthread[y])
                                           => state'[y] # "ZOMBIE"
    BY Zenon, <1>6 DEF NoMissedExit
  <2>1. state[x] = "SLEEPING" /\ pc[x] = pc'[x]
    BY Zenon, <1>5
  <2>2. \A y \in Procs : state'[y] = "ZOMBIE" => state[y] = "ZOMBIE"
    BY Zenon, <1>5
  <2> QED BY Zenon, <2>1, <2>2 DEF LifeInv, NoMissedExit
<1> QED BY Zenon, <1>7, <1>8, <1>9, <1>10, <1>11, <1>13, <1>14, <1>15 DEF LifeInv

(* exec replaces an address space that only the caller uses: no thread of  *)
(* the caller, and not the parent of the caller if that is a thread.       *)
LEMMA LifeExecStep ==
  ASSUME SchedInv, LifeInv, NEW c \in Cpus, exec_commit(c)
  PROVE  LifeInv'
<1> DEFINE p == cpu[c]
<1>1. TypeOK /\ BuildInv
  BY Zenon DEF SchedInv
<1>2. cpu[c] # NoProc /\ pc[p] = "exec" /\ Goto(p, "user")
  BY Zenon DEF exec_commit, At
<1>3. p \in Procs /\ state[p] = "RUNNING"
  BY Zenon, <1>2, RunningFacts
<1>4. UNCHANGED <<state, killed, chan, identVars>>
  BY Zenon DEF exec_commit
<1>5. CASE UNCHANGED spaceVars
  BY Zenon, <1>2, <1>4, <1>5, LifeGotoStep
<1>6. ASSUME NEW d \in PgDirs \ spaces,
             pgdir' = [pgdir EXCEPT ![p] = d], spaces' = (spaces \ {pgdir[p]}) \cup {d}
      PROVE  LifeInv'
  <2>1. pgdir_users(pgdir[p]) = {p} /\ pgdir[p] # NoPgdir
    BY Zenon, <1>2, <1>3 DEF LifeInv, SoleUser, HasSpace, Alive
  <2>2. d # NoPgdir
    BY Zenon, PgDirAssumption DEF NoPgdir
  <2>3. \A x \in Procs : /\ pgdir'[x] = IF x = p THEN d ELSE pgdir[x]
                         /\ pc'[x] = IF x = p THEN "user" ELSE pc[x]
    BY Zenon, <1>1, <1>2, <1>6 DEF Goto, TypeOK
  <2>4. UNCHANGED <<parent, isthread, np>>
    BY Zenon, <1>4 DEF identVars
  <2> HIDE DEF p
  <2>5. \A e : e \in spaces <=> e # NoPgdir /\ pgdir_users(e) # {}
    BY Zenon, SpacesByUsers DEF LifeInv
  <2>6. pgdir_users(d) = {} /\ d # pgdir[p]
    BY Zenon, <2>1, <2>2, <2>5
  <2>7. ASSUME NEW e
        PROVE  {x \in Procs : state'[x] # "UNUSED" /\ pgdir'[x] = e}
                 = IF e = d THEN {p} ELSE IF e = pgdir[p] THEN {} ELSE pgdir_users(e)
    <3>1. CASE e = d
      BY Zenon, <1>3, <1>4, <2>3, <2>6, <3>1 DEF pgdir_users
    <3>2. CASE e = pgdir[p]
      BY SMTT(60), <1>3, <1>4, <2>1, <2>3, <2>6, <3>2 DEF pgdir_users
    <3>3. CASE e # d /\ e # pgdir[p]
      BY Zenon, <1>3, <1>4, <2>3, <3>3 DEF pgdir_users
    <3> QED BY ZenonT(60), <3>1, <3>2, <3>3, <2>6
  <2>8. InitInv'
    BY SMTT(60), <1>4, <2>3, <2>4, NProcAssumption DEF LifeInv, InitInv, initproc, Procs
  <2>9. SlotInv'
    <3> SUFFICES ASSUME NEW x \in Procs
                 PROVE  /\ pc'[x] \in {"fork_fill", "clone_fill"} =>
                             parent[np[x]] = NoProc /\ pgdir'[np[x]] = NoPgdir
                        /\ pc'[x] = "publish" => pgdir'[np[x]] # NoPgdir
      BY Zenon, <2>4 DEF SlotInv
    <3>1. CASE Building(x) /\ x # p
      <4>1. np[x] \in Procs /\ np[x] # p
        BY Zenon, <1>1, <1>3, <3>1 DEF BuildInv
      <4>2. pgdir'[np[x]] = pgdir[np[x]] /\ pc'[x] = pc[x]
        BY Zenon, <2>3, <3>1, <4>1
      <4> QED BY Zenon, <4>2 DEF LifeInv, SlotInv
    <3>2. CASE ~Building(x) \/ x = p
      BY Zenon, <2>3, <3>2 DEF Building
    <3> QED BY ZenonT(60), <3>1, <3>2
  <2>10. HasSpace'
    BY Zenon, <1>4, <2>2, <2>3 DEF LifeInv, HasSpace
  <2>11. ThreadShares'
    <3> SUFFICES ASSUME NEW x \in Procs, parent[x] # NoProc, parent[x] # initproc,
                        isthread[x]
                 PROVE  pgdir'[x] = pgdir'[parent[x]]
      BY Zenon, <2>4 DEF ThreadShares
    <3>1. parent[x] \in Procs /\ state[x] # "UNUSED" /\ state[parent[x]] # "UNUSED"
      BY ZenonT(60), <1>1 DEF LifeInv, ParentAlive, TypeOK
    <3>2. pgdir[x] = pgdir[parent[x]]
      BY Zenon DEF LifeInv, ThreadShares
    <3>3. x = p <=> parent[x] = p
      BY <2>1, <3>1, <3>2 DEF pgdir_users
    <3> QED BY Zenon, <2>3, <3>1, <3>2, <3>3
  <2>12. ParentAlive'
    BY Zenon, <1>4, <2>4 DEF LifeInv, ParentAlive
  <2>13. SpacesInv'
    <3>1. ASSUME NEW e
          PROVE  e \in spaces' <=> e # NoPgdir /\
                   {x \in Procs : state'[x] # "UNUSED" /\ pgdir'[x] = e} # {}
      <4> DEFINE U == {x \in Procs : state'[x] # "UNUSED" /\ pgdir'[x] = e}
      <4>1. U = IF e = d THEN {p} ELSE IF e = pgdir[p] THEN {} ELSE pgdir_users(e)
        BY Zenon, <2>7
      <4> HIDE DEF U
      <4>2. spaces' = (spaces \ {pgdir[p]}) \cup {d}
        BY Zenon, <1>6
      <4>3. e \in spaces' <=> e # NoPgdir /\ U # {}
        BY Zenon, <2>2, <2>5, <2>6, <4>1, <4>2
      <4> QED BY Zenon, <4>3 DEF U
    <3> QED BY Zenon, <3>1, SpacesByUsers
  <2>14. SoleUser'
    <3> SUFFICES ASSUME NEW x \in Procs, state'[x] \in {"RUNNING", "RUNNABLE"},
                        pc'[x] \in {"fork", "fork_fill", "exec"}
                 PROVE  {y \in Procs : state'[y] # "UNUSED" /\ pgdir'[y] = pgdir'[x]} = {x}
      BY Zenon DEF SoleUser, pgdir_users
    <3>1. x # p /\ pgdir_users(pgdir[x]) = {x} /\ pgdir'[x] = pgdir[x]
      BY Zenon, <1>4, <2>3 DEF LifeInv, SoleUser
    <3>2. pgdir[x] # d /\ pgdir[x] # pgdir[p]
      BY Zenon, <2>1, <2>6, <3>1
    <3> QED BY Zenon, <2>7, <3>1, <3>2
  <2>15. NoMissedExit'
    <3>1. \A x \in Procs : pc'[x] \in {"wait", "join"} => pc'[x] = pc[x]
      BY Zenon, <2>3
    <3> QED BY ZenonT(60), <1>4, <2>4, <3>1 DEF LifeInv, NoMissedExit
  <2> QED BY Zenon, <2>8, <2>9, <2>10, <2>11, <2>12, <2>13, <2>14, <2>15 DEF LifeInv
<1> QED BY Zenon, <1>5, <1>6 DEF exec_commit

(* exit() wakes whoever could be waiting for the new zombie or, as init,   *)
(* for the zombies it inherits, and leaves no child behind.                *)
LEMMA LifeExitStep ==
  ASSUME SchedInv, LifeInv, NEW c \in Cpus, exit(c)
  PROVE  LifeInv'
<1> DEFINE p == cpu[c]
           w1 == ParentWakes(p)
           w2 == OrphanWakes(p, w1)
<1>1. TypeOK /\ BuildInv
  BY Zenon DEF SchedInv
<1>2. cpu[c] # NoProc /\ pc[p] = "exit"
  BY Zenon DEF exit, At
<1>3. p \in Procs /\ state[p] = "RUNNING"
  BY Zenon, <1>2, RunningFacts
<1>4. \A x \in Procs :
        /\ state'[x] = IF x = p THEN "ZOMBIE"
                       ELSE IF x \in w1 \cup w2 THEN "RUNNABLE" ELSE state[x]
        /\ parent'[x] = IF parent[x] = p THEN initproc ELSE parent[x]
  <2>1. /\ parent' = [x \in Procs |-> IF parent[x] = p THEN initproc ELSE parent[x]]
        /\ state' = [MadeRunnable(w1 \cup w2) EXCEPT ![p] = "ZOMBIE"]
    BY Zenon DEF exit, Reparented
  <2> HIDE DEF w1, w2, p
  <2> QED BY Zenon, <2>1 DEF MadeRunnable
<1>5. UNCHANGED <<killed, chan, pc, spaces, pgdir, isthread, np>>
  BY Zenon DEF exit, spaceVars
<1>6. /\ \A x \in w1 \cup w2 : state[x] = "SLEEPING"
      /\ Sleepers(parent[p]) \subseteq w1 \cup w2
      /\ (\E q \in Procs : parent[q] = p /\ state[q] = "ZOMBIE")
           => Sleepers(initproc) \subseteq w1 \cup w2
  BY Zenon DEF Sleepers, ParentWakes, OrphanWakes
<1>7. initproc \in Procs /\ initproc # p /\ initproc # NoProc
  BY <1>2, NProcAssumption DEF LifeInv, InitInv, initproc, Procs, NoProc
<1>8. p # NoProc
  BY Zenon, <1>2
<1> HIDE DEF p, w1, w2
<1>9. \A x \in Procs : x # p /\ state[x] \in Alive => state'[x] \in Alive
  BY Zenon, <1>4 DEF Alive
<1>10. InitInv'
  BY Zenon, <1>4, <1>5, <1>7, <1>8, <1>9 DEF LifeInv, InitInv
<1>11. SlotInv'
  <2> SUFFICES ASSUME NEW x \in Procs, Building(x)
               PROVE  /\ pc[x] \in {"fork_fill", "clone_fill"} => parent'[np[x]] = NoProc
                                                                  /\ pgdir[np[x]] = NoPgdir
                      /\ pc[x] = "publish" => pgdir[np[x]] # NoPgdir
    BY ZenonT(60), <1>5 DEF SlotInv, Building
  <2>1. np[x] \in Procs
    BY ZenonT(60), <1>1 DEF BuildInv
  <2> QED BY ZenonT(60), <1>4, <1>8, <2>1 DEF LifeInv, SlotInv
<1>12. HasSpace'
  <2>1. \A x \in Procs : state'[x] \in Alive \cup {"ZOMBIE"} =>
          state[x] \in Alive \cup {"ZOMBIE"}
    BY ZenonT(60), <1>3, <1>4, <1>6 DEF Alive
  <2> QED BY ZenonT(60), <1>5, <2>1 DEF LifeInv, HasSpace
<1>13. ThreadShares'
  BY Zenon, <1>4, <1>5 DEF LifeInv, ThreadShares
<1>14. ParentAlive'
  <2> SUFFICES ASSUME NEW x \in Procs, parent'[x] # NoProc
               PROVE  state'[x] # "UNUSED" /\ state'[parent'[x]] \in Alive
    BY Zenon DEF ParentAlive, Alive
  <2>1. parent[x] # NoProc
    BY Zenon, <1>4, <1>8
  <2>2. state[x] # "UNUSED" /\ state[parent[x]] \in Alive /\ parent[x] \in Procs
    BY ZenonT(60), <1>1, <2>1 DEF LifeInv, ParentAlive, Alive, TypeOK
  <2>3. state'[x] # "UNUSED"
    BY ZenonT(60), <1>4, <2>2
  <2>4. CASE parent[x] = p
    BY Zenon, <1>4, <1>7, <1>9, <2>3, <2>4 DEF LifeInv, InitInv
  <2>5. CASE parent[x] # p
    BY Zenon, <1>4, <1>9, <2>2, <2>3, <2>5
  <2> QED BY Zenon, <2>4, <2>5
<1>15. ASSUME NEW d
       PROVE  {x \in Procs : state'[x] # "UNUSED" /\ pgdir'[x] = d} = pgdir_users(d)
  <2>1. \A x \in Procs : state'[x] = "UNUSED" <=> state[x] = "UNUSED"
    BY Zenon, <1>3, <1>4, <1>6
  <2> QED BY Zenon, <1>5, <2>1 DEF pgdir_users
<1>16. SpacesInv'
  BY Zenon, <1>5, <1>15, SpacesByUsers DEF LifeInv
<1>17. SoleUser'
  <2> SUFFICES ASSUME NEW x \in Procs, state'[x] \in {"RUNNING", "RUNNABLE"},
                      pc[x] \in {"fork", "fork_fill", "exec"}
               PROVE  {y \in Procs : state'[y] # "UNUSED" /\ pgdir'[y] = pgdir'[x]} = {x}
    BY Zenon, <1>5 DEF SoleUser, pgdir_users
  <2>1. state[x] # "SLEEPING"
    BY ZenonT(60), <1>1 DEF BuildInv
  <2>2. state[x] \in {"RUNNING", "RUNNABLE"}
    BY Zenon, <1>4, <1>6, <2>1
  <2> QED BY Zenon, <1>5, <1>15, <2>2 DEF LifeInv, SoleUser
<1>18. NoMissedExit'
  <2> SUFFICES ASSUME NEW x \in Procs, state'[x] = "SLEEPING", pc[x] \in {"wait", "join"}
               PROVE  /\ ~killed[x]
                      /\ chan[x] = x
                      /\ \A y \in Procs : parent'[y] = x /\ (pc[x] = "join" => isthread[y])
                                           => state'[y] # "ZOMBIE"
    BY Zenon, <1>5 DEF NoMissedExit
  <2>1. x # p /\ x \notin w1 \cup w2 /\ state[x] = "SLEEPING"
    BY Zenon, <1>4
  <2>2. ~killed[x] /\ chan[x] = x
    BY Zenon, <2>1 DEF LifeInv, NoMissedExit
  <2>3. x \in Sleepers(x)
    BY Zenon, <2>1, <2>2 DEF Sleepers
  <2>4. x # parent[p]
    BY Zenon, <1>6, <2>1, <2>3
  <2>5. ASSUME NEW y \in Procs, parent'[y] = x, pc[x] = "join" => isthread[y]
        PROVE  state'[y] # "ZOMBIE"
    <3>1. CASE parent[y] = p
      <4>1. x = initproc /\ y # p
        BY Zenon, <1>3, <1>4, <2>5, <3>1 DEF LifeInv, InitInv
      <4>2. state[y] # "ZOMBIE"
        BY Zenon, <1>6, <2>1, <2>3, <3>1, <4>1
      <4> QED BY Zenon, <1>4, <4>1, <4>2
    <3>2. CASE parent[y] # p
      <4>1. parent[y] = x /\ y # p
        BY Zenon, <1>4, <2>4, <2>5, <3>2
      <4>2. state[y] # "ZOMBIE"
        BY Zenon, <2>1, <2>5, <4>1 DEF LifeInv, NoMissedExit
      <4> QED BY Zenon, <1>4, <4>1, <4>2
    <3> QED BY Zenon, <3>1, <3>2
  <2> QED BY Zenon, <2>2, <2>5
<1> QED BY Zenon, <1>10, <1>11, <1>12, <1>13, <1>14, <1>16, <1>17, <1>18 DEF LifeInv

(* A zombie has no children left to reap it from, and its address space    *)
(* goes away exactly when it was the last user; join() never has to free   *)
(* one, because the caller itself still uses it.                           *)
LEMMA LifeReapStep ==
  ASSUME LeastExists, SchedInv, LifeInv, NEW c \in Cpus, cpu[c] # NoProc, ~Building(cpu[c]),
         NEW kids \in SUBSET Procs, NEW frees \in BOOLEAN, NEW pt \in {"wait", "join"},
         kids = {q \in Procs : parent[q] = cpu[c] /\ (pt = "join" => isthread[q])},
         pt = "join" => cpu[c] # initproc, frees <=> pt = "wait",
         ReapFrom(c, kids, frees, pt)
  PROVE  LifeInv'
<1> DEFINE p == cpu[c]
           zombies == {q \in kids : state[q] = "ZOMBIE"}
           z == CHOOSE x \in zombies : \A y \in zombies : x <= y
<1>1. TypeOK /\ BuildInv
  BY Zenon DEF SchedInv
<1>2. p \in Procs /\ state[p] = "RUNNING"
  BY Zenon, RunningFacts
<1>3. CASE /\ zombies # {}
           /\ spaces' = IF frees /\ pgdir_users(pgdir[z]) = {z}
                        THEN spaces \ {pgdir[z]} ELSE spaces
           /\ pgdir' = [pgdir EXCEPT ![z] = NoPgdir]
           /\ isthread' = [isthread EXCEPT ![z] = FALSE]
           /\ pid' = [pid EXCEPT ![z] = 0]
           /\ parent' = [parent EXCEPT ![z] = NoProc]
           /\ killed' = [killed EXCEPT ![z] = FALSE]
           /\ state' = [state EXCEPT ![z] = "UNUSED"]
           /\ Goto(p, "user")
           /\ UNCHANGED <<chan, schedRest, nextpid, np>>
  <2>1. z \in zombies
    <3>1. zombies \subseteq Procs
      BY Zenon
    <3>2. Procs \subseteq Nat
      BY SMTT(60), NProcAssumption DEF Procs
    <3>3. zombies # {}
      BY Zenon, <1>3
    <3> HIDE DEF zombies
    <3>4. \E x \in zombies : \A y \in zombies : x <= y
      BY Zenon, <3>1, <3>2, <3>3 DEF LeastExists
    <3> QED BY ZenonT(60), <3>4
  <2>2. z \in Procs /\ state[z] = "ZOMBIE" /\ parent[z] = p /\ (pt = "join" => isthread[z])
    BY SMTT(60), <2>1
  <2>3. UNCHANGED <<chan, np>>
    BY Zenon, <1>3
  <2> HIDE DEF z, p, zombies
  <2>4. \A x \in Procs : /\ state'[x] = IF x = z THEN "UNUSED" ELSE state[x]
                         /\ pgdir'[x] = IF x = z THEN NoPgdir ELSE pgdir[x]
                         /\ parent'[x] = IF x = z THEN NoProc ELSE parent[x]
                         /\ pc'[x] = IF x = p THEN "user" ELSE pc[x]
    BY Zenon, <1>1, <1>3 DEF Goto, TypeOK
  <2>5. \A x \in Procs : x # z => isthread'[x] = isthread[x] /\ killed'[x] = killed[x]
    BY Zenon, <1>1, <1>3 DEF TypeOK
  <2>6. \A x \in Procs : parent[x] # z /\ (Building(x) => np[x] # z)
    <3>1. \A x \in Procs : parent[x] # z
      BY SMTT(60), <2>2 DEF LifeInv, ParentAlive, NoProc, Procs
    <3> QED BY Zenon, <1>1, <2>2, <3>1 DEF BuildInv
  <2>7. pgdir[z] # NoPgdir /\ z \in pgdir_users(pgdir[z]) /\ z # p
    BY Zenon, <1>2, <2>2 DEF LifeInv, HasSpace, pgdir_users
  <2>8. initproc \in Procs /\ initproc # z /\ NoProc \notin Procs
    BY SMTT(60), <2>2, NProcAssumption DEF LifeInv, InitInv, Alive, initproc, Procs, NoProc
  <2>9. InitInv'
    BY ZenonT(60), <2>4, <2>8 DEF LifeInv, InitInv
  <2>10. SlotInv'
    <3> SUFFICES ASSUME NEW x \in Procs
                 PROVE  /\ pc'[x] \in {"fork_fill", "clone_fill"} =>
                             parent'[np[x]] = NoProc /\ pgdir'[np[x]] = NoPgdir
                        /\ pc'[x] = "publish" => pgdir'[np[x]] # NoPgdir
      BY ZenonT(60), <2>3 DEF SlotInv
    <3>1. CASE Building(x) /\ x # p
      <4>1. np[x] \in Procs /\ np[x] # z
        BY ZenonT(60), <1>1, <2>6, <3>1 DEF BuildInv
      <4>2. pgdir'[np[x]] = pgdir[np[x]] /\ parent'[np[x]] = parent[np[x]] /\ pc'[x] = pc[x]
        BY ZenonT(60), <2>4, <3>1, <4>1
      <4> QED BY Zenon, <4>2 DEF LifeInv, SlotInv
    <3>2. CASE ~Building(x) \/ x = p
      BY Zenon, <2>4, <3>2 DEF Building
    <3> QED BY Zenon, <3>1, <3>2
  <2>11. HasSpace'
    BY ZenonT(60), <2>4 DEF LifeInv, HasSpace, Alive
  <2>12. \A x \in Procs : parent'[x] # NoProc =>
           /\ x # z /\ parent'[x] = parent[x]
           /\ parent[x] \in Procs /\ parent[x] # z
    BY ZenonT(60), <1>1, <2>4, <2>6 DEF TypeOK
  <2>13. ThreadShares'
    <3> SUFFICES ASSUME NEW x \in Procs, parent'[x] # NoProc, parent'[x] # initproc,
                        isthread'[x]
                 PROVE  pgdir'[x] = pgdir'[parent'[x]]
      BY ZenonT(60) DEF ThreadShares
    <3>1. pgdir[x] = pgdir[parent[x]]
      BY ZenonT(60), <2>5, <2>12 DEF LifeInv, ThreadShares
    <3> QED BY ZenonT(60), <2>4, <2>12, <3>1
  <2>14. ParentAlive'
    BY ZenonT(60), <2>4, <2>12 DEF LifeInv, ParentAlive
  <2>15. ASSUME NEW e, e # NoPgdir
         PROVE  {x \in Procs : state'[x] # "UNUSED" /\ pgdir'[x] = e} = pgdir_users(e) \ {z}
    BY ZenonT(60), <2>4, <2>15 DEF pgdir_users
  <2>16. pt = "join" => p \in pgdir_users(pgdir[z])
    <3> SUFFICES ASSUME pt = "join" PROVE p \in pgdir_users(pgdir[z])
      BY Zenon
    <3>1. parent[z] # NoProc /\ parent[z] # initproc
      BY Zenon, <1>2, <2>2, <2>8 DEF p
    <3>2. pgdir[z] = pgdir[p]
      BY Zenon, <2>2, <3>1 DEF LifeInv, ThreadShares
    <3> QED BY ZenonT(60), <1>2, <3>2 DEF pgdir_users
  <2>17. SpacesInv'
    <3> DEFINE U(e) == {x \in Procs : state'[x] # "UNUSED" /\ pgdir'[x] = e}
    <3>1. ASSUME NEW e PROVE e \in spaces' <=> e # NoPgdir /\ U(e) # {}
      <4>1. e \in spaces <=> e # NoPgdir /\ pgdir_users(e) # {}
        BY Zenon, SpacesByUsers DEF LifeInv
      <4>2. e # NoPgdir => U(e) = pgdir_users(e) \ {z}
        BY ZenonT(60), <2>15
      <4>3. spaces' = IF pgdir_users(pgdir[z]) = {z} THEN spaces \ {pgdir[z]} ELSE spaces
        BY Zenon, <1>2, <1>3, <2>7, <2>16
      <4>4. z \in pgdir_users(e) => e = pgdir[z]
        BY Zenon DEF pgdir_users
      <4> HIDE DEF U
      <4> QED BY Zenon, <2>7, <4>1, <4>2, <4>3, <4>4
    <3> QED BY Zenon, <3>1, SpacesByUsers
  <2>18. SoleUser'
    <3> SUFFICES ASSUME NEW x \in Procs, state'[x] \in {"RUNNING", "RUNNABLE"},
                        pc'[x] \in {"fork", "fork_fill", "exec"}
                 PROVE  {y \in Procs : state'[y] # "UNUSED" /\ pgdir'[y] = pgdir'[x]} = {x}
      BY Zenon DEF SoleUser, pgdir_users
    <3>1. x # z /\ pgdir'[x] = pgdir[x] /\ state[x] \in {"RUNNING", "RUNNABLE"}
          /\ pc[x] \in {"fork", "fork_fill", "exec"}
      BY ZenonT(60), <2>4
    <3>2. pgdir_users(pgdir[x]) = {x} /\ pgdir[x] # NoPgdir
      BY ZenonT(60), <3>1 DEF LifeInv, SoleUser, HasSpace, Alive
    <3> QED BY ZenonT(60), <2>15, <3>1, <3>2
  <2>19. NoMissedExit'
    <3> SUFFICES ASSUME NEW x \in Procs, state'[x] = "SLEEPING", pc'[x] \in {"wait", "join"}
                 PROVE  /\ ~killed'[x]
                        /\ chan'[x] = x
                        /\ \A y \in Procs : parent'[y] = x /\ (pc'[x] = "join" => isthread'[y])
                                             => state'[y] # "ZOMBIE"
      BY Zenon DEF NoMissedExit
    <3>1. x # z /\ x # p /\ state[x] = "SLEEPING" /\ pc[x] = pc'[x]
      BY Zenon, <2>4
    <3>2. ~killed'[x] /\ chan'[x] = x
      BY ZenonT(60), <2>3, <2>5, <3>1 DEF LifeInv, NoMissedExit
    <3>3. \A y \in Procs : state'[y] = "ZOMBIE" =>
            state[y] = "ZOMBIE" /\ parent'[y] = parent[y] /\ isthread'[y] = isthread[y]
      BY ZenonT(60), <2>4, <2>5
    <3> QED BY ZenonT(60), <3>1, <3>2, <3>3 DEF LifeInv, NoMissedExit
  <2> QED BY ZenonT(60), <2>9, <2>10, <2>11, <2>13, <2>14, <2>17, <2>18, <2>19 DEF LifeInv
<1>4. CASE /\ Goto(p, "user")
           /\ UNCHANGED <<state, chan, schedRest, killed, spaceVars, identVars>>
  <2>1. UNCHANGED <<state, killed, chan, spaceVars, identVars>>
    BY ZenonT(60), <1>4
  <2> QED BY ZenonT(60), <1>4, <2>1, LifeGotoStep
<1>5. CASE zombies = {} /\ ~killed[p] /\ SleepOn(c, p, pt)
  <2>1. p \in Nat
    BY SMTT(60), <1>2, NProcAssumption DEF Procs
  <2>2. \A q \in Procs : parent[q] = cpu[c] /\ (pt = "join" => isthread[q])
                          => state[q] # "ZOMBIE"
    BY Zenon, <1>5
  <2> QED BY Zenon, <1>5, <2>1, <2>2, LifeSleepStep
<1> QED BY ZenonT(60), <1>3, <1>4, <1>5 DEF ReapFrom

\* sleep() and futex_wait(), outside wait and join.
LEMMA LifeSleepSteps ==
  ASSUME SchedInv, LifeInv, NEW c \in Cpus, sleep(c)
  PROVE  LifeInv'
<1>1. cpu[c] # NoProc
  BY Zenon DEF sleep, At
<1>2. Chans \cup {Ticks} \subseteq Nat
  BY SMTT(60), NProcAssumption, ChanAssumption DEF Chans, Ticks
<1>3. PICK ch \in Nat, pt \in {"kernel", "exit"} : SleepOn(c, ch, pt) /\ pc[cpu[c]] = pt
  BY Zenon, <1>2 DEF sleep, At
<1>4. pt = "exit" => cpu[c] # initproc
  BY Zenon, <1>3 DEF LifeInv, InitInv
<1> QED BY Zenon, <1>1, <1>3, <1>4, LifeSleepStep

\* The step of the abstract life cycle that a step of proc.c amounts to.
LifeStep == [Life!Next]_<<state, cpu>>

\* wakeup(), futex_wake(), kill() and the timer: some sleepers become runnable.
LEMMA AwakenRefines ==
  ASSUME TypeOK, NEW S, \A p \in S : p \in Procs /\ state[p] = "SLEEPING",
         state' = [p \in Procs |-> IF p \in S THEN "RUNNABLE" ELSE state[p]],
         cpu' = cpu
  PROVE  LifeStep
<1>1. S \in SUBSET Procs
  OBVIOUS
<1>2. Life!Awaken(S)
  BY Zenon DEF Life!Awaken
<1> QED BY Zenon, <1>1, <1>2 DEF LifeStep, Life!Next

\* A slot changes hands while every processor keeps its process.
LEMMA SlotRefines ==
  ASSUME NEW p \in Procs, cpu' = cpu, NEW to, state' = [state EXCEPT ![p] = to],
         \/ state[p] = "UNUSED" /\ to = "EMBRYO"
         \/ state[p] = "EMBRYO" /\ to \in {"UNUSED", "RUNNABLE"}
         \/ state[p] = "ZOMBIE" /\ to = "UNUSED" /\ p # initproc
  PROVE  LifeStep
<1>1. Life!Slot(p)
  BY ZenonT(60) DEF Life!Slot, Life!Become
<1> QED BY Zenon, <1>1 DEF LifeStep, Life!Next

\* The running process gives up its processor.
LEMMA LeaveRefines ==
  ASSUME SchedInv, NEW c \in Cpus, cpu[c] # NoProc,
         NEW to \in {"RUNNABLE", "SLEEPING", "ZOMBIE"}, NEW S \in SUBSET Procs,
         to = "ZOMBIE" => cpu[c] # initproc,
         to # "ZOMBIE" => S = {},
         \A p \in S : state[p] = "SLEEPING",
         state' = [p \in Procs |-> IF p = cpu[c] THEN to
                                   ELSE IF p \in S THEN "RUNNABLE" ELSE state[p]],
         cpu' = [cpu EXCEPT ![c] = NoProc]
  PROVE  LifeStep
<1>1. state[cpu[c]] = "RUNNING"
  BY Zenon, RunningFacts
<1>2. Life!Leave(c, to, S)
  BY Zenon, <1>1 DEF Life!Leave
<1> QED BY Zenon, <1>2 DEF LifeStep, Life!Next

\* sleep() is a sleep of ProcLife.
LEMMA SleepRefines ==
  ASSUME SchedInv, NEW c \in Cpus, cpu[c] # NoProc, NEW ch, NEW pt, SleepOn(c, ch, pt)
  PROVE  LifeStep
<1>1. cpu' = [cpu EXCEPT ![c] = NoProc]
  BY Zenon DEF SleepOn
<1>2. state' = [p \in Procs |-> IF p = cpu[c] THEN "SLEEPING"
                                ELSE IF p \in {} THEN "RUNNABLE" ELSE state[p]]
  BY Zenon DEF SleepOn, SchedInv, TypeOK
<1>3. {} \in SUBSET Procs /\ "SLEEPING" \in {"RUNNABLE", "SLEEPING", "ZOMBIE"}
  OBVIOUS
<1> QED BY Zenon, <1>1, <1>2, <1>3, LeaveRefines

\* wait() or join() that finds a zombie is a reap of ProcLife.
LEMMA ReapRefines ==
  ASSUME LeastExists, SchedInv, LifeInv, NEW c \in Cpus, cpu[c] # NoProc,
         NEW kids \in SUBSET Procs, NEW frees, NEW pt, ReapFrom(c, kids, frees, pt)
  PROVE  LifeStep
<1> DEFINE zombies == {q \in kids : state[q] = "ZOMBIE"}
           z == CHOOSE x \in zombies : \A y \in zombies : x <= y
<1>1. CASE zombies # {} /\ state' = [state EXCEPT ![z] = "UNUSED"] /\ cpu' = cpu
  <2>1. zombies \subseteq Procs /\ Procs \subseteq Nat
    <3>1. zombies \subseteq Procs
      OBVIOUS
    <3> QED BY <3>1, NProcAssumption DEF Procs
  <2>2. z \in Procs /\ state[z] = "ZOMBIE"
    <3>1. zombies # {}
      BY Zenon, <1>1
    <3>2. z \in zombies
      <4> HIDE DEF zombies
      <4>1. \E x \in zombies : \A y \in zombies : x <= y
        BY Zenon, <2>1, <3>1 DEF LeastExists
      <4> QED BY Zenon, <4>1
    <3> QED BY Zenon, <3>2
  <2>3. z # initproc
    BY ZenonT(60), <2>2 DEF LifeInv, InitInv, Alive
  <2> HIDE DEF z, zombies
  <2> QED BY Zenon, <1>1, <2>2, <2>3, SlotRefines
<1>2. CASE UNCHANGED <<state, cpu>>
  BY Zenon, <1>2 DEF LifeStep
<1>3. CASE SleepOn(c, cpu[c], pt)
  BY Zenon, <1>3, SleepRefines
<1> QED BY Zenon, <1>1, <1>2, <1>3 DEF ReapFrom, schedRest

\* exit() is an exit of ProcLife.
LEMMA ExitRefines ==
  ASSUME SchedInv, LifeInv, NEW c \in Cpus, exit(c)
  PROVE  LifeStep
<1> DEFINE p == cpu[c]
           w1 == ParentWakes(p)
           w2 == OrphanWakes(p, w1)
<1>1. /\ cpu[c] # NoProc /\ pc[p] = "exit"
      /\ cpu' = [cpu EXCEPT ![c] = NoProc]
      /\ state' = [MadeRunnable(w1 \cup w2) EXCEPT ![p] = "ZOMBIE"]
  BY ZenonT(60) DEF exit, At
<1>2. p \in Procs /\ p # initproc
  BY ZenonT(60), <1>1, RunningFacts DEF LifeInv, InitInv
<1>3. /\ w1 \cup w2 \in SUBSET Procs
      /\ \A x \in w1 \cup w2 : state[x] = "SLEEPING"
  BY Zenon DEF Sleepers, ParentWakes, OrphanWakes
<1> HIDE DEF w1, w2
<1>4. state' = [x \in Procs |-> IF x = cpu[c] THEN "ZOMBIE"
                                ELSE IF x \in w1 \cup w2 THEN "RUNNABLE" ELSE state[x]]
  BY Zenon, <1>1, <1>2 DEF MadeRunnable
<1> QED BY Zenon, <1>1, <1>2, <1>3, <1>4, LeaveRefines

\* Every step of one processor.
LEMMA StepRefines ==
  ASSUME LeastExists, SchedInv, LifeInv, NEW c \in Cpus, Step(c), scheduler(c) => Dispatched(c)
  PROVE  LifeStep
<1>1. TypeOK
  BY Zenon DEF SchedInv
<1>2. CASE scheduler(c)
  <2>1. PICK p \in Procs : /\ state[p] = "RUNNABLE"
                           /\ state' = [state EXCEPT ![p] = "RUNNING"]
                           /\ cpu[c] = NoProc /\ cpu' = [cpu EXCEPT ![c] = p]
    BY Zenon, <1>2 DEF Dispatched
  <2>2. Life!Dispatch(c, p)
    BY Zenon, <2>1 DEF Life!Dispatch, Life!Become
  <2> QED BY Zenon, <2>2 DEF LifeStep, Life!Next
<1>3. CASE trap_slice(c)
  <2>1. CASE UNCHANGED <<state, cpu>>
    BY Zenon, <2>1 DEF LifeStep
  <2>2. CASE /\ cpu[c] # NoProc
             /\ state' = [state EXCEPT ![cpu[c]] = "RUNNABLE"]
             /\ cpu' = [cpu EXCEPT ![c] = NoProc]
    <3>1. state' = [p \in Procs |-> IF p = cpu[c] THEN "RUNNABLE"
                                    ELSE IF p \in {} THEN "RUNNABLE" ELSE state[p]]
      BY Zenon, <1>1, <2>2 DEF TypeOK
    <3>2. {} \in SUBSET Procs /\ "RUNNABLE" \in {"RUNNABLE", "SLEEPING", "ZOMBIE"}
      BY Zenon
    <3> QED BY ZenonT(60), <2>2, <3>1, <3>2, LeaveRefines
  <2> QED BY Zenon, <1>3, <2>1, <2>2 DEF trap_slice
<1>4. CASE fork_alloc(c) \/ clone_alloc(c)
  <2> DEFINE q == CHOOSE x \in FreeSlots : \A y \in FreeSlots : x <= y
  <2>1. CASE FreeSlots # {} /\ state' = [state EXCEPT ![q] = "EMBRYO"] /\ cpu' = cpu
    <3>1. FreeSlots \subseteq Nat /\ FreeSlots # {}
      BY <2>1, NProcAssumption DEF FreeSlots, Procs
    <3>2. \E x \in FreeSlots : \A y \in FreeSlots : x <= y
      BY Zenon, <3>1 DEF LeastExists
    <3>3. q \in FreeSlots
      BY Zenon, <3>2
    <3>4. q \in Procs /\ state[q] = "UNUSED"
      BY <3>3 DEF FreeSlots
    <3> HIDE DEF q
    <3> QED BY ZenonT(60), <2>1, <3>4, SlotRefines
  <2>2. CASE UNCHANGED <<state, cpu>>
    BY Zenon, <2>2 DEF LifeStep
  <2> QED BY Zenon, <1>4, <2>1, <2>2 DEF fork_alloc, clone_alloc, allocproc, schedRest
<1>5. CASE alloc_fails(c) \/ fork_publish(c)
  <2>1. cpu[c] # NoProc /\ Building(cpu[c])
    BY Zenon, <1>5 DEF alloc_fails, fork_publish, At, Building
  <2>2. np[cpu[c]] \in Procs /\ state[np[cpu[c]]] = "EMBRYO"
    BY ZenonT(60), <2>1, BuilderFacts
  <2>3. \E to \in {"UNUSED", "RUNNABLE"} : state' = [state EXCEPT ![np[cpu[c]]] = to]
    BY Zenon, <1>5 DEF alloc_fails, fork_publish
  <2>4. cpu' = cpu
    BY Zenon, <1>5 DEF alloc_fails, fork_publish, schedRest
  <2> QED BY ZenonT(60), <2>2, <2>3, <2>4, SlotRefines
<1>6. CASE setpriority(c) \/ fork_begin(c) \/ exec_begin(c) \/ fork_fill(c) \/ clone_fill(c)
             \/ exec_commit(c) \/ syscall_enter(c) \/ syscall_return(c) \/ exit_begin(c)
  <2>1. UNCHANGED <<state, cpu>>
    BY ZenonT(60), <1>6 DEF setpriority, fork_begin, exec_begin, CheckUnshared, fork_fill, clone_fill,
                FillSlot, exec_commit, syscall_enter, syscall_return, exit_begin, schedRest
  <2> QED BY Zenon, <2>1 DEF LifeStep
<1>7. CASE sleep(c)
  BY Zenon, <1>7, SleepRefines DEF sleep, At
<1>8. CASE futex_wake(c)
  <2>1. PICK S \in SUBSET Procs : (\A p \in S : state[p] = "SLEEPING") /\ state' = MadeRunnable(S)
    BY ZenonT(60), <1>8 DEF futex_wake, Sleepers
  <2>2. cpu' = cpu
    BY Zenon, <1>8 DEF futex_wake
  <2> QED BY Zenon, <1>1, <2>1, <2>2, AwakenRefines DEF MadeRunnable
<1>9. CASE kill(c)
  <2>1. PICK x : state' = MadeRunnable({x} \cap {q \in Procs : state[q] = "SLEEPING"})
    BY Zenon, <1>9 DEF kill, Asleep
  <2> DEFINE S == {x} \cap {q \in Procs : state[q] = "SLEEPING"}
  <2>2. \A p \in S : p \in Procs /\ state[p] = "SLEEPING"
    OBVIOUS
  <2>3. state' = [p \in Procs |-> IF p \in S THEN "RUNNABLE" ELSE state[p]]
    BY Zenon, <2>1 DEF MadeRunnable
  <2>4. cpu' = cpu
    BY Zenon, <1>9 DEF kill
  <2> HIDE DEF S
  <2> QED BY Zenon, <1>1, <2>2, <2>3, <2>4, AwakenRefines
<1>10. CASE wait(c)
  <2>1. cpu[c] # NoProc
    BY Zenon, <1>10 DEF wait, Syscall, At
  <2>2. {q \in Procs : parent[q] = cpu[c]} \in SUBSET Procs
    BY Zenon
  <2> QED BY ZenonT(60), <1>10, <2>1, <2>2, ReapRefines DEF wait
<1>11. CASE join(c)
  <2>1. cpu[c] # NoProc
    BY ZenonT(60), <1>11 DEF join, Syscall, At
  <2>2. {q \in Procs : parent[q] = cpu[c] /\ isthread[q]} \in SUBSET Procs
    OBVIOUS
  <2> QED BY ZenonT(60), <1>11, <2>1, <2>2, ReapRefines DEF join
<1> QED BY Zenon, <1>2, <1>3, <1>4, <1>5, <1>6, <1>7, <1>8, <1>9, <1>10, <1>11, ExitRefines DEF Step
=============================================================================
