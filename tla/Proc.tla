-------------------------------- MODULE Proc --------------------------------
(***************************************************************************)
(* The process table and the multi-processor scheduler of proc.c, with the *)
(* timer part of trap.c and the address-space hand-over of exec.c.         *)
(*                                                                         *)
(* One action is one critical section of ptable.lock, or one stretch of    *)
(* code that runs outside it.  A process that gives up the processor does  *)
(* so inside its critical section (sched() switches to the scheduler with  *)
(* the lock held), so the action also empties cpu[c].                      *)
(***************************************************************************)
EXTENDS RunQueue

CONSTANTS QUANTUM_BASE, AGING_INTERVAL, AGING_TICKS,
          NCHAN,     \* sleep channels that are neither a process nor ticks
          PgDirs,    \* page directories
          MaxPid,    \* bound: the largest pid allocproc hands out
          KillArgs   \* bound: the pids passed to kill

ASSUME QuantumAssumption == QUANTUM_BASE \in Nat \ {0}
ASSUME AgingAssumption == AGING_INTERVAL \in Nat \ {0} /\ AGING_TICKS \in Nat \ {0}
ASSUME ChanAssumption == NCHAN \in Nat
ASSUME PgDirAssumption == 0 \notin PgDirs /\ PgDirs # {}
ASSUME PidAssumption == MaxPid \in Nat /\ KillArgs \subseteq Nat

VARIABLES
  state, pid, parent, isthread, pgdir, killed, chan,   \* fields of struct proc
  base_prio, prio, slice, waited, rqcpu,
  pc,        \* where process p is in its own kernel code
  np,        \* the slot p is filling in fork or clone
  runq, nready, cpu,
  since,     \* ticks - last_aged
  irq,       \* how far cpu 0 is in the timer interrupt
  nextpid,
  spaces     \* page directories that exist: set up and not yet freed

queueVars == <<runq, nready>>
prioVars  == <<base_prio, prio, slice, waited>>
timerVars == <<since, irq>>
spaceVars == <<pgdir, spaces>>
identVars == <<pid, parent, isthread, nextpid, np>>
vars == <<state, killed, chan, rqcpu, pc, cpu, queueVars, prioVars, timerVars,
          spaceVars, identVars>>

NoPgdir == 0
NoChan == 0
Ticks == NPROC + 1
Chans == (NPROC + 2)..(NPROC + 1 + NCHAN)
Min2(a, b) == IF a <= b THEN a ELSE b

quantum_for(l) == QUANTUM_BASE * (NPRIO - l)

\* initproc is the first slot that userinit's allocproc finds.
initproc == 1

\* Faulty: a zombie thread does not count as a user.
pgdir_users_living(d) == {p \in Procs : state[p] \notin {"UNUSED", "ZOMBIE"} /\ pgdir[p] = d}
\* The processes that count as users of page directory d.
pgdir_users(d) == {p \in Procs : state[p] # "UNUSED" /\ pgdir[p] = d}
\* Faulty: only the process's own threads are looked for.
addrspace_shared_by_children(p) == \E q \in Procs : parent[q] = p /\ isthread[q]
addrspace_shared(p) == pgdir_users(pgdir[p]) \ {p} # {}

\* Faulty: the state is not looked at.
Sleepers_by_channel(ch) == {p \in Procs : chan[p] = ch}
Sleepers(ch) == {p \in Procs : state[p] = "SLEEPING" /\ chan[p] = ch}

Init ==
  /\ \E d \in PgDirs :
       /\ pgdir = [p \in Procs |-> IF p = initproc THEN d ELSE NoPgdir]
       /\ spaces = {d}
  /\ state = [p \in Procs |-> IF p = initproc THEN "RUNNABLE" ELSE "UNUSED"]
  /\ pid = [p \in Procs |-> IF p = initproc THEN 1 ELSE 0]
  /\ parent = [p \in Procs |-> NoProc]
  /\ isthread = [p \in Procs |-> FALSE]
  /\ killed = [p \in Procs |-> FALSE]
  /\ chan = [p \in Procs |-> NoChan]
  /\ base_prio = [p \in Procs |-> IF p = initproc THEN NPRIO \div 2 ELSE 0]
  /\ prio = base_prio
  /\ slice = [p \in Procs |-> IF p = initproc THEN quantum_for(NPRIO \div 2) ELSE 0]
  /\ waited = [p \in Procs |-> 0]
  /\ rqcpu = [p \in Procs |-> 0]
  /\ pc = [p \in Procs |-> "user"]
  /\ np = [p \in Procs |-> NoProc]
  /\ runq = [c \in Cpus |-> [l \in Levels |->
               IF c = 0 /\ l = NPRIO \div 2 THEN <<initproc>> ELSE << >>]]
  /\ nready = [c \in Cpus |-> IF c = 0 THEN 1 ELSE 0]
  /\ cpu = [c \in Cpus |-> NoProc]
  /\ since = 0
  /\ irq = "none"
  /\ nextpid = 2
-----------------------------------------------------------------------------
(* The process running on cpu c is at pt in its kernel code; on cpu 0 it   *)
(* does not run while the timer interrupt is being handled.                *)
At(c, pt) == cpu[c] # NoProc /\ pc[cpu[c]] = pt /\ (c = 0 => irq = "none")

\* trap() lets a process into a system call only when it is not killed.
Syscall(c) == At(c, "user") /\ ~killed[cpu[c]]

Goto(p, pt) == pc' = [pc EXCEPT ![p] = pt]

\* Every process of s becomes RUNNABLE and is pushed on its own queue.
Wake(s) ==
  /\ runq' = rq_push(runq, s, rqcpu, prio)
  /\ nready' = nready_push(nready, Queued(s), rqcpu)

\* Faulty: a stolen process still counts as one of its old cpu.
scheduler_forgetful(c) ==
  LET q == IF Occupied(runq, c) # {} THEN c ELSE rq_steal(nready, c)
      p == rq_head(runq, q)
  IN /\ cpu[c] = NoProc /\ irq = "none"
     /\ Occupied(runq, c) # {} \/ Victims(nready, c) # {}
     /\ runq' = rq_pop(runq, q)
     /\ nready' = [nready EXCEPT ![q] = @ - 1]
     /\ cpu' = [cpu EXCEPT ![c] = p]
     /\ state' = [state EXCEPT ![p] = "RUNNING"]
     /\ UNCHANGED <<killed, chan, rqcpu, pc, prioVars, timerVars, spaceVars, identVars>>

(* scheduler(): an idle cpu takes the head of its own queue or else of the *)
(* queue it steals from.  The process resumes inside sched(), where sleep  *)
(* clears its channel.                                                     *)
scheduler(c) ==
  /\ cpu[c] = NoProc
  /\ c = 0 => irq = "none"
  /\ Occupied(runq, c) # {} \/ Victims(nready, c) # {}
  /\ LET q == IF Occupied(runq, c) # {} THEN c ELSE rq_steal(nready, c)
         p == rq_head(runq, q)
     IN /\ runq' = rq_pop(runq, q)
        /\ nready' = [nready EXCEPT ![q] = @ - 1]
        /\ rqcpu' = [rqcpu EXCEPT ![p] = c]
        /\ prio' = [prio EXCEPT ![p] = base_prio[p]]
        /\ waited' = [waited EXCEPT ![p] = 0]
        /\ slice' = [slice EXCEPT ![p] = quantum_for(base_prio[p])]
        /\ cpu' = [cpu EXCEPT ![c] = p]
        /\ state' = [state EXCEPT ![p] = "RUNNING"]
        /\ chan' = [chan EXCEPT ![p] = NoChan]
  /\ UNCHANGED <<killed, pc, base_prio, timerVars, spaceVars, identVars>>

(* The timer interrupt on cpu 0 counts a tick and wakes the sleepers on    *)
(* ticks, then runs scheduler_tick, then charges the running process.      *)
TimerTick ==
  /\ irq = "none"
  /\ irq' = "age"
  /\ since' = since + 1
  /\ state' = [p \in Procs |-> IF p \in Sleepers(Ticks) THEN "RUNNABLE" ELSE state[p]]
  /\ Wake(InTableOrder(Sleepers(Ticks)))
  /\ UNCHANGED <<killed, chan, rqcpu, pc, cpu, prioVars, spaceVars, identVars>>

\* Faulty: the time that a process has waited is not counted.
scheduler_tick_unaged ==
  /\ irq = "age"
  /\ irq' = "slice"
  /\ since' = IF since < AGING_INTERVAL THEN since ELSE 0
  /\ UNCHANGED <<waited, prio, runq, state, killed, chan, rqcpu, pc, cpu, nready, base_prio, slice,
                 spaceVars, identVars>>
\* waited is compared with AGING_TICKS only, so it is counted up to there.
scheduler_tick ==
  LET waiting == {p \in Procs : \E c \in Cpus, l \in Levels : p \in Queued(runq[c][l])}
      w(p) == Min2(waited[p] + since, AGING_TICKS)
      boosted == {p \in waiting : w(p) >= AGING_TICKS /\ prio[p] > 0}
  IN /\ irq = "age"
     /\ irq' = "slice"
     /\ IF since < AGING_INTERVAL
        THEN UNCHANGED <<since, waited, prio, runq>>
        ELSE /\ since' = 0
             /\ waited' = [p \in Procs |-> IF p \in boosted THEN 0
                                           ELSE IF p \in waiting THEN w(p) ELSE waited[p]]
             /\ prio' = [p \in Procs |-> IF p \in boosted THEN prio[p] - 1 ELSE prio[p]]
             /\ runq' = rq_age(runq, boosted)
     /\ UNCHANGED <<state, killed, chan, rqcpu, pc, cpu, nready, base_prio, slice,
                    spaceVars, identVars>>

\* The decrement takes the last tick of the quantum.
SliceOver(p) == slice[p] <= 1

(* The rest of the timer interrupt, on any cpu: a killed process in user   *)
(* code is left to exit(), another one loses a tick of its quantum and at  *)
(* the last one yield() puts it back on the queue of this cpu.             *)
trap_slice(c) ==
  LET p == cpu[c]
      spared == p = NoProc \/ (killed[p] /\ pc[p] = "user")
      yields == ~spared /\ SliceOver(p)
      home == [rqcpu EXCEPT ![p] = c]
  IN /\ c = 0 => irq = "slice"
     /\ irq' = IF c = 0 THEN "none" ELSE irq
     /\ slice' = IF spared THEN slice ELSE [slice EXCEPT ![p] = @ - 1]
     /\ IF yields
        THEN /\ state' = [state EXCEPT ![p] = "RUNNABLE"]
             /\ rqcpu' = home
             /\ runq' = rq_push(runq, <<p>>, home, prio)
             /\ nready' = nready_push(nready, {p}, home)
             /\ cpu' = [cpu EXCEPT ![c] = NoProc]
        ELSE UNCHANGED <<state, rqcpu, queueVars, cpu>>
     /\ UNCHANGED <<killed, chan, pc, base_prio, prio, waited, since, spaceVars, identVars>>

\* Faulty: the priority in force stays.
setpriority_base_only(c) ==
  /\ Syscall(c)
  /\ \E l \in Levels :
       /\ base_prio' = [base_prio EXCEPT ![cpu[c]] = l]
       /\ slice' = [slice EXCEPT ![cpu[c]] = quantum_for(l)]
  /\ UNCHANGED <<state, killed, chan, rqcpu, pc, cpu, queueVars, prio, waited, timerVars,
                 spaceVars, identVars>>
setpriority(c) ==
  /\ Syscall(c)
  /\ \E l \in Levels :
       /\ base_prio' = [base_prio EXCEPT ![cpu[c]] = l]
       /\ prio' = [prio EXCEPT ![cpu[c]] = l]
       /\ slice' = [slice EXCEPT ![cpu[c]] = quantum_for(l)]
  /\ UNCHANGED <<state, killed, chan, rqcpu, pc, cpu, queueVars, waited, timerVars,
                 spaceVars, identVars>>
-----------------------------------------------------------------------------
schedRest == <<rqcpu, cpu, queueVars, prioVars, timerVars>>

\* fork() and exec() first make sure that nobody shares the address space.
CheckUnshared(c, pt) ==
  /\ Syscall(c)
  /\ ~addrspace_shared(cpu[c])
  /\ Goto(cpu[c], pt)
  /\ UNCHANGED <<state, killed, chan, schedRest, spaceVars, identVars>>

fork_begin(c) == CheckUnshared(c, "fork")
exec_begin(c) == CheckUnshared(c, "exec")

\* The slots allocproc can take; none once the pids of the bound are used up.
FreeSlots == IF nextpid > MaxPid THEN {} ELSE {q \in Procs : state[q] = "UNUSED"}

(* allocproc takes the first unused slot; the caller goes on with it at to. *)
(* The mark of kill() is not cleared: wait() and join() have done that.    *)
allocproc(c, to) ==
  LET p == cpu[c]
      q == CHOOSE x \in FreeSlots : \A y \in FreeSlots : x <= y
  IN /\ FreeSlots # {}
     /\ state' = [state EXCEPT ![q] = "EMBRYO"]
     /\ pid' = [pid EXCEPT ![q] = nextpid]
     /\ nextpid' = nextpid + 1
     /\ pgdir' = [pgdir EXCEPT ![q] = NoPgdir]
     /\ isthread' = [isthread EXCEPT ![q] = FALSE]
     /\ base_prio' = [base_prio EXCEPT ![q] = NPRIO \div 2]
     /\ prio' = [prio EXCEPT ![q] = NPRIO \div 2]
     /\ slice' = [slice EXCEPT ![q] = quantum_for(NPRIO \div 2)]
     /\ waited' = [waited EXCEPT ![q] = 0]
     /\ rqcpu' = [rqcpu EXCEPT ![q] = 0]
     /\ np' = [np EXCEPT ![p] = q]
     /\ pc' = [pc EXCEPT ![p] = to, ![q] = "user"]
     /\ UNCHANGED <<killed, chan, cpu, queueVars, timerVars, spaces, parent>>

fork_alloc(c) ==
  /\ At(c, "fork")
  /\ \/ allocproc(c, "fork_fill")
     \/ /\ FreeSlots = {}
        /\ Goto(cpu[c], "user")
        /\ UNCHANGED <<state, killed, chan, schedRest, spaceVars, identVars>>

clone_alloc(c) == Syscall(c) /\ cpu[c] # initproc /\ allocproc(c, "clone_fill")

(* No page for the kernel stack or for the copied address space: the slot  *)
(* goes back without the lock.                                             *)
alloc_fails(c) ==
  LET p == cpu[c]
  IN /\ At(c, "fork_fill") \/ At(c, "clone_fill")
     /\ state' = [state EXCEPT ![np[p]] = "UNUSED"]
     /\ np' = [np EXCEPT ![p] = NoProc]
     /\ Goto(p, "user")
     /\ UNCHANGED <<killed, chan, schedRest, spaceVars, pid, parent, isthread, nextpid>>

\* The fields fork and clone copy into the new slot, outside the lock.
FillSlot(p, d, thread) ==
  /\ pgdir' = [pgdir EXCEPT ![np[p]] = d]
  /\ parent' = [parent EXCEPT ![np[p]] = p]
  /\ isthread' = [isthread EXCEPT ![np[p]] = thread]
  /\ base_prio' = [base_prio EXCEPT ![np[p]] = base_prio[p]]
  /\ prio' = [prio EXCEPT ![np[p]] = base_prio[p]]
  /\ Goto(p, "publish")
  /\ UNCHANGED <<state, killed, chan, rqcpu, cpu, queueVars, slice, waited, timerVars,
                 pid, nextpid, np>>

\* fork: cowuvm sets up a page directory for the child.
fork_fill(c) ==
  /\ At(c, "fork_fill")
  /\ \E d \in PgDirs \ spaces :
       /\ FillSlot(cpu[c], d, FALSE)
       /\ spaces' = spaces \cup {d}

clone_fill(c) ==
  /\ At(c, "clone_fill")
  /\ FillSlot(cpu[c], pgdir[cpu[c]], TRUE)
  /\ UNCHANGED spaces

\* The last critical section of fork and clone: the child may run.
fork_publish(c) ==
  LET p == cpu[c]
      q == np[p]
      home == [rqcpu EXCEPT ![q] = least_loaded_cpu(nready)]
  IN /\ At(c, "publish")
     /\ state' = [state EXCEPT ![q] = "RUNNABLE"]
     /\ rqcpu' = home
     /\ runq' = rq_push(runq, <<q>>, home, prio)
     /\ nready' = nready_push(nready, {q}, home)
     /\ np' = [np EXCEPT ![p] = NoProc]
     /\ Goto(p, "user")
     /\ UNCHANGED <<killed, chan, cpu, prioVars, timerVars, spaceVars, pid, parent,
                    isthread, nextpid>>

\* exec installs the new image and frees the old one, or fails half way.
exec_commit(c) ==
  LET p == cpu[c]
  IN /\ At(c, "exec")
     /\ \/ UNCHANGED spaceVars
        \/ \E d \in PgDirs \ spaces :
             /\ pgdir' = [pgdir EXCEPT ![p] = d]
             /\ spaces' = (spaces \ {pgdir[p]}) \cup {d}
     /\ Goto(p, "user")
     /\ UNCHANGED <<state, killed, chan, schedRest, identVars>>
-----------------------------------------------------------------------------
MadeRunnable(S) == [p \in Procs |-> IF p \in S THEN "RUNNABLE" ELSE state[p]]

idleRest == <<killed, prioVars, timerVars, spaceVars, identVars>>

\* Any other system call, and its return to user code.
syscall_enter(c) ==
  /\ Syscall(c)
  /\ Goto(cpu[c], "kernel")
  /\ UNCHANGED <<state, chan, rqcpu, cpu, queueVars, idleRest>>

syscall_return(c) ==
  /\ At(c, "kernel")
  /\ Goto(cpu[c], "user")
  /\ UNCHANGED <<state, chan, rqcpu, cpu, queueVars, idleRest>>

\* Give up the cpu and sleep on ch; pt is where the process will go on.
SleepOn(c, ch, pt) ==
  /\ state' = [state EXCEPT ![cpu[c]] = "SLEEPING"]
  /\ chan' = [chan EXCEPT ![cpu[c]] = ch]
  /\ cpu' = [cpu EXCEPT ![c] = NoProc]
  /\ Goto(cpu[c], pt)
  /\ UNCHANGED <<rqcpu, queueVars, idleRest>>

\* sleep() and futex_wait(), inside a system call or while exit() closes files.
sleep(c) ==
  \/ At(c, "kernel") /\ \E ch \in Chans \cup {Ticks} : SleepOn(c, ch, "kernel")
  \/ At(c, "exit") /\ \E ch \in Chans : SleepOn(c, ch, "exit")

(* wakeup(): every sleeper of the channel, from a process or an interrupt  *)
(* handler.  futex_wake(): the first n sleepers the table scan meets.      *)
wakeup(ch) ==
  /\ Sleepers(ch) # {}
  /\ state' = MadeRunnable(Sleepers(ch))
  /\ Wake(InTableOrder(Sleepers(ch)))
  /\ UNCHANGED <<chan, rqcpu, pc, cpu, idleRest>>

futex_wake(c) ==
  /\ At(c, "kernel")
  /\ \E ch \in Chans : \E n \in 1..Cardinality(Sleepers(ch)) :
       LET first == {p \in Sleepers(ch) :
                       Cardinality({q \in Sleepers(ch) : q < p}) < n}
       IN /\ state' = MadeRunnable(first)
          /\ Wake(InTableOrder(first))
  /\ UNCHANGED <<chan, rqcpu, pc, cpu, idleRest>>

\* Faulty: the victim is made runnable whatever it does.
Asleep_unchecked(p) == {p}
\* Whom kill() wakes: its victim, "from sleep if necessary".
Asleep(p) == {p} \cap {q \in Procs : state[q] = "SLEEPING"}

\* kill() marks the first slot that carries the pid and ends its sleep.
kill(c) ==
  /\ Syscall(c)
  /\ \E k \in KillArgs :
       /\ \E p \in Procs : pid[p] = k
       /\ LET p == CHOOSE x \in Procs : pid[x] = k /\ \A y \in Procs : pid[y] = k => x <= y
          IN /\ killed' = [killed EXCEPT ![p] = TRUE]
             /\ state' = MadeRunnable(Asleep(p))
             /\ Wake(InTableOrder(Asleep(p)))
  /\ UNCHANGED <<chan, rqcpu, pc, cpu, prioVars, timerVars, spaceVars, identVars>>

\* The exit system call, or trap() finding the process killed in user code.
exit_begin(c) ==
  /\ At(c, "user")
  /\ cpu[c] # initproc
  /\ Goto(cpu[c], "exit")
  /\ UNCHANGED <<state, chan, rqcpu, cpu, queueVars, idleRest>>

\* Faulty: zombies keep their parent.
Reparented_living(p) ==
  [q \in Procs |-> IF parent[q] = p /\ state[q] # "ZOMBIE" THEN initproc ELSE parent[q]]
\* Abandoned children go to init.
Reparented(p) == [q \in Procs |-> IF parent[q] = p THEN initproc ELSE parent[q]]

\* Faulty: the parent is not woken.
ParentWakes_nobody(p) == {}
\* "Parent might be sleeping in wait()."
ParentWakes(p) == Sleepers(parent[p])

\* init is woken for those that are zombies, unless the parent's wakeup did it.
OrphanWakes(p, woken) ==
  IF \E q \in Procs : parent[q] = p /\ state[q] = "ZOMBIE"
  THEN Sleepers(initproc) \ woken ELSE {}

(* exit(): wake the parent, hand the children to init and wake it for each *)
(* one that is already a zombie, then give up the cpu for ever.            *)
exit(c) ==
  LET p == cpu[c]
      w1 == ParentWakes(p)
      w2 == OrphanWakes(p, w1)
  IN /\ At(c, "exit")
     /\ parent' = Reparented(p)
     /\ state' = [MadeRunnable(w1 \cup w2) EXCEPT ![p] = "ZOMBIE"]
     /\ Wake(InTableOrder(w1) \o InTableOrder(w2))
     /\ cpu' = [cpu EXCEPT ![c] = NoProc]
     /\ UNCHANGED <<killed, chan, rqcpu, pc, prioVars, timerVars, spaceVars, pid, isthread,
                    nextpid, np>>

(* The scan of wait() and join() over the children in kids: reap the first *)
(* zombie and clear its slot, return when there is nothing to wait for, or *)
(* sleep on the caller's own slot.  Only wait() frees the address space,   *)
(* with its last user.                                                     *)
ReapFrom(c, kids, frees, pt) ==
  LET p == cpu[c]
      zombies == {q \in kids : state[q] = "ZOMBIE"}
      z == CHOOSE x \in zombies : \A y \in zombies : x <= y
  IN \/ /\ zombies # {}
        /\ spaces' = IF frees /\ pgdir_users(pgdir[z]) = {z}
                     THEN spaces \ {pgdir[z]} ELSE spaces
        /\ pgdir' = [pgdir EXCEPT ![z] = NoPgdir]
        /\ isthread' = [isthread EXCEPT ![z] = FALSE]
        /\ pid' = [pid EXCEPT ![z] = 0]
        /\ parent' = [parent EXCEPT ![z] = NoProc]
        /\ killed' = [killed EXCEPT ![z] = FALSE]
        /\ state' = [state EXCEPT ![z] = "UNUSED"]
        /\ Goto(p, "user")
        /\ UNCHANGED <<chan, schedRest, nextpid, np>>
     \/ /\ zombies = {}
        /\ kids = {} \/ killed[p]
        /\ Goto(p, "user")
        /\ UNCHANGED <<state, chan, schedRest, killed, spaceVars, identVars>>
     \/ /\ zombies = {} /\ kids # {} /\ ~killed[p]
        /\ SleepOn(c, p, pt)

wait(c) ==
  /\ Syscall(c) \/ At(c, "wait")
  /\ ReapFrom(c, {q \in Procs : parent[q] = cpu[c]}, TRUE, "wait")

\* join() takes threads only and leaves the address space to its caller.
join(c) ==
  /\ Syscall(c) \/ At(c, "join")
  /\ cpu[c] # initproc
  /\ ReapFrom(c, {q \in Procs : parent[q] = cpu[c] /\ isthread[q]}, FALSE, "join")
-----------------------------------------------------------------------------
Step(c) ==
  \/ scheduler(c) \/ trap_slice(c) \/ setpriority(c)
  \/ fork_begin(c) \/ exec_begin(c) \/ fork_alloc(c) \/ clone_alloc(c)
  \/ alloc_fails(c) \/ fork_fill(c) \/ clone_fill(c) \/ fork_publish(c) \/ exec_commit(c)
  \/ syscall_enter(c) \/ syscall_return(c) \/ sleep(c) \/ futex_wake(c)
  \/ kill(c) \/ exit_begin(c) \/ exit(c) \/ wait(c) \/ join(c)

Next ==
  \/ \E c \in Cpus : Step(c)
  \/ TimerTick \/ scheduler_tick
  \/ \E ch \in Chans : wakeup(ch)

Spec == Init /\ [][Next]_vars

(* The fairness of the hardware and of the scheduler loop: the timer keeps *)
(* interrupting every cpu and its handler finishes; an idle cpu does get   *)
(* through its loop between two interrupts; a killed process does not      *)
(* return to user code.                                                    *)
Fairness ==
  /\ WF_vars(TimerTick) /\ WF_vars(scheduler_tick)
  /\ \A c \in Cpus : /\ WF_vars(trap_slice(c))
                     /\ SF_vars(scheduler(c))
                     /\ SF_vars(exit_begin(c) /\ killed[cpu[c]])

(* init.c waits for children for ever: whenever it runs it gets on with    *)
(* its system call, and back in user code it calls wait() again.           *)
InitWaits ==
  \A c \in Cpus :
    /\ SF_vars(cpu[c] = initproc /\ wait(c))
    /\ SF_vars(cpu[c] = initproc /\ (syscall_return(c) \/ fork_alloc(c) \/ alloc_fails(c)
                                       \/ fork_publish(c) \/ exec_commit(c)))

LiveSpec == Spec /\ Fairness /\ InitWaits
-----------------------------------------------------------------------------
States == {"UNUSED", "EMBRYO", "SLEEPING", "RUNNABLE", "RUNNING", "ZOMBIE"}
Places == {"user", "kernel", "fork", "fork_fill", "clone_fill", "publish", "exec",
           "exit", "wait", "join"}

(* Every variable of the model has its type; a quantum is never charged    *)
(* below zero and waited never passes AGING_TICKS.                         *)
TypeOK ==
  /\ state \in [Procs -> States]
  /\ pid \in [Procs -> Nat]
  /\ parent \in [Procs -> Procs \cup {NoProc}]
  /\ isthread \in [Procs -> BOOLEAN]
  /\ pgdir \in [Procs -> PgDirs \cup {NoPgdir}]
  /\ killed \in [Procs -> BOOLEAN]
  /\ chan \in [Procs -> Nat]
  /\ base_prio \in [Procs -> Levels]
  /\ prio \in [Procs -> Levels]
  /\ slice \in [Procs -> Nat]
  /\ waited \in [Procs -> 0..AGING_TICKS]
  /\ rqcpu \in [Procs -> Cpus]
  /\ pc \in [Procs -> Places]
  /\ np \in [Procs -> Procs \cup {NoProc}]
  /\ runq \in [Cpus -> [Levels -> Seq(Procs)]]
  /\ nready \in [Cpus -> Nat]
  /\ cpu \in [Cpus -> Procs \cup {NoProc}]
  /\ since \in 0..AGING_INTERVAL
  /\ irq \in {"none", "age", "slice"}
  /\ nextpid \in Nat
  /\ spaces \in SUBSET PgDirs

Ready == {p \in Procs : state[p] = "RUNNABLE"}

(* The run queues hold exactly the RUNNABLE processes, each one once, on   *)
(* the queue of its rqcpu at the level of its prio, and nready counts      *)
(* them.  The scheduler's panic "queued process is not runnable" cannot    *)
(* happen, and no runnable process is forgotten by the schedulers.         *)
RunQueueInv ==
  /\ Holds(runq, Ready, rqcpu, prio)
  /\ \A c \in Cpus : nready[c] = Cardinality({p \in Ready : rqcpu[p] = c})

(* A cpu runs a process exactly when the process is RUNNING with that cpu  *)
(* as its rqcpu, so no process ever runs on two cpus at once.              *)
CpuInv ==
  \A p \in Procs, c \in Cpus : cpu[c] = p <=> state[p] = "RUNNING" /\ rqcpu[p] = c

(* Aging only ever raises a process that waits, and the boost is gone when *)
(* it runs: scheduler() restores base_prio.                                *)
BoostIsTemporary ==
  \A p \in Procs : /\ prio[p] <= base_prio[p]
                   /\ state[p] # "RUNNABLE" => prio[p] = base_prio[p] /\ waited[p] = 0

(* A page directory exists exactly as long as some slot uses it: wait(),   *)
(* join() and exec() neither free one that a thread still runs on nor lose *)
(* the last reference to one.                                              *)
SpacesInv ==
  spaces = {pgdir[p] : p \in {q \in Procs : state[q] # "UNUSED"}} \ {NoPgdir}

(* fork() and exec() look at the page directory after they have released   *)
(* the lock under which addrspace_shared() counted its users: it is still  *)
(* theirs alone.                                                           *)
SoleUser ==
  \A p \in Procs :
    state[p] \in {"RUNNING", "RUNNABLE"} /\ pc[p] \in {"fork", "fork_fill", "exec"}
      => pgdir_users(pgdir[p]) = {p}

(* A process asleep in wait() or join() has no zombie it could reap and is *)
(* not killed: exit(), reparenting to init and kill() never lose a wakeup. *)
NoMissedExit ==
  \A p \in Procs : state[p] = "SLEEPING" /\ pc[p] \in {"wait", "join"} =>
    /\ ~killed[p]
    /\ chan[p] = p
    /\ \A q \in Procs : parent[q] = p /\ (pc[p] = "join" => isthread[q])
                         => state[q] # "ZOMBIE"

(* Every child has a parent that can still reap it, and a free slot has no *)
(* parent (wait() would count it as a child and sleep for ever).           *)
ParentAlive ==
  \A q \in Procs : parent[q] # NoProc =>
    /\ state[q] # "UNUSED"
    /\ state[parent[q]] \in {"RUNNING", "RUNNABLE", "SLEEPING"}

\* The process table implements the life cycle of ProcLife.
Life == INSTANCE ProcLife WITH Slots <- Procs, Cores <- Cpus, None <- NoProc,
                               First <- initproc
LifeSpec == Life!Spec

(* Aging prevents starvation: once no process changes its priority any     *)
(* more, every runnable process gets to run again and again.               *)
EventuallyRuns ==
  (<>[][\A c \in Cpus : ~setpriority(c)]_vars) =>
    \A p \in Procs : state[p] = "RUNNABLE" ~> state[p] = "RUNNING"

(* An orphan that has exited does not stay a zombie: exit() hands it to    *)
(* init and wakes init, which reaps it.                                    *)
OrphansReaped ==
  \A p \in Procs : state[p] = "ZOMBIE" /\ parent[p] = initproc ~> state[p] = "UNUSED"
=============================================================================
