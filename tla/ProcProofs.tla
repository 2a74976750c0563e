----------------------------- MODULE ProcProofs -----------------------------
(***************************************************************************)
(* Invariance and refinement proofs for Proc, for every size of the process*)
(* table, number of cpus and of priority levels, and every quantum and     *)
(* aging parameter; first the steps that change the run queues.            *)
(***************************************************************************)
EXTENDS ProcSteps, RunQueueProofs

\* Processes that were not waiting are pushed and become RUNNABLE.
LEMMA PushStep ==
  ASSUME TypeOK, RunQueueInv,
         NEW s \in Seq(Procs), Distinct(s), Queued(s) \cap Ready = {},
         NEW home \in [Procs -> Cpus], rqcpu' = home, prio' = prio,
         \A p \in Ready : home[p] = rqcpu[p],
         runq' = rq_push(runq, s, home, prio),
         nready' = nready_push(nready, Queued(s), home),
         Ready' = Ready \cup Queued(s)
  PROVE  /\ runq' \in [Cpus -> [Levels -> Seq(Procs)]]
         /\ nready' \in [Cpus -> Nat]
         /\ RunQueueInv'
<1>1. runq \in QueueType /\ nready \in [Cpus -> Nat] /\ prio \in [Procs -> Levels]
  BY Zenon DEF TypeOK, QueueType
<1>2. Ready \in SUBSET Procs /\ Queued(s) \in SUBSET Procs
  BY Zenon DEF Ready, Queued
<1>3. Holds(runq, Ready, rqcpu, prio)
  BY Zenon DEF RunQueueInv
<1>4. runq' \in QueueType /\ Holds(runq', Ready', rqcpu', prio')
  BY Zenon, <1>1, <1>2, <1>3, PushHolds
<1>5. ASSUME NEW c \in Cpus
      PROVE  nready'[c] = CountOn(Ready', rqcpu', c) /\ nready'[c] \in Nat
  <2>1. nready'[c] = nready[c] + CountOn(Queued(s), home, c)
    BY Zenon DEF nready_push, CountOn
  <2>2. nready[c] = CountOn(Ready, rqcpu, c)
    BY Zenon DEF RunQueueInv, CountOn
  <2>3. CountOn(Ready \cup Queued(s), home, c)
          = CountOn(Ready, rqcpu, c) + CountOn(Queued(s), home, c)
    BY <1>2, CountPush
  <2>4. CountOn(Queued(s), home, c) \in Nat
    BY Zenon, <1>2, FiniteTable DEF CountOn
  <2> QED BY <1>1, <2>1, <2>2, <2>3, <2>4
<1>6. nready' \in [Cpus -> Nat]
  BY Zenon, <1>5 DEF nready_push
<1> QED BY Zenon, <1>4, <1>5, <1>6 DEF RunQueueInv, QueueType, CountOn

\* Sleeping processes are woken: every one of S is pushed on its own queue.
LEMMA WakeStep ==
  ASSUME TypeOK, RunQueueInv,
         NEW s \in Seq(Procs), Distinct(s),
         \A p \in Queued(s) : state[p] = "SLEEPING",
         rqcpu' = rqcpu, prio' = prio, Wake(s),
         Ready' = Ready \cup Queued(s)
  PROVE  /\ runq' \in [Cpus -> [Levels -> Seq(Procs)]]
         /\ nready' \in [Cpus -> Nat]
         /\ RunQueueInv'
<1>1. Queued(s) \cap Ready = {}
  BY Zenon DEF Ready
<1>2. rqcpu \in [Procs -> Cpus]
  BY Zenon DEF TypeOK
<1> QED BY Zenon, <1>1, <1>2, PushStep DEF Wake

\* The first process waits alone on the queue of cpu 0.
LEMMA SchedInvInit == Init => SchedInv
<1> SUFFICES ASSUME Init PROVE SchedInv
  OBVIOUS
<1>1. 0 \in Cpus /\ NPRIO \div 2 \in Levels /\ initproc \in Procs /\ initproc # NoProc
  BY NCpuAssumption, NPrioAssumption, NProcAssumption
     DEF Cpus, Levels, Procs, initproc, NoProc
<1>2. quantum_for(NPRIO \div 2) \in Nat /\ 0 \in Levels
  BY QuantumAssumption, NPrioAssumption DEF quantum_for, Levels
<1>3. TypeOK
  BY <1>1, <1>2, AgingAssumption DEF Init, TypeOK, States, Places, NoProc, NoPgdir, NoChan
<1>4. CpuInv
  BY DEF Init, CpuInv, Procs, NoProc
<1>5. Ready = {initproc}
  BY Zenon, <1>1 DEF Init, Ready
<1>6. Holds(runq, Ready, rqcpu, prio)
  <2> SUFFICES ASSUME NEW c \in Cpus, NEW l \in Levels
               PROVE  /\ Distinct(runq[c][l])
                      /\ \A p \in Procs : p \in Queued(runq[c][l]) <=>
                           p \in Ready /\ rqcpu[p] = c /\ prio[p] = l
    BY Zenon DEF Holds
  <2>1. CASE c = 0 /\ l = NPRIO \div 2
    <3>1. runq[c][l] = <<initproc>>
      BY Zenon, <2>1 DEF Init
    <3>2. DOMAIN runq[c][l] = {1} /\ runq[c][l][1] = initproc
      BY <3>1
    <3> QED BY ZenonT(60), <1>1, <1>5, <2>1, <3>2 DEF Init, Queued, Distinct
  <2>2. CASE ~ (c = 0 /\ l = NPRIO \div 2)
    <3>1. runq[c][l] = << >>
      BY Zenon, <2>2 DEF Init
    <3>2. DOMAIN runq[c][l] = {}
      BY <3>1
    <3> QED BY Zenon, <1>1, <1>5, <2>2, <3>2 DEF Init, Queued, Distinct
  <2> QED BY Zenon, <2>1, <2>2
<1>7. ASSUME NEW c \in Cpus PROVE nready[c] = Cardinality({p \in Ready : rqcpu[p] = c})
  <2>1. CASE c = 0
    <3>1. {p \in Ready : rqcpu[p] = c} = {initproc}
      BY Zenon, <1>1, <1>5, <2>1 DEF Init
    <3> QED BY Zenon, <2>1, <3>1, FS_Singleton DEF Init
  <2>2. CASE c # 0
    <3>1. {p \in Ready : rqcpu[p] = c} = {}
      BY Zenon, <1>1, <1>5, <2>2 DEF Init
    <3> QED BY Zenon, <2>2, <3>1, FS_EmptySet DEF Init
  <2> QED BY Zenon, <2>1, <2>2
<1>8. BoostIsTemporary
  BY NPrioAssumption DEF Init, BoostIsTemporary
<1>9. BuildInv
  BY Zenon DEF Init, BuildInv, Building
<1>10. since < AGING_INTERVAL
  BY AgingAssumption DEF Init
<1>11. SliceInv
  BY Zenon DEF Init, SliceInv
<1> QED BY Zenon, <1>3, <1>4, <1>6, <1>7, <1>8, <1>9, <1>10, <1>11 DEF SchedInv, RunQueueInv

\* scheduler() takes one waiting process off a queue and runs it.
LEMMA SchedulerStep ==
  ASSUME SchedInv, NEW c \in Cpus, scheduler(c)
  PROVE  /\ SchedInv'
         /\ Dispatched(c)
<1> DEFINE q == IF Occupied(runq, c) # {} THEN c ELSE rq_steal(nready, c)
           p == rq_head(runq, q)
<1>1. TypeOK /\ RunQueueInv /\ CpuInv /\ BoostIsTemporary /\ BuildInv /\ SliceInv
  BY Zenon DEF SchedInv
<1>2. runq \in QueueType /\ prio \in [Procs -> Levels] /\ Ready \in SUBSET Procs
  BY Zenon, <1>1 DEF TypeOK, QueueType, Ready
<1>3. nready \in [Cpus -> 0..NPROC]
  <2>1. \A d \in Cpus : {x \in Ready : rqcpu[x] = d} \in SUBSET Procs
    BY Zenon DEF Ready
  <2>2. ASSUME NEW d \in Cpus PROVE nready[d] \in 0..NPROC
    <3>1. nready[d] = Cardinality({x \in Ready : rqcpu[x] = d})
      BY Zenon, <1>1 DEF RunQueueInv
    <3>2. nready[d] \in Nat /\ nready[d] <= NPROC
      BY Zenon, <2>1, <3>1, FiniteTable
    <3> QED BY <3>2, NProcAssumption
  <2> QED BY Zenon, <1>1, <2>2 DEF TypeOK
<1>4. q \in Cpus /\ Occupied(runq, q) # {}
  <2>1. CASE Occupied(runq, c) # {}
    BY Zenon, <2>1
  <2>2. CASE Occupied(runq, c) = {}
    <3>1. rq_steal(nready, c) \in Victims(nready, c)
      BY Zenon, <1>3, <2>2, StealProps, NProcAssumption DEF scheduler
    <3>2. rq_steal(nready, c) \in Cpus /\ nready[rq_steal(nready, c)] > 1
      BY Zenon, <3>1 DEF Victims
    <3>3. CountOn(Ready, rqcpu, rq_steal(nready, c)) > 0
      BY SMTT(60), <1>1, <1>3, <3>2 DEF RunQueueInv, CountOn
    <3>4. Occupied(runq, rq_steal(nready, c)) # {}
      BY Zenon, <1>1, <1>2, <3>2, <3>3, CountOccupied DEF RunQueueInv
    <3> QED BY Zenon, <2>2, <3>2, <3>4
  <2> QED BY Zenon, <2>1, <2>2
<1>5. /\ runq' = rq_pop(runq, q)
      /\ nready' = [nready EXCEPT ![q] = @ - 1]
      /\ rqcpu' = [rqcpu EXCEPT ![p] = c]
      /\ prio' = [prio EXCEPT ![p] = base_prio[p]]
      /\ waited' = [waited EXCEPT ![p] = 0]
      /\ slice' = [slice EXCEPT ![p] = quantum_for(base_prio[p])]
      /\ cpu' = [cpu EXCEPT ![c] = p]
      /\ state' = [state EXCEPT ![p] = "RUNNING"]
      /\ chan' = [chan EXCEPT ![p] = NoChan]
      /\ cpu[c] = NoProc
      /\ UNCHANGED <<killed, pc, base_prio, timerVars, spaceVars, identVars>>
  BY Zenon DEF scheduler
<1> HIDE DEF q, p
<1>6. \A x \in Procs : x # p => rqcpu'[x] = rqcpu[x] /\ prio'[x] = prio[x]
  BY Zenon, <1>1, <1>5 DEF TypeOK
<1>7. /\ p \in Procs \cap Ready
      /\ rqcpu[p] = q
      /\ runq' \in QueueType
      /\ Holds(runq', Ready \ {p}, rqcpu', prio')
  <2>1. p = rq_head(runq, q)
    BY Zenon DEF p
  <2>2. Holds(runq, Ready, rqcpu, prio)
    BY Zenon, <1>1 DEF RunQueueInv
  <2>3. /\ p \in Procs \cap Ready
        /\ rqcpu[p] = q
        /\ rq_pop(runq, q) \in QueueType
        /\ Holds(rq_pop(runq, q), Ready \ {p}, rqcpu, prio)
    <3>1. runq \in QueueType /\ q \in Cpus /\ Occupied(runq, q) # {}
      BY Zenon, <1>2, <1>4
    <3>2. /\ rq_head(runq, q) \in Procs \cap Ready
          /\ rqcpu[rq_head(runq, q)] = q
          /\ rq_pop(runq, q) \in QueueType
          /\ Holds(rq_pop(runq, q), Ready \ {rq_head(runq, q)}, rqcpu, prio)
      BY ZenonT(60), <2>2, <3>1, PopHolds, Zenon
    <3> QED BY Zenon, <2>1, <3>2
  <2>4. \A x \in Procs \cap (Ready \ {p}) : rqcpu'[x] = rqcpu[x] /\ prio'[x] = prio[x]
    BY Zenon, <1>6
  <2>5. Holds(rq_pop(runq, q), Ready \ {p}, rqcpu', prio')
    BY SMTT(60), <2>3, <2>4, HoldsFrame
  <2> QED BY Zenon, <1>5, <2>3, <2>5
<1>8. Ready' = Ready \ {p}
  BY Zenon, <1>1, <1>5, <1>7 DEF Ready, TypeOK
<1>9. ASSUME NEW d \in Cpus
      PROVE  nready'[d] = CountOn(Ready', rqcpu', d) /\ nready'[d] \in Nat
  <2>1. CountOn(Ready \ {p}, rqcpu', d)
          = IF rqcpu[p] = d THEN CountOn(Ready, rqcpu, d) - 1 ELSE CountOn(Ready, rqcpu, d)
    BY <1>2, <1>6, <1>7, CountPop
  <2>2. nready[d] = CountOn(Ready, rqcpu, d) /\ nready[d] \in Nat
    BY Zenon, <1>1 DEF RunQueueInv, CountOn, TypeOK
  <2>3. nready'[d] = IF d = q THEN nready[d] - 1 ELSE nready[d]
    BY Zenon, <1>1, <1>5 DEF TypeOK
  <2>4. nready'[d] = CountOn(Ready', rqcpu', d)
    BY Zenon, <1>7, <1>8, <2>1, <2>2, <2>3
  <2>5. CountOn(Ready', rqcpu', d) \in Nat
    BY Zenon, <1>2, <1>8, FiniteTable DEF CountOn
  <2> QED BY Zenon, <2>4, <2>5
<1>10. RunQueueInv'
  BY Zenon, <1>7, <1>8, <1>9 DEF RunQueueInv, CountOn
<1>11. TypeOK'
  <2>1. nready' \in [Cpus -> Nat]
    BY Zenon, <1>1, <1>5, <1>9 DEF TypeOK
  <2>2. quantum_for(base_prio[p]) \in Nat
    BY Zenon, <1>1, <1>7, QuantumNat DEF TypeOK
  <2>3. p \in Procs /\ runq' \in [Cpus -> [Levels -> Seq(Procs)]]
    BY Zenon, <1>7 DEF QueueType
  <2>4. /\ rqcpu' \in [Procs -> Cpus] /\ prio' \in [Procs -> Levels]
        /\ state' \in [Procs -> States] /\ cpu' \in [Cpus -> Procs \cup {NoProc}]
        /\ slice' \in [Procs -> Nat] /\ chan' \in [Procs -> Nat]
    BY Zenon, <1>1, <1>5, <2>2, <2>3 DEF TypeOK, States, NoChan
  <2>5. waited' \in [Procs -> 0..AGING_TICKS]
    <3>1. 0 \in 0..AGING_TICKS
      BY AgingAssumption
    <3> QED BY Zenon, <1>1, <1>5, <3>1 DEF TypeOK
  <2> QED BY Zenon, <1>1, <1>5, <2>1, <2>3, <2>4, <2>5
      DEF TypeOK, timerVars, spaceVars, identVars
<1>12. CpuInv'
  <2>1. state[p] = "RUNNABLE"
    BY Zenon, <1>7 DEF Ready
  <2> QED BY <1>1, <1>5, <1>7, <2>1 DEF CpuInv, TypeOK, NoProc, Procs
<1>13. BoostIsTemporary'
  BY SMTT(60), <1>1, <1>5, <1>7, NPrioAssumption DEF BoostIsTemporary, TypeOK, Levels
<1>14. BuildInv'
  <2>1. state[p] = "RUNNABLE"
    BY Zenon, <1>7 DEF Ready
  <2> QED BY Zenon, <1>1, <1>5, <1>7, <2>1 DEF BuildInv, Building, TypeOK, identVars
<1>15. SliceInv'
  <2>1. quantum_for(base_prio[p]) # 0
    BY Zenon, <1>1, <1>7, QuantumNat DEF TypeOK
  <2> QED BY Zenon, <1>1, <1>5, <1>7, <2>1 DEF SliceInv, TypeOK
<1>16. SchedInv'
  BY Zenon, <1>1, <1>5, <1>10, <1>11, <1>12, <1>13, <1>14, <1>15 DEF SchedInv, timerVars
<1>17. Dispatched(c)
  <2>1. state[p] = "RUNNABLE" /\ p \in Procs
    BY Zenon, <1>7 DEF Ready
  <2>2. cpu[c] = NoProc
    BY Zenon DEF scheduler
  <2> QED BY Zenon, <1>5, <2>1, <2>2 DEF Dispatched
<1> QED BY Zenon, <1>16, <1>17

\* A wakeup changes nothing but the states and the queues.
LEMMA WokenKeepsSchedInv ==
  ASSUME SchedInv, NEW S \in SUBSET Procs, \A p \in S : state[p] = "SLEEPING",
         state' = [p \in Procs |-> IF p \in S THEN "RUNNABLE" ELSE state[p]],
         NEW s \in Seq(Procs), Distinct(s), Queued(s) = S, Wake(s),
         UNCHANGED <<chan, rqcpu, pc, cpu, prioVars, spaceVars, identVars>>,
         killed' \in [Procs -> BOOLEAN], since' \in 0..AGING_INTERVAL,
         irq' \in {"none", "age", "slice"}, irq' # "age" => since' < AGING_INTERVAL
  PROVE  SchedInv'
<1>1. TypeOK /\ RunQueueInv /\ CpuInv /\ BoostIsTemporary /\ BuildInv /\ SliceInv
  BY Zenon DEF SchedInv
<1>2. Ready' = Ready \cup Queued(s)
  BY Zenon, <1>1 DEF Ready, TypeOK
<1>3. /\ runq' \in [Cpus -> [Levels -> Seq(Procs)]] /\ nready' \in [Cpus -> Nat]
      /\ RunQueueInv'
  BY Zenon, <1>1, <1>2, WakeStep DEF prioVars
<1>4. state' \in [Procs -> States]
  BY Zenon, <1>1 DEF TypeOK, States
<1>5. TypeOK'
  BY Zenon, <1>1, <1>3, <1>4 DEF TypeOK, prioVars, spaceVars, identVars
<1>6. CpuInv'
  BY <1>1 DEF CpuInv
<1>7. BoostIsTemporary'
  BY Zenon, <1>1 DEF BoostIsTemporary, prioVars
<1>8. BuildInv'
  BY Zenon, <1>1 DEF BuildInv, Building, identVars, TypeOK
<1>9. SliceInv'
  BY Zenon, <1>1 DEF SliceInv, prioVars
<1> QED BY Zenon, <1>3, <1>5, <1>6, <1>7, <1>8, <1>9 DEF SchedInv

\* The timer interrupt wakes the sleepers on ticks.
LEMMA TimerTickStep ==
  ASSUME SchedInv, TimerTick
  PROVE  SchedInv'
<1> DEFINE S == Sleepers(Ticks)
           s == InTableOrder(S)
<1>1. S \in SUBSET Procs /\ \A p \in S : state[p] = "SLEEPING"
  BY Zenon DEF Sleepers
<1>2. s \in Seq(Procs) /\ Distinct(s) /\ Queued(s) = S
  BY Zenon, <1>1, InTableOrderProps
<1>3. /\ killed' \in [Procs -> BOOLEAN] /\ since' \in 0..AGING_INTERVAL
      /\ irq' = "age"
  BY AgingAssumption DEF TimerTick, SchedInv, TypeOK
<1>4. /\ state' = [p \in Procs |-> IF p \in S THEN "RUNNABLE" ELSE state[p]]
      /\ Wake(s)
      /\ UNCHANGED <<chan, rqcpu, pc, cpu, prioVars, spaceVars, identVars>>
  BY Zenon DEF TimerTick
<1> HIDE DEF S, s
<1> QED BY Zenon, <1>1, <1>2, <1>3, <1>4, WokenKeepsSchedInv

\* Aging moves processes between the levels of their own queue.
LEMMA SchedulerTickStep ==
  ASSUME SchedInv, scheduler_tick
  PROVE  SchedInv'
<1> DEFINE waiting == {p \in Procs : \E c \in Cpus, l \in Levels : p \in Queued(runq[c][l])}
           w(p) == Min2(waited[p] + since, AGING_TICKS)
           boosted == {p \in waiting : w(p) >= AGING_TICKS /\ prio[p] > 0}
<1>1. TypeOK /\ RunQueueInv /\ CpuInv /\ BoostIsTemporary /\ BuildInv /\ SliceInv
  BY Zenon DEF SchedInv
<1>2. CASE since < AGING_INTERVAL
  <2>1. UNCHANGED <<state, killed, chan, rqcpu, pc, cpu, runq, nready, prio, base_prio,
                    waited, slice, since, spaceVars, identVars>> /\ irq' = "slice"
    BY Zenon, <1>2 DEF scheduler_tick
  <2>2. RunQueueInv' /\ CpuInv' /\ BoostIsTemporary'
    BY Zenon, <1>1, <2>1, SchedFrame
  <2>3. TypeOK' /\ BuildInv' /\ SliceInv'
    BY Zenon, <1>1, <2>1 DEF TypeOK, BuildInv, Building, SliceInv, spaceVars, identVars
  <2> QED BY Zenon, <1>2, <2>1, <2>2, <2>3 DEF SchedInv
<1>3. CASE ~ (since < AGING_INTERVAL)
  <2>1. /\ since' = 0 /\ irq' = "slice"
        /\ waited' = [p \in Procs |-> IF p \in boosted THEN 0
                                      ELSE IF p \in waiting THEN w(p) ELSE waited[p]]
        /\ prio' = [p \in Procs |-> IF p \in boosted THEN prio[p] - 1 ELSE prio[p]]
        /\ runq' = rq_age(runq, boosted)
        /\ UNCHANGED <<state, killed, chan, rqcpu, pc, cpu, nready, base_prio, slice,
                       spaceVars, identVars>>
    BY Zenon, <1>3 DEF scheduler_tick
  <2>2. ASSUME NEW p \in waiting PROVE p \in Procs /\ p \in Ready
    BY Zenon, <1>1 DEF RunQueueInv, Holds
  <2>3. \A p \in boosted : p \in Procs /\ p \in Ready /\ prio[p] > 0
    BY Zenon, <2>2
  <2>4. \A p \in Procs : w(p) \in 0..AGING_TICKS
    BY SMTT(60), <1>1, AgingAssumption DEF TypeOK, Min2
  <2>5. waited' \in [Procs -> 0..AGING_TICKS]
    BY SMTT(60), <1>1, <2>1, <2>4, AgingAssumption DEF TypeOK
  <2>6. ASSUME NEW p \in Procs, state[p] # "RUNNABLE"
        PROVE  waited'[p] = waited[p] /\ prio'[p] = prio[p]
    BY ZenonT(60), <2>1, <2>2, <2>3, <2>6 DEF Ready
  <2> HIDE DEF boosted, waiting, w
  <2>7. prio \in [Procs -> Levels] /\ runq \in QueueType /\ Holds(runq, Ready, rqcpu, prio)
    BY Zenon, <1>1 DEF TypeOK, QueueType, RunQueueInv
  <2>8. /\ rq_age(runq, boosted) \in QueueType
        /\ Holds(rq_age(runq, boosted), Ready, rqcpu,
                 [p \in Procs |-> IF p \in boosted THEN prio[p] - 1 ELSE prio[p]])
    BY SMTT(60), <2>3, <2>7, AgeHolds
  <2>9. Ready' = Ready
    BY Zenon, <2>1 DEF Ready
  <2>10. RunQueueInv'
    <3>1. Holds(runq', Ready', rqcpu', prio')
      BY Zenon, <2>1, <2>8, <2>9
    <3> QED BY Zenon, <1>1, <2>1, <2>9, <3>1 DEF RunQueueInv
  <2>11. prio' \in [Procs -> Levels] /\ \A p \in Procs : prio'[p] <= prio[p]
    BY SMTT(60), <2>1, <2>3, <2>7, NPrioAssumption DEF Levels
  <2>12. TypeOK'
    BY SMTT(60), <1>1, <2>1, <2>5, <2>8, <2>11, AgingAssumption
       DEF TypeOK, QueueType, spaceVars, identVars
  <2>13. CpuInv'
    BY ZenonT(60), <1>1, <2>1 DEF CpuInv
  <2>14. BoostIsTemporary'
    <3> SUFFICES ASSUME NEW p \in Procs
                 PROVE  /\ prio'[p] <= base_prio'[p]
                        /\ state'[p] # "RUNNABLE" =>
                             prio'[p] = base_prio'[p] /\ waited'[p] = 0
      BY Zenon DEF BoostIsTemporary
    <3>1. prio'[p] \in Nat /\ prio[p] \in Nat /\ base_prio[p] \in Nat
      BY SMTT(60), <1>1, <2>11, NPrioAssumption DEF TypeOK, Levels
    <3>2. prio[p] <= base_prio[p] /\ base_prio' = base_prio /\ state' = state
      BY Zenon, <1>1, <2>1 DEF BoostIsTemporary
    <3> QED BY SMTT(60), <1>1, <2>6, <2>11, <3>1, <3>2 DEF BoostIsTemporary
  <2>15. BuildInv' /\ SliceInv'
    BY Zenon, <1>1, <2>1 DEF BuildInv, Building, SliceInv, identVars
  <2>16. since' < AGING_INTERVAL
    BY <2>1, AgingAssumption
  <2> QED BY Zenon, <2>10, <2>12, <2>13, <2>14, <2>15, <2>16 DEF SchedInv
<1> QED BY Zenon, <1>2, <1>3

\* The timer charges the running process, and yield() queues it on its own cpu.
LEMMA TrapSliceStep ==
  ASSUME SchedInv, NEW c \in Cpus, trap_slice(c)
  PROVE  SchedInv'
<1> DEFINE p == cpu[c]
           spared == p = NoProc \/ (killed[p] /\ pc[p] = "user")
           yields == ~spared /\ slice[p] <= 1
           home == [rqcpu EXCEPT ![p] = c]
<1>1. TypeOK /\ RunQueueInv /\ CpuInv /\ BoostIsTemporary /\ BuildInv /\ SliceInv
  BY Zenon DEF SchedInv
<1>2. /\ c = 0 => irq = "slice"
      /\ irq' = IF c = 0 THEN "none" ELSE irq
      /\ slice' = IF spared THEN slice ELSE [slice EXCEPT ![p] = @ - 1]
      /\ UNCHANGED <<killed, chan, pc, base_prio, prio, waited, since, spaceVars, identVars>>
  BY ZenonT(60) DEF trap_slice, SliceOver
<1>3. irq' \in {"none", "age", "slice"} /\ (irq' # "age" => since' < AGING_INTERVAL)
  BY Zenon, <1>1, <1>2 DEF SchedInv, TypeOK
<1>4. ~spared => p \in Procs /\ state[p] = "RUNNING" /\ rqcpu[p] = c /\ slice[p] # 0
                 /\ \A d \in Cpus : cpu[d] = p => d = c
  BY Zenon, <1>1, RunningFacts DEF SliceInv
<1>5. slice' \in [Procs -> Nat]
  BY SMTT(60), <1>1, <1>2, <1>4 DEF TypeOK
<1>6. CASE ~yields
  <2>1. UNCHANGED <<state, rqcpu, queueVars, cpu>>
    BY Zenon, <1>6 DEF trap_slice, SliceOver
  <2>2. RunQueueInv' /\ CpuInv' /\ BoostIsTemporary'
    BY ZenonT(60), <1>1, <1>2, <2>1, SchedFrame DEF queueVars
  <2>3. TypeOK'
    BY ZenonT(60), <1>1, <1>2, <1>3, <1>5, <2>1 DEF TypeOK, queueVars, spaceVars, identVars
  <2>4. BuildInv'
    BY Zenon, <1>1, <1>2, <2>1 DEF BuildInv, Building, identVars
  <2>5. SliceInv'
    BY SMTT(60), <1>1, <1>2, <1>4, <1>6, <2>1 DEF SliceInv, TypeOK
  <2> QED BY Zenon, <1>3, <2>2, <2>3, <2>4, <2>5 DEF SchedInv
<1>7. CASE yields
  <2>1. /\ state' = [state EXCEPT ![p] = "RUNNABLE"]
        /\ rqcpu' = home
        /\ runq' = rq_push(runq, <<p>>, home, prio)
        /\ nready' = nready_push(nready, {p}, home)
        /\ cpu' = [cpu EXCEPT ![c] = NoProc]
    BY Zenon, <1>7 DEF trap_slice, SliceOver
  <2>2. p \in Procs /\ state[p] = "RUNNING" /\ rqcpu[p] = c
        /\ \A d \in Cpus : cpu[d] = p => d = c
    BY ZenonT(60), <1>4, <1>7
  <2>3. home = rqcpu /\ home \in [Procs -> Cpus]
    BY Zenon, <1>1, <2>2 DEF TypeOK
  <2> HIDE DEF p, home
  <2>4. <<p>> \in Seq(Procs) /\ Distinct(<<p>>) /\ Queued(<<p>>) = {p}
    BY SMTT(60), <2>2 DEF Distinct, Queued
  <2>5. Ready' = Ready \cup {p} /\ {p} \cap Ready = {}
    BY Zenon, <1>1, <2>1, <2>2 DEF Ready, TypeOK
  <2>6. /\ runq' \in [Cpus -> [Levels -> Seq(Procs)]]
        /\ nready' \in [Cpus -> Nat]
        /\ RunQueueInv'
    BY ZenonT(60), <1>1, <1>2, <2>1, <2>3, <2>4, <2>5, PushStep
  <2>7. /\ state' \in [Procs -> States] /\ cpu' \in [Cpus -> Procs \cup {NoProc}]
        /\ rqcpu' \in [Procs -> Cpus]
    BY Zenon, <1>1, <2>1, <2>3 DEF TypeOK, States
  <2>8. TypeOK'
    BY Zenon, <1>1, <1>2, <1>3, <1>5, <2>6, <2>7 DEF TypeOK, spaceVars, identVars
  <2>9. CpuInv'
    BY SMTT(60), <1>1, <2>1, <2>2, <2>3 DEF CpuInv, TypeOK, NoProc, Procs, p
  <2>10. BoostIsTemporary'
    BY Zenon, <1>1, <1>2, <2>1, <2>2 DEF BoostIsTemporary, TypeOK
  <2>11. BuildInv'
    BY Zenon, <1>1, <1>2, <2>1, <2>2 DEF BuildInv, Building, TypeOK, identVars
  <2>12. SliceInv'
    <3> SUFFICES ASSUME NEW x \in Procs, state'[x] = "RUNNING" PROVE slice'[x] # 0
      BY Zenon DEF SliceInv
    <3>1. x # p /\ state[x] = "RUNNING"
      BY Zenon, <1>1, <2>1, <2>2 DEF TypeOK
    <3>2. slice'[x] = slice[x]
      BY Zenon, <1>1, <1>2, <3>1 DEF TypeOK, p
    <3> QED BY Zenon, <1>1, <3>1, <3>2 DEF SliceInv
  <2> QED BY Zenon, <1>3, <2>6, <2>8, <2>9, <2>10, <2>11, <2>12 DEF SchedInv
<1> QED BY Zenon, <1>6, <1>7

\* The child becomes RUNNABLE on the least loaded cpu.
LEMMA PublishStep ==
  ASSUME SchedInv, NEW c \in Cpus, fork_publish(c)
  PROVE  SchedInv'
<1> DEFINE p == cpu[c]
           q == np[cpu[c]]
           home == [rqcpu EXCEPT ![q] = least_loaded_cpu(nready)]
<1>1. TypeOK /\ RunQueueInv /\ CpuInv /\ BoostIsTemporary /\ BuildInv /\ SliceInv
  BY Zenon DEF SchedInv
<1>2. cpu[c] # NoProc /\ Building(cpu[c])
  BY ZenonT(60) DEF fork_publish, At, Building
<1>3. /\ p \in Procs /\ state[p] = "RUNNING"
      /\ q \in Procs /\ state[q] = "EMBRYO" /\ q # p /\ ~Building(q)
      /\ \A x \in Procs : Building(x) /\ np[x] = q => x = p
  BY Zenon, <1>2, BuilderFacts
<1>4. /\ state' = [state EXCEPT ![q] = "RUNNABLE"]
      /\ rqcpu' = home
      /\ runq' = rq_push(runq, <<q>>, home, prio)
      /\ nready' = nready_push(nready, {q}, home)
      /\ np' = [np EXCEPT ![p] = NoProc]
      /\ pc' = [pc EXCEPT ![p] = "user"]
      /\ UNCHANGED <<killed, chan, cpu, prioVars, timerVars, spaceVars, pid, parent,
                     isthread, nextpid>>
  BY Zenon DEF fork_publish, Goto
<1>5. least_loaded_cpu(nready) \in Cpus
  BY Zenon, <1>1, LeastLoadedProps DEF TypeOK
<1> HIDE DEF p, q
<1>6. home \in [Procs -> Cpus] /\ \A x \in Procs : x # q => home[x] = rqcpu[x]
  BY Zenon, <1>1, <1>5 DEF TypeOK
<1> HIDE DEF home
<1>7. <<q>> \in Seq(Procs) /\ Distinct(<<q>>) /\ Queued(<<q>>) = {q}
  BY <1>3 DEF Distinct, Queued
<1>8. Ready' = Ready \cup {q} /\ {q} \cap Ready = {} /\ \A x \in Ready : home[x] = rqcpu[x]
  BY ZenonT(60), <1>1, <1>3, <1>4, <1>6 DEF Ready, TypeOK
<1>9. /\ runq' \in [Cpus -> [Levels -> Seq(Procs)]]
      /\ nready' \in [Cpus -> Nat]
      /\ RunQueueInv'
  BY Zenon, <1>1, <1>4, <1>6, <1>7, <1>8, PushStep DEF prioVars
<1>10. TypeOK'
  <2>1. state' \in [Procs -> States] /\ np' \in [Procs -> Procs \cup {NoProc}]
        /\ pc' \in [Procs -> Places]
    BY Zenon, <1>1, <1>3, <1>4 DEF TypeOK, States, Places
  <2> QED BY Zenon, <1>1, <1>4, <1>6, <1>9, <2>1 DEF TypeOK, prioVars, timerVars, spaceVars
<1>11. CpuInv'
  <2>1. \A x \in Procs : state'[x] = "RUNNING" <=> state[x] = "RUNNING"
    BY Zenon, <1>1, <1>3, <1>4 DEF TypeOK
  <2>2. \A x \in Procs : state[x] = "RUNNING" => rqcpu'[x] = rqcpu[x]
    BY Zenon, <1>3, <1>4, <1>6
  <2>3. cpu' = cpu
    BY Zenon, <1>4
  <2> SUFFICES ASSUME NEW x \in Procs, NEW d \in Cpus
               PROVE  cpu'[d] = x <=> state'[x] = "RUNNING" /\ rqcpu'[x] = d
    BY Zenon DEF CpuInv
  <2>4. cpu[d] = x <=> state[x] = "RUNNING" /\ rqcpu[x] = d
    BY Zenon, <1>1 DEF CpuInv
  <2>5. CASE state[x] = "RUNNING"
    BY Zenon, <2>1, <2>2, <2>3, <2>4, <2>5
  <2>6. CASE state[x] # "RUNNING"
    BY Zenon, <2>1, <2>3, <2>4, <2>6
  <2> QED BY Zenon, <2>5, <2>6
<1>12. BoostIsTemporary' /\ SliceInv'
  BY Zenon, <1>1, <1>3, <1>4 DEF BoostIsTemporary, SliceInv, TypeOK, prioVars
<1>13. BuildInv'
  BY ZenonT(60), <1>1, <1>3, <1>4 DEF BuildInv, Building, TypeOK
<1> QED BY Zenon, <1>4, <1>9, <1>10, <1>11, <1>12, <1>13 DEF SchedInv, timerVars

\* wakeup(), futex_wake() and kill() wake some sleepers and change nothing else.
LEMMA WakeupSteps ==
  ASSUME SchedInv, (\E ch \in Chans : wakeup(ch))
                     \/ (\E c \in Cpus : futex_wake(c) \/ kill(c))
  PROVE  SchedInv'
<1>1. TypeOK
  BY Zenon DEF SchedInv
<1>2. PICK S \in SUBSET Procs :
        /\ \A p \in S : state[p] = "SLEEPING"
        /\ state' = MadeRunnable(S)
        /\ Wake(InTableOrder(S))
  <2>1. CASE \E ch \in Chans : wakeup(ch)
    <3>1. PICK ch \in Chans : wakeup(ch)
      BY Zenon, <2>1
    <3>2. Sleepers(ch) \in SUBSET Procs /\ \A p \in Sleepers(ch) : state[p] = "SLEEPING"
      BY Zenon DEF Sleepers
    <3> QED BY Zenon, <3>1, <3>2 DEF wakeup
  <2>2. CASE \E c \in Cpus : futex_wake(c)
    <3> DEFINE first(ch, n) == {p \in Sleepers(ch) :
                                  Cardinality({q \in Sleepers(ch) : q < p}) < n}
    <3>1. PICK ch \in Chans : \E n \in 1..Cardinality(Sleepers(ch)) :
            state' = MadeRunnable(first(ch, n)) /\ Wake(InTableOrder(first(ch, n)))
      BY Zenon, <2>2 DEF futex_wake
    <3>2. \A n : /\ first(ch, n) \in SUBSET Procs
                 /\ \A p \in first(ch, n) : state[p] = "SLEEPING"
      BY Zenon DEF Sleepers
    <3> HIDE DEF first
    <3> QED BY Zenon, <3>1, <3>2
  <2>3. CASE \E c \in Cpus : kill(c)
    <3> DEFINE victim(k) == CHOOSE x \in Procs :
                              pid[x] = k /\ \A y \in Procs : pid[y] = k => x <= y
               asleep(k) == Asleep(victim(k))
    <3>1. PICK k \in KillArgs :
            state' = MadeRunnable(asleep(k)) /\ Wake(InTableOrder(asleep(k)))
      BY Zenon, <2>3 DEF kill
    <3>2. asleep(k) \in SUBSET Procs /\ \A p \in asleep(k) : state[p] = "SLEEPING"
      BY Zenon DEF Asleep
    <3> HIDE DEF asleep
    <3> QED BY Zenon, <3>1, <3>2
  <2> QED BY Zenon, <2>1, <2>2, <2>3
<1>3. killed' \in [Procs -> BOOLEAN]
  BY ZenonT(60), <1>1 DEF TypeOK, wakeup, futex_wake, kill, idleRest
<1>4. UNCHANGED <<chan, rqcpu, pc, cpu, prioVars, timerVars, spaceVars, identVars>>
  BY Zenon DEF wakeup, futex_wake, kill, idleRest
<1>5. since' \in 0..AGING_INTERVAL /\ irq' \in {"none", "age", "slice"}
      /\ (irq' # "age" => since' < AGING_INTERVAL)
  BY Zenon, <1>1, <1>4 DEF SchedInv, TypeOK, timerVars
<1> DEFINE s == InTableOrder(S)
<1>6. s \in Seq(Procs) /\ Distinct(s) /\ Queued(s) = S
  BY Zenon, InTableOrderProps
<1>7. state' = [p \in Procs |-> IF p \in S THEN "RUNNABLE" ELSE state[p]] /\ Wake(s)
  BY Zenon, <1>2 DEF MadeRunnable
<1> HIDE DEF s
<1> QED BY Zenon, <1>2, <1>3, <1>4, <1>5, <1>6, <1>7, WokenKeepsSchedInv

\* exit() wakes the parent and perhaps init, each of them once.
LEMMA ExitStep ==
  ASSUME SchedInv, NEW c \in Cpus, exit(c)
  PROVE  SchedInv'
<1> DEFINE p == cpu[c]
           w1 == ParentWakes(p)
           w2 == OrphanWakes(p, w1)
           s == InTableOrder(w1) \o InTableOrder(w2)
<1>1. TypeOK /\ RunQueueInv /\ CpuInv /\ BoostIsTemporary /\ BuildInv /\ SliceInv
  BY Zenon DEF SchedInv
<1>2. cpu[c] # NoProc /\ pc[p] = "exit"
  BY Zenon DEF exit, At
<1>3. p \in Procs /\ state[p] = "RUNNING" /\ rqcpu[p] = c
      /\ \A d \in Cpus : cpu[d] = p => d = c
  BY Zenon, <1>2, RunningFacts
<1>4. /\ parent' = [q \in Procs |-> IF parent[q] = p THEN initproc ELSE parent[q]]
      /\ state' = [MadeRunnable(w1 \cup w2) EXCEPT ![p] = "ZOMBIE"]
      /\ Wake(s)
      /\ cpu' = [cpu EXCEPT ![c] = NoProc]
      /\ UNCHANGED <<killed, chan, rqcpu, pc, prioVars, timerVars, spaceVars, pid, isthread,
                     nextpid, np>>
  BY Zenon DEF exit, Reparented
<1>5. /\ w1 \in SUBSET Procs /\ w2 \in SUBSET Procs /\ w1 \cap w2 = {}
      /\ \A x \in w1 \cup w2 : state[x] = "SLEEPING"
  BY Zenon DEF Sleepers, ParentWakes, OrphanWakes
<1>6. cpu[c] = p
  OBVIOUS
<1> HIDE DEF p, w1, w2
<1>7. s \in Seq(Procs) /\ Distinct(s) /\ Queued(s) = w1 \cup w2
  BY SMTT(60), <1>5, InTableOrderProps, ConcatProps
<1> HIDE DEF s
<1>8. \A x \in Procs : state'[x] = IF x = p THEN "ZOMBIE"
                                     ELSE IF x \in w1 \cup w2 THEN "RUNNABLE" ELSE state[x]
  BY Zenon, <1>4 DEF MadeRunnable
<1>9. p \notin w1 \cup w2
  BY Zenon, <1>3, <1>5
<1>10. Ready' = Ready \cup Queued(s)
  BY Zenon, <1>3, <1>5, <1>7, <1>8, <1>9 DEF Ready
<1>11. /\ runq' \in [Cpus -> [Levels -> Seq(Procs)]] /\ nready' \in [Cpus -> Nat]
       /\ RunQueueInv'
  BY ZenonT(60), <1>1, <1>4, <1>5, <1>7, <1>10, WakeStep DEF prioVars
<1>12. TypeOK'
  <2>1. state' \in [Procs -> States]
    BY ZenonT(60), <1>1, <1>4 DEF TypeOK, States, MadeRunnable
  <2>2. parent' \in [Procs -> Procs \cup {NoProc}]
    BY <1>1, <1>4, NProcAssumption DEF TypeOK, initproc, Procs
  <2>3. cpu' \in [Cpus -> Procs \cup {NoProc}]
    BY Zenon, <1>1, <1>4 DEF TypeOK
  <2> QED BY Zenon, <1>1, <1>4, <1>11, <2>1, <2>2, <2>3 DEF TypeOK, prioVars, timerVars, spaceVars
<1>13. CpuInv'
  <2>1. \A x \in Procs : state'[x] = "RUNNING" <=> state[x] = "RUNNING" /\ x # p
    BY Zenon, <1>5, <1>8
  <2>2. \A d \in Cpus : cpu'[d] = IF d = c THEN NoProc ELSE cpu[d]
    BY Zenon, <1>1, <1>4 DEF TypeOK
  <2>3. rqcpu' = rqcpu /\ NoProc \notin Procs
    BY <1>4 DEF NoProc, Procs
  <2> SUFFICES ASSUME NEW x \in Procs, NEW d \in Cpus
               PROVE  cpu'[d] = x <=> state'[x] = "RUNNING" /\ rqcpu'[x] = d
    BY Zenon DEF CpuInv
  <2>4. cpu[d] = x <=> state[x] = "RUNNING" /\ rqcpu[x] = d
    BY Zenon, <1>1 DEF CpuInv
  <2>5. CASE d = c
    BY Zenon, <1>6, <2>1, <2>2, <2>3, <2>4, <2>5
  <2>6. CASE d # c
    BY Zenon, <1>3, <2>1, <2>2, <2>3, <2>4, <2>6
  <2> QED BY Zenon, <2>5, <2>6
<1>14. BoostIsTemporary' /\ SliceInv'
  <2>1. \A x \in Procs : /\ state'[x] # "RUNNABLE" => state[x] # "RUNNABLE"
                         /\ state'[x] = "RUNNING" => state[x] = "RUNNING"
    BY Zenon, <1>3, <1>8
  <2>2. prio' = prio /\ base_prio' = base_prio /\ waited' = waited /\ slice' = slice
    BY Zenon, <1>4 DEF prioVars
  <2>3. BoostIsTemporary'
    BY Zenon, <1>1, <2>1, <2>2 DEF BoostIsTemporary
  <2>4. SliceInv'
    BY Zenon, <1>1, <2>1, <2>2 DEF SliceInv
  <2> QED BY Zenon, <2>3, <2>4
<1>15. BuildInv'
  <2>1. \A x \in Procs : state[x] = "EMBRYO" => state'[x] = "EMBRYO"
    BY Zenon, <1>3, <1>5, <1>8
  <2>2. pc' = pc /\ np' = np
    BY Zenon, <1>4
  <2>3. \A x \in Procs : x # p /\ state'[x] \in {"UNUSED", "EMBRYO", "ZOMBIE", "SLEEPING"}
          => state'[x] = state[x]
    BY Zenon, <1>8
  <2> QED BY Zenon, <1>1, <1>2, <1>8, <2>1, <2>2, <2>3 DEF BuildInv, Building
<1> QED BY Zenon, <1>4, <1>11, <1>12, <1>13, <1>14, <1>15 DEF SchedInv, timerVars
-----------------------------------------------------------------------------
\* scheduler() only ever takes a process that waits.
LEMMA Dispatches == ASSUME SchedInv PROVE \A c \in Cpus : scheduler(c) => Dispatched(c)
BY Zenon, SchedulerStep

\* The order of the naturals is well-founded.
LEMMA Least == LeastExists
BY Zenon, NatMin DEF LeastExists

\* Every step keeps the inductive invariant.
LEMMA SchedInvStep == SchedInv /\ [Next]_vars => SchedInv'
<1> SUFFICES ASSUME SchedInv, [Next]_vars PROVE SchedInv'
  OBVIOUS
<1>1. ASSUME NEW c \in Cpus, wait(c) PROVE SchedInv'
  <2>1. cpu[c] # NoProc /\ ~Building(cpu[c])
    BY Zenon, <1>1 DEF wait, Syscall, At, Building
  <2>2. {q \in Procs : parent[q] = cpu[c]} \in SUBSET Procs
    OBVIOUS
  <2> QED BY Zenon, <1>1, <2>1, <2>2, ReapStep, Least DEF wait
<1>2. ASSUME NEW c \in Cpus, join(c) PROVE SchedInv'
  <2>1. cpu[c] # NoProc /\ ~Building(cpu[c])
    BY Zenon, <1>2 DEF join, Syscall, At, Building
  <2>2. {q \in Procs : parent[q] = cpu[c] /\ isthread[q]} \in SUBSET Procs
    OBVIOUS
  <2> QED BY Zenon, <1>2, <2>1, <2>2, ReapStep, Least DEF join
<1>3. ASSUME NEW c \in Cpus, Step(c) PROVE SchedInv'
  <2>1. CASE scheduler(c) \/ trap_slice(c) \/ setpriority(c)
    BY Zenon, <2>1, SchedulerStep, TrapSliceStep, SetpriorityStep
  <2>2. CASE fork_begin(c) \/ exec_begin(c) \/ exec_commit(c) \/ syscall_enter(c)
               \/ syscall_return(c) \/ exit_begin(c)
    BY Zenon, <2>2, GotoSteps
  <2>3. CASE fork_alloc(c) \/ clone_alloc(c) \/ alloc_fails(c)
    BY Zenon, <2>3, AllocSteps, AllocFailsStep, Least
  <2>4. CASE fork_fill(c) \/ clone_fill(c) \/ fork_publish(c)
    BY Zenon, <2>4, FillStep, PublishStep
  <2>5. CASE sleep(c) \/ exit(c)
    BY Zenon, <2>5, SleepStep, ExitStep
  <2>6. CASE futex_wake(c) \/ kill(c)
    BY Zenon, <2>6, WakeupSteps
  <2> QED BY Zenon, <1>1, <1>2, <1>3, <2>1, <2>2, <2>3, <2>4, <2>5, <2>6 DEF Step
<1>4. CASE UNCHANGED vars
  <2>1. UNCHANGED <<state, rqcpu, prio, base_prio, waited, runq, nready, cpu>>
    BY Zenon, <1>4 DEF vars, queueVars, prioVars
  <2>2. RunQueueInv' /\ CpuInv' /\ BoostIsTemporary'
    BY Zenon, <2>1, SchedFrame DEF SchedInv
  <2>3. TypeOK'
    BY Zenon, <1>4 DEF SchedInv, TypeOK, vars, queueVars, prioVars, timerVars, spaceVars, identVars
  <2>4. BuildInv' /\ SliceInv' /\ (irq' # "age" => since' < AGING_INTERVAL)
    BY Zenon, <1>4 DEF SchedInv, BuildInv, Building, SliceInv, vars, prioVars, timerVars, identVars
  <2> QED BY Zenon, <2>2, <2>3, <2>4 DEF SchedInv
<1> QED BY Zenon, <1>3, <1>4, TimerTickStep, SchedulerTickStep, WakeupSteps DEF Next

(* The process table keeps its types, and the quantum and the waiting time *)
(* of every process stay in range (trap() charges a running process only). *)
THEOREM TypeCorrect == Spec => []TypeOK
<1>1. SchedInv => TypeOK
  BY Zenon DEF SchedInv
<1> QED BY <1>1, SchedInvInit, SchedInvStep, PTL DEF Spec

(* The run queues of proc.c always hold exactly the RUNNABLE processes,    *)
(* each once, where its rqcpu and prio say, and nready counts them: for    *)
(* any number of slots, cpus and levels scheduler() never panics and no    *)
(* runnable process drops out of sight.                                    *)
THEOREM RunQueuesCorrect == Spec => []RunQueueInv
<1>1. SchedInv => RunQueueInv
  BY Zenon DEF SchedInv
<1> QED BY <1>1, SchedInvInit, SchedInvStep, PTL DEF Spec

\* No process runs on two cpus, and a cpu runs exactly its own RUNNING process.
THEOREM OneCpuPerProcess == Spec => []CpuInv
<1>1. SchedInv => CpuInv
  BY Zenon DEF SchedInv
<1> QED BY <1>1, SchedInvInit, SchedInvStep, PTL DEF Spec

\* Aging never lowers a process, and its boost ends when scheduler() runs it.
THEOREM BoostEnds == Spec => []BoostIsTemporary
<1>1. SchedInv => BoostIsTemporary
  BY Zenon DEF SchedInv
<1> QED BY <1>1, SchedInvInit, SchedInvStep, PTL DEF Spec

\* Every step keeps the life-cycle invariant.
LEMMA LifeInvStep == SchedInv /\ LifeInv /\ [Next]_vars => LifeInv'
<1> SUFFICES ASSUME SchedInv, LifeInv, [Next]_vars PROVE LifeInv'
  OBVIOUS
<1>1. ASSUME NEW c \in Cpus, wait(c) PROVE LifeInv'
  <2>1. cpu[c] # NoProc /\ ~Building(cpu[c])
    BY Zenon, <1>1 DEF wait, Syscall, At, Building
  <2> DEFINE kids == {q \in Procs : parent[q] = cpu[c]}
  <2>2. /\ kids \in SUBSET Procs
        /\ kids = {q \in Procs : parent[q] = cpu[c] /\ ("wait" = "join" => isthread[q])}
    OBVIOUS
  <2>3. ReapFrom(c, kids, TRUE, "wait")
    BY Zenon, <1>1 DEF wait
  <2> HIDE DEF kids
  <2> QED BY Zenon, <2>1, <2>2, <2>3, LifeReapStep, Least
<1>2. ASSUME NEW c \in Cpus, join(c) PROVE LifeInv'
  <2>1. cpu[c] # NoProc /\ ~Building(cpu[c]) /\ cpu[c] # initproc
    BY Zenon, <1>2 DEF join, Syscall, At, Building
  <2> DEFINE kids == {q \in Procs : parent[q] = cpu[c] /\ isthread[q]}
  <2>2. /\ kids \in SUBSET Procs
        /\ kids = {q \in Procs : parent[q] = cpu[c] /\ ("join" = "join" => isthread[q])}
    OBVIOUS
  <2>3. ReapFrom(c, kids, FALSE, "join")
    BY Zenon, <1>2 DEF join
  <2> HIDE DEF kids
  <2> QED BY Zenon, <2>1, <2>2, <2>3, LifeReapStep, Least
<1>3. ASSUME NEW c \in Cpus, Step(c) PROVE LifeInv'
  <2>1. CASE scheduler(c) \/ trap_slice(c) \/ setpriority(c)
    BY Zenon, <2>1, LifeSchedStep, Dispatches
  <2>2. CASE fork_begin(c) \/ exec_begin(c) \/ syscall_enter(c) \/ syscall_return(c)
               \/ exit_begin(c)
    BY Zenon, <2>2, LifeGotoSteps
  <2>3. CASE fork_alloc(c) \/ clone_alloc(c) \/ alloc_fails(c)
    BY Zenon, <2>3, LifeAllocSteps, LifeAllocFailsStep, Least
  <2>4. CASE fork_fill(c) \/ clone_fill(c) \/ fork_publish(c)
    BY Zenon, <2>4, LifeFillStep, LifePublishStep
  <2>5. CASE exec_commit(c) \/ sleep(c) \/ exit(c)
    BY Zenon, <2>5, LifeExecStep, LifeSleepSteps, LifeExitStep
  <2>6. CASE futex_wake(c) \/ kill(c)
    BY Zenon, <2>6, LifeWakeStep
  <2> QED BY Zenon, <1>1, <1>2, <1>3, <2>1, <2>2, <2>3, <2>4, <2>5, <2>6 DEF Step
<1>4. CASE UNCHANGED vars
  <2>1. UNCHANGED <<state, killed, chan, pc, pgdir, spaces, parent, isthread, np>>
    BY Zenon, <1>4 DEF vars, spaceVars, identVars
  <2>2. /\ InitInv' /\ SlotInv' /\ HasSpace' /\ ThreadShares' /\ ParentAlive' /\ SpacesInv'
        /\ \A d : pgdir_users(d)' = pgdir_users(d)
    BY Zenon, <2>1, LifeFrame
  <2>3. SoleUser'
    BY Zenon, <2>1, <2>2, SoleFrame DEF LifeInv
  <2>4. NoMissedExit'
    BY Zenon, <2>1, ExitFrame DEF LifeInv
  <2> QED BY Zenon, <2>2, <2>3, <2>4 DEF LifeInv
<1> QED BY Zenon, <1>3, <1>4, LifeSchedStep, LifeWakeStep, Dispatches DEF Next

\* Both inductive invariants hold in every reachable state.
LEMMA LifeInvariant == Spec => [](SchedInv /\ LifeInv)
BY SchedInvInit, SchedInvStep, LifeInvInit, LifeInvStep, PTL DEF Spec

(* wait(), join() and exec() free an address space exactly with its last   *)
(* user, although only wait() counts the users.                            *)
THEOREM SpacesFreedOnce == Spec => []SpacesInv
<1>1. LifeInv => SpacesInv
  BY Zenon DEF LifeInv
<1> QED BY <1>1, LifeInvariant, PTL

(* What addrspace_shared() found under the lock still holds when fork()    *)
(* copies and exec() replaces the address space after releasing it.        *)
THEOREM UnsharedStaysUnshared == Spec => []SoleUser
<1>1. LifeInv => SoleUser
  BY Zenon DEF LifeInv
<1> QED BY <1>1, LifeInvariant, PTL

\* No parent sleeps in wait() or join() while it is killed or has a zombie to reap.
THEOREM NoExitIsMissed == Spec => []NoMissedExit
<1>1. LifeInv => NoMissedExit
  BY Zenon DEF LifeInv
<1> QED BY <1>1, LifeInvariant, PTL

\* Every child has a living parent; free slots belong to nobody.
THEOREM ParentsLive == Spec => []ParentAlive
<1>1. LifeInv => ParentAlive
  BY Zenon DEF LifeInv
<1> QED BY <1>1, LifeInvariant, PTL

(* proc.c implements the life cycle of ProcLife: a slot is claimed, given  *)
(* back, published, dispatched, put to sleep, woken, ended and reaped only *)
(* in that order, whatever the cpus, the timer and kill() do in between.   *)
THEOREM Refinement == Spec => LifeSpec
<1>1. Init => Life!Init
  BY Zenon DEF Init, Life!Init
<1>2. SchedInv /\ LifeInv /\ [Next]_vars => LifeStep
  <2> SUFFICES ASSUME SchedInv, LifeInv, [Next]_vars PROVE LifeStep
    OBVIOUS
  <2>1. TypeOK
    BY Zenon DEF SchedInv
  <2>2. CASE TimerTick
    <3>1. \A p \in Sleepers(Ticks) : p \in Procs /\ state[p] = "SLEEPING"
      BY Zenon DEF Sleepers
    <3>2. /\ state' = [p \in Procs |-> IF p \in Sleepers(Ticks) THEN "RUNNABLE" ELSE state[p]]
          /\ cpu' = cpu
      BY Zenon, <2>2 DEF TimerTick
    <3> QED BY Zenon, <2>1, <3>1, <3>2, AwakenRefines
  <2>3. ASSUME NEW ch \in Chans, wakeup(ch) PROVE LifeStep
    <3>1. \A p \in Sleepers(ch) : p \in Procs /\ state[p] = "SLEEPING"
      BY Zenon DEF Sleepers
    <3>2. /\ state' = [p \in Procs |-> IF p \in Sleepers(ch) THEN "RUNNABLE" ELSE state[p]]
          /\ cpu' = cpu
      BY Zenon, <2>3 DEF wakeup, MadeRunnable
    <3> QED BY Zenon, <2>1, <3>1, <3>2, AwakenRefines
  <2>4. CASE scheduler_tick \/ UNCHANGED vars
    BY Zenon, <2>4 DEF scheduler_tick, vars, LifeStep
  <2> QED BY Zenon, <2>2, <2>3, <2>4, StepRefines, Least, Dispatches DEF Next
<1> QED BY <1>1, <1>2, LifeInvariant, PTL DEF Spec, LifeSpec, Life!Spec, LifeStep
=============================================================================
