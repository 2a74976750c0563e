----------------------------- MODULE LogProofs ------------------------------
(***************************************************************************)
(* The theorems about the log, for any set of operations, blocks and       *)
(* values, any size of the log and any number of blocks per operation; and *)
(* what its steps do for its sleepers, its room and its promise.           *)
(***************************************************************************)
EXTENDS LogSteps, FiniteSetTheorems

\* Steps that put nobody to sleep and end neither an operation nor a commit.
LEMMA SleepersFrame ==
  ASSUME TypeOK, SleepersWoken, committing => committing', outstanding' \in Nat,
         outstanding <= outstanding', \A q \in Ops : pc'[q] = "asleep" => pc[q] = "asleep"
  PROVE  SleepersWoken'
<1>1. outstanding > 0 => outstanding' > 0
  BY SMTT(60) DEF TypeOK
<1> QED BY Zenon, <1>1 DEF SleepersWoken

\* Every step leaves somebody who will wake the sleepers of begin_op().
LEMMA SleepersStep == ASSUME SizeFacts PROVE LogInv /\ SleepersWoken /\ [Next]_vars => SleepersWoken'
<1> SUFFICES ASSUME LogInv, SleepersWoken, [Next]_vars PROVE SleepersWoken'
  OBVIOUS
<1>1. TypeOK /\ TypeOK'
  BY Zenon, LogInvStep DEF LogInv
<1>2. outstanding \in Nat /\ outstanding' \in Nat
  BY Zenon, <1>1 DEF TypeOK
<1>3. ASSUME committing' = committing, outstanding' = outstanding,
             \A q \in Ops : pc'[q] = "asleep" => pc[q] = "asleep"
      PROVE  SleepersWoken'
  BY SMTT(60), <1>1, <1>2, <1>3, SleepersFrame
<1>4. ASSUME NEW p \in Ops, NEW pt, pt # "asleep", Goto(p, pt)
      PROVE  \A q \in Ops : pc'[q] = "asleep" => pc[q] = "asleep"
  BY Zenon, <1>1, <1>4 DEF TypeOK, Goto
<1>5. ASSUME NEW p \in Ops, begin_op(p) PROVE SleepersWoken'
  <2>1. CASE committing \/ Len(lh) + (outstanding + 1) * MAXOPBLOCKS > LOGSIZE
    <3>1. committing' = committing /\ outstanding' = outstanding
      BY Zenon, <1>5, <2>1 DEF begin_op
    <3>2. committing \/ outstanding # 0
      <4> SUFFICES ASSUME ~committing, outstanding = 0,
                          Len(lh) + (outstanding + 1) * MAXOPBLOCKS > LOGSIZE
                   PROVE  FALSE
        BY Zenon, <2>1
      <4>1. lh = << >>
        BY Zenon, <1>5 DEF LogInv, DataInv, begin_op, At, Up
      <4>2. (outstanding + 1) * MAXOPBLOCKS = MAXOPBLOCKS
        BY SMTT(60), OpBlocksAssumption
      <4> QED BY SMTT(60), <4>1, <4>2, LogSizeAssumption, OpBlocksAssumption
    <3> QED BY SMTT(60), <1>2, <3>1, <3>2 DEF SleepersWoken
  <2>2. CASE ~(committing \/ Len(lh) + (outstanding + 1) * MAXOPBLOCKS > LOGSIZE)
    <3>1. outstanding' = outstanding + 1
      BY Zenon, <1>5, <2>2 DEF begin_op
    <3> QED BY SMTT(60), <1>2, <3>1 DEF SleepersWoken
  <2> QED BY Zenon, <2>1, <2>2
<1>6. ASSUME NEW p \in Ops, end_op(p) PROVE SleepersWoken'
  <2>1. ~committing
    BY Zenon, <1>6, OpFacts DEF end_op
  <2>2. CASE outstanding = 1
    BY Zenon, <1>6, <2>1, <2>2 DEF end_op, SleepersWoken
  <2>3. CASE outstanding # 1
    BY Zenon, <1>6, <2>1, <2>3 DEF end_op, WakeupAnd, SleepersWoken
  <2> QED BY Zenon, <2>2, <2>3
<1>7. ASSUME NEW p \in Ops, end_commit(p) PROVE SleepersWoken'
  BY Zenon, <1>7 DEF end_commit, WakeupAnd, SleepersWoken
<1>8. ASSUME NEW p \in Ops, call(p) \/ commit(p) \/ write_log(p) \/ write_head(p)
                               \/ install_trans(p) \/ clear(p)
      PROVE  SleepersWoken'
  <2>1. \E pt : pt # "asleep" /\ Goto(p, pt)
    BY Zenon, <1>8 DEF call, commit, write_log, write_head, install_trans, clear
  <2>2. committing' = committing /\ outstanding' = outstanding
    BY Zenon, <1>8 DEF call, commit, write_log, write_head, install_trans, clear, commitRest,
                InstallOne, ClearHead
  <2> QED BY Zenon, <1>3, <1>4, <2>1, <2>2
<1>9. ASSUME NEW p \in Ops, (\E b \in Blocks : log_write_check(p, b))
                               \/ (\E v \in Vals : log_write(p, v))
      PROVE  SleepersWoken'
  <2>1. \E pt : pt # "asleep" /\ Goto(p, pt)
    BY Zenon, <1>9 DEF log_write_check, log_write
  <2>2. committing' = committing /\ outstanding' = outstanding
    BY ZenonT(60), <1>9 DEF log_write_check, log_write
  <2> QED BY Zenon, <1>3, <1>4, <2>1, <2>2
<1>10. CASE crash
  BY Zenon, <1>10 DEF crash, FreshMemory, SleepersWoken
<1>11. CASE \/ read_head \/ recover_install \/ recover_clear \/ UNCHANGED vars
            \/ \E b \in Blocks : bread(b) \/ recycle(b)
  <2>1. UNCHANGED <<pc, committing, outstanding>>
    BY Zenon, <1>11 DEF read_head, recover_install, recover_clear, InstallOne, ClearHead, vars,
                 memVars, bread, recycle
  <2> QED BY Zenon, <1>3, <2>1
<1> QED BY Zenon, <1>5, <1>6, <1>7, <1>8, <1>9, <1>10, <1>11 DEF Next, Step
-----------------------------------------------------------------------------
\* No step takes more of the log than begin_op() has reserved.
LEMMA SpaceStep ==
  ASSUME SizeFacts, Roomy
  PROVE  LogInv /\ SpaceInv /\ NoPanic /\ [Next]_vars => SpaceInv' /\ NoPanic'
<1> SUFFICES ASSUME LogInv, SpaceInv, NoPanic, [Next]_vars PROVE SpaceInv' /\ NoPanic'
  BY Zenon
<1>1. TypeOK /\ TypeOK' /\ LogInv'
  BY Zenon, LogInvStep DEF LogInv
<1>2. LOGSIZE - 2 \in Int /\ 0 <= LOGSIZE - 2
  BY SMTT(60), LogSizeAssumption, OpBlocksAssumption DEF Roomy
<1>3. ASSUME NEW p \in Ops, NEW pt, pt # "panic", Goto(p, pt)
      PROVE  NoPanic'
  BY Zenon, <1>1, <1>3 DEF TypeOK, Goto, NoPanic
<1>4. ASSUME Active' \subseteq Active, lh' = lh, wrote' = wrote, boot' = boot
      PROVE  SpaceInv'
  BY Zenon, <1>1, <1>2, <1>4, FitsEnd DEF SpaceInv
<1>5. ASSUME Active' = {}, Len(lh') <= LOGSIZE - 2 \/ boot' # "up"
      PROVE  SpaceInv'
  <2>1. Tokens' = {}
    BY Zenon, <1>5 DEF Tokens
  <2>2. Cardinality(Tokens') = 0 /\ Len(lh') \in Nat
    BY SMTT(60), <1>1, <2>1 DEF SizeFacts, EmptySize, TypeOK
  <2> QED BY <1>2, <1>5, <2>2 DEF SpaceInv, Fits
<1>6. ASSUME NEW p \in Ops, call(p) \/ (begin_op(p) /\ pc'[p] = "asleep")
      PROVE  SpaceInv' /\ NoPanic'
  <2>1. /\ \A q \in Ops : q # p => pc'[q] = pc[q]
        /\ pc[p] \in {"idle", "begin"} /\ pc'[p] \in {"begin", "asleep"}
        /\ UNCHANGED <<lh, wrote, boot>>
    BY Zenon, <1>1, <1>6 DEF call, begin_op, TypeOK, Goto, At
  <2>2. Active' = Active
    BY Zenon, <2>1 DEF Active
  <2> QED BY Zenon, <1>4, <2>1, <2>2 DEF NoPanic
<1>7. ASSUME NEW p \in Ops, begin_op(p), pc'[p] # "asleep"
      PROVE  SpaceInv' /\ NoPanic'
  <2>1. /\ Cardinality(Tokens') <= (outstanding + 1) * OPBLOCKS
        /\ Cardinality(Tokens') \in Nat
        /\ Len(lh) + (outstanding + 1) * MAXOPBLOCKS <= LOGSIZE
    BY Zenon, <1>7, BeginStep
  <2>2. Goto(p, "op") /\ lh' = lh /\ boot = "up" /\ ~committing
    BY Zenon, <1>1, <1>7 DEF begin_op, TypeOK, Goto, At, Up
  <2>3. outstanding \in Nat /\ Len(lh) \in Nat
    BY <1>1 DEF TypeOK
  <2>4. (outstanding + 1) * OPBLOCKS <= (outstanding + 1) * MAXOPBLOCKS - (outstanding + 1)
    <3> DEFINE k == outstanding + 1
    <3>1. k \in Nat
      BY <2>3
    <3>2. k * OPBLOCKS <= k * (MAXOPBLOCKS - 1)
      <4> HIDE DEF k
      <4> QED BY <3>1, OpBlocksAssumption DEF Roomy
    <3>3. k * (MAXOPBLOCKS - 1) = k * MAXOPBLOCKS - k
      <4> HIDE DEF k
      <4> QED BY <3>1, OpBlocksAssumption
    <3> QED BY Zenon, <3>2, <3>3
  <2>5. /\ (outstanding + 1) * OPBLOCKS \in Int
        /\ (outstanding + 1) * MAXOPBLOCKS \in Int
    BY SMTT(60), <2>3, OpBlocksAssumption
  <2>6. CASE outstanding # 0
    <3>1. Len(lh) + Cardinality(Tokens') <= LOGSIZE - 2
      BY SMTT(60), <2>1, <2>3, <2>4, <2>5, <2>6, LogSizeAssumption
    <3> QED BY Zenon, <1>3, <2>2, <3>1 DEF SpaceInv, Fits
  <2>7. CASE outstanding = 0
    <3>1. lh = << >>
      BY Zenon, <2>2, <2>7 DEF LogInv, DataInv
    <3>2. (outstanding + 1) * OPBLOCKS = OPBLOCKS
      BY SMTT(60), <2>7, OpBlocksAssumption
    <3>3. Len(lh) + Cardinality(Tokens') <= LOGSIZE - 2
      BY SMTT(60), <2>1, <3>1, <3>2, LogSizeAssumption, OpBlocksAssumption DEF Roomy
    <3> QED BY Zenon, <1>3, <2>2, <3>3 DEF SpaceInv, Fits
  <2> QED BY Zenon, <2>6, <2>7
<1>8. ASSUME NEW p \in Ops, NEW b \in Blocks, log_write_check(p, b)
      PROVE  SpaceInv' /\ NoPanic'
  <2>1. At(p, "op") /\ boot = "up" /\ UNCHANGED <<lh, wrote, boot>>
    BY Zenon, <1>8 DEF log_write_check, At, Up
  <2>2. Active' = Active
    BY Zenon, <1>8, CheckStep
  <2>3. Len(lh) <= LOGSIZE - 2
    BY SMTT(60), <1>1, <1>2, <2>1, Finite DEF SpaceInv, Fits, TypeOK
  <2>4. ~(outstanding < 1)
    <3>1. p \in Active
      BY Zenon, <2>1 DEF Active, At
    <3>2. Cardinality(Active) # 0 /\ Cardinality(Active) \in Nat
      BY Zenon, <3>1, Finite DEF SizeFacts, EmptySize
    <3> QED BY SMTT(60), <3>2 DEF LogInv, ControlInv
  <2>5. ~(Len(lh) >= LOGSIZE \/ Len(lh) >= NLOG - 1 \/ outstanding < 1)
    BY SMTT(60), <1>1, <2>3, <2>4, LogSizeAssumption DEF Roomy, TypeOK
  <2>6. Goto(p, "write")
    BY Zenon, <1>8, <2>5 DEF log_write_check
  <2> QED BY Zenon, <1>3, <1>4, <2>1, <2>2, <2>6
<1>9. ASSUME NEW p \in Ops, NEW v \in Vals, log_write(p, v)
      PROVE  SpaceInv' /\ NoPanic'
  <2>1. Goto(p, "op") /\ boot = "up" /\ boot' = boot
    BY Zenon, <1>9 DEF log_write, At, Up
  <2>2. Active' = Active
    BY Zenon, <1>9, LogWriteStep
  <2>3. Fits(LOGSIZE - 2)'
    BY Zenon, <1>2, <1>9, <2>1, <2>2, FitsWrite DEF SpaceInv
  <2> QED BY Zenon, <1>3, <2>1, <2>3 DEF SpaceInv
<1>10. ASSUME NEW p \in Ops, end_op(p) PROVE SpaceInv' /\ NoPanic'
  <2>1. ~committing /\ Active' = Active \ {p} /\ UNCHANGED <<lh, wrote, boot>>
    BY ZenonT(60), <1>10, OpFacts, EndStep DEF end_op
  <2>2. Goto(p, "commit") \/ WakeupAnd(p, "idle")
    BY Zenon, <1>10, <2>1 DEF end_op
  <2>3. NoPanic'
    BY Zenon, <1>3, <2>2 DEF WakeupAnd, NoPanic
  <2> QED BY Zenon, <1>4, <2>1, <2>3
<1>11. ASSUME NEW p \in Ops, commit(p) \/ write_log(p) \/ write_head(p) \/ install_trans(p)
                                \/ clear(p)
       PROVE  SpaceInv' /\ NoPanic'
  <2>1. Active' = {} /\ Active = {}
    BY Zenon, <1>11, WriteLogStep, InstallStep, ClearStep
  <2>2. \E pt : pt # "panic" /\ Goto(p, pt)
    BY Zenon, <1>11 DEF commit, write_log, write_head, install_trans, clear
  <2>3. (lh' = lh /\ wrote' = wrote /\ boot' = boot) \/ lh' = << >>
    BY Zenon, <1>11 DEF commit, write_log, write_head, install_trans, clear, commitRest, InstallOne,
                 ClearHead
  <2>4. lh' = << >> => Len(lh') <= LOGSIZE - 2
    BY Zenon, <1>2
  <2> QED BY Zenon, <1>3, <1>4, <1>5, <2>1, <2>2, <2>3, <2>4
<1>12. ASSUME NEW p \in Ops, end_commit(p) PROVE SpaceInv' /\ NoPanic'
  <2>1. Active' = {} /\ Active = {}
    BY Zenon, <1>12, EndCommitStep
  <2>2. UNCHANGED <<lh, wrote, boot>>
    BY Zenon, <1>12 DEF end_commit
  <2>3. NoPanic'
    BY Zenon, <1>12 DEF end_commit, WakeupAnd, NoPanic
  <2> QED BY Zenon, <1>4, <2>1, <2>2, <2>3
<1>13. CASE crash
  BY Zenon, <1>13 DEF crash, FreshMemory, SpaceInv, NoPanic
<1>14. CASE read_head \/ recover_install \/ recover_clear
  <2>1. Active' = {}
    BY Zenon, <1>14, RecoverStep
  <2>2. pc' = pc /\ (boot' # "up" \/ lh' = << >>)
    BY Zenon, <1>14 DEF read_head, recover_install, recover_clear, ClearHead
  <2>3. lh' = << >> => Len(lh') <= LOGSIZE - 2
    BY Zenon, <1>2
  <2> QED BY Zenon, <1>5, <2>1, <2>2, <2>3 DEF NoPanic
<1>15. CASE UNCHANGED vars \/ \E b \in Blocks : bread(b) \/ recycle(b)
  <2>1. UNCHANGED <<pc, lh, wrote, boot>>
    BY Zenon, <1>15 DEF vars, memVars, bread, recycle
  <2>2. Active' = Active
    BY Zenon, <2>1 DEF Active
  <2> QED BY Zenon, <1>4, <2>1, <2>2 DEF NoPanic
<1> QED BY Zenon, <1>6, <1>7, <1>8, <1>9, <1>10, <1>11, <1>12, <1>13, <1>14, <1>15 DEF Next, Step
-----------------------------------------------------------------------------
\* A block stands at one place of the header.
LEMMA OnePlace ==
  ASSUME NEW s \in Seq(Blocks), NoDup(s), NEW i \in DOMAIN s
  PROVE  (CHOOSE j \in DOMAIN s : s[j] = s[i]) = i
BY Zenon DEF NoDup

\* Without a committed transaction a reboot finds the home blocks.
LEMMA RecoveredHome ==
  ASSUME TypeOK, head = << >>
  PROVE  Recovered = home
<1>1. Listed(head) = {}
  BY SMTT(60) DEF Listed
<1>2. Recovered = [b \in Blocks |-> home[b]]
  BY Zenon, <1>1 DEF Recovered
<1> QED BY Zenon, <1>2 DEF TypeOK

\* With an empty log the disk is what recovery would leave; the same after a step.
LEMMA RecoveredHomeNext ==
  ASSUME TypeOK', head' = << >>
  PROVE  Recovered' = home'
<1>1. Listed(head)' = {}
  BY SMTT(60) DEF Listed
<1>2. Recovered' = [b \in Blocks |-> home'[b]]
  BY Zenon, <1>1 DEF Recovered
<1> QED BY Zenon, <1>2 DEF TypeOK

\* An installed transaction is what a reboot would make of the home blocks.
LEMMA RecoveredInstalled ==
  ASSUME LogInv, head = lh, Installed(Len(lh) + 1)
  PROVE  Recovered = home
<1>1. TypeOK /\ NoDup(head)
  BY Zenon DEF LogInv, DataInv
<1>2. ASSUME NEW b \in Blocks PROVE Recovered[b] = home[b]
  <2>1. CASE b \notin Listed(head)
    BY Zenon, <2>1 DEF Recovered
  <2>2. CASE b \in Listed(head)
    <3>1. PICK i \in DOMAIN head : head[i] = b
      BY Zenon, <2>2 DEF Listed
    <3>a. (CHOOSE j \in DOMAIN head : head[j] = b) = i
      BY SMTT(60), <1>1, <3>1, OnePlace DEF TypeOK
    <3>2. Recovered[b] = logd[i]
      BY ZenonT(60), <2>2, <3>a DEF Recovered
    <3>3. Len(lh) \in Nat /\ i \in 1..((Len(lh) + 1) - 1)
      BY <1>1, <3>1 DEF TypeOK
    <3> QED BY Zenon, <3>1, <3>2, <3>3 DEF Installed
  <2> QED BY Zenon, <2>1, <2>2
<1> QED BY Zenon, <1>1, <1>2 DEF Recovered, TypeOK

\* Installing a block that the header lists changes nothing for a reboot.
LEMMA RecoveredInstall ==
  ASSUME TypeOK, head = lh, tail \in DOMAIN lh, InstallOne
  PROVE  Recovered' = Recovered
<1>1. lh[tail] \in Listed(head) /\ UNCHANGED <<head, logd>>
  BY Zenon DEF Listed, InstallOne
<1>2. \A b \in Blocks : b \notin Listed(head) => home'[b] = home[b]
  BY Zenon, <1>1 DEF TypeOK, InstallOne
<1>3. Listed(head)' = Listed(head)
  BY Zenon, <1>1 DEF Listed
<1> QED BY <1>1, <1>2, <1>3 DEF Recovered

\* Writing the header makes the reboot see what the system sees.
LEMMA RecoveredCommit ==
  ASSUME LogInv, NEW p \in Ops, write_head(p)
  PROVE  Recovered' = [b \in Blocks |-> Contents(b)]
<1>1. TypeOK /\ DataInv /\ NoDup(lh) /\ lh \in Seq(Blocks) /\ Len(lh) \in Nat
  BY SMTT(60) DEF LogInv, DataInv, TypeOK
<1>2. /\ boot = "up" /\ Logged(Len(lh) + 1) /\ head' = lh /\ home' = home /\ logd' = logd
      /\ pc[p] = "write_head"
  BY Zenon, <1>1 DEF write_head, At, Up, DataInv
<1>3. dirty = Listed(lh)
  BY Zenon, <1>1, <1>2 DEF LogInv, DataInv, ControlInv, InCommit
<1>4. ASSUME NEW b \in Blocks PROVE Recovered'[b] = Contents(b)
  <2>1. CASE b \notin Listed(lh)
    <3>1. Recovered'[b] = home[b]
      BY Zenon, <1>2, <2>1 DEF Recovered, Listed
    <3> QED BY ZenonT(60), <1>1, <1>3, <2>1, <3>1 DEF Contents, DataInv, CacheInv
  <2>2. CASE b \in Listed(lh)
    <3>1. PICK i \in DOMAIN lh : lh[i] = b
      BY Zenon, <2>2 DEF Listed
    <3>2. (CHOOSE j \in DOMAIN lh : lh[j] = b) = i
      BY SMTT(60), <1>1, <3>1, OnePlace
    <3>3. b \in Listed(head)'
      BY Zenon, <1>2, <2>2 DEF Listed
    <3>4. Recovered'[b] = logd[i]
      BY Zenon, <1>2, <3>2, <3>3 DEF Recovered
    <3>5. i \in 1..((Len(lh) + 1) - 1)
      BY <1>1, <3>1
    <3> QED BY Zenon, <1>2, <3>1, <3>4, <3>5 DEF Logged
  <2> QED BY Zenon, <2>1, <2>2
<1> QED BY Zenon, <1>4 DEF Recovered

\* A step that changes no contents changes nothing of what operations see.
LEMMA CurrentSame ==
  ASSUME boot' = boot, Recovered' = Recovered, \A b \in Blocks : Contents(b)' = Contents(b)
  PROVE  Current' = Current
<1>1. [b \in Blocks |-> Contents(b)]' = [b \in Blocks |-> Contents(b)]
  OBVIOUS
<1> QED BY Zenon, <1>1 DEF Current

\* A step that leaves the disk alone leaves what recovery would find.
LEMMA FrameSame ==
  ASSUME UNCHANGED <<home, logd, head>>
  PROVE  Recovered' = Recovered /\ (cache' = cache => \A b \in Blocks : Contents(b)' = Contents(b))
BY DEF Recovered, Listed, Contents


\* Every step of the log is a step of AtomicDisk or changes nothing it sees.
LEMMA StepRefines == ASSUME SizeFacts PROVE LogInv /\ [Next]_vars => AtomicStep
<1> SUFFICES ASSUME LogInv, [Next]_vars PROVE AtomicStep
  OBVIOUS
<1>1. TypeOK /\ DataInv /\ TypeOK' /\ LogInv'
  BY Zenon, LogInvStep DEF LogInv
<1>2. ASSUME Recovered' = Recovered, Current' = Current, Active' = Active PROVE AtomicStep
  BY Zenon, <1>2 DEF AtomicStep
<1>3. ASSUME NEW p \in Ops, call(p) PROVE AtomicStep
  <2>1. UNCHANGED <<home, logd, head, cache, boot>>
    BY Zenon, <1>3 DEF call, diskVars
  <2>2. Active' = Active
    BY Zenon, <1>1, <1>3 DEF call, At, Goto, Active, TypeOK
  <2> QED BY Zenon, <1>2, <2>1, <2>2, FrameSame, CurrentSame
<1>4. ASSUME NEW p \in Ops, begin_op(p) PROVE AtomicStep
  <2>1. UNCHANGED <<home, logd, head, cache, boot>>
    BY Zenon, <1>4 DEF begin_op, diskVars
  <2>2. Recovered' = Recovered /\ Current' = Current
    BY Zenon, <2>1, FrameSame, CurrentSame
  <2>3. p \notin Active
    BY Zenon, <1>4 DEF begin_op, At, Active
  <2>4. CASE pc'[p] = "asleep"
    <3>1. Active' = Active
      BY Zenon, <1>1, <1>4, <2>4 DEF begin_op, At, Goto, Active, TypeOK
    <3> QED BY Zenon, <1>2, <2>2, <3>1
  <2>5. CASE pc'[p] # "asleep"
    <3>1. Active' = Active \cup {p}
      BY Zenon, <1>4, <2>5, BeginStep
    <3>2. Atomic!Begin(p)
      BY Zenon, <2>2, <2>3, <3>1 DEF Atomic!Begin
    <3> QED BY Zenon, <3>2 DEF AtomicStep, Atomic!Next
  <2> QED BY Zenon, <2>4, <2>5
<1>5. ASSUME NEW p \in Ops, NEW b \in Blocks, log_write_check(p, b) PROVE AtomicStep
  <2>1. UNCHANGED <<home, logd, head, boot>>
    BY Zenon, <1>5 DEF log_write_check, diskVars
  <2> QED BY Zenon, <1>2, <1>5, <2>1, CheckStep, FrameSame, CurrentSame
<1>6. ASSUME NEW p \in Ops, NEW v \in Vals, log_write(p, v) PROVE AtomicStep
  <2>1. UNCHANGED <<home, logd, head, boot>> /\ boot = "up" /\ p \in Active
    BY Zenon, <1>6 DEF log_write, diskVars, At, Up, Active
  <2>2. Recovered' = Recovered /\ buf[p] \in Blocks
    BY Zenon, <1>6, <2>1, FrameSame DEF LogInv, ControlInv, log_write, At
  <2>3. Active' = Active /\ \A c \in Blocks : Contents(c)' = IF c = buf[p] THEN v ELSE Contents(c)
    BY Zenon, <1>6, LogWriteStep
  <2>4. Current' = [Current EXCEPT ![buf[p]] = v]
    BY Zenon, <2>1, <2>2, <2>3 DEF Current
  <2>5. Atomic!Write(p, buf[p], v)
    BY Zenon, <2>1, <2>2, <2>3, <2>4 DEF Atomic!Write
  <2> QED BY Zenon, <2>2, <2>5 DEF AtomicStep, Atomic!Next
<1>7. ASSUME NEW p \in Ops, end_op(p) PROVE AtomicStep
  <2>1. UNCHANGED <<home, logd, head, cache, boot>>
    BY Zenon, <1>7 DEF end_op, diskVars
  <2>2. Recovered' = Recovered /\ Current' = Current
    BY Zenon, <2>1, FrameSame, CurrentSame
  <2>3. Atomic!End(p)
    BY Zenon, <1>7, <2>2, EndStep DEF Atomic!End
  <2> QED BY Zenon, <2>3 DEF AtomicStep, Atomic!Next
<1>8. ASSUME NEW p \in Ops, commit(p) \/ write_log(p) PROVE AtomicStep
  <2>1. /\ UNCHANGED <<home, head, cache, boot>>
        /\ boot = "up" /\ pc[p] \in {"commit", "write_log"}
    BY Zenon, <1>8 DEF commit, write_log, commitRest, diskVars, At, Up
  <2>2. head = << >>
    BY Zenon, <1>1, <2>1 DEF LogInv, DataInv, ControlInv, InCommit
  <2>3. Recovered' = Recovered
    BY Zenon, <1>1, <2>1, <2>2, RecoveredHome, RecoveredHomeNext
  <2>4. Current' = Current
    BY Zenon, <2>1, <2>3, CurrentSame DEF Contents
  <2> QED BY Zenon, <1>2, <1>8, <2>3, <2>4, WriteLogStep
<1>9. ASSUME NEW p \in Ops, write_head(p) PROVE AtomicStep
  <2>1. Active = {} /\ Active' = {}
    BY Zenon, <1>9, WriteLogStep
  <2>2. boot = "up" /\ UNCHANGED <<home, cache, boot>>
    BY Zenon, <1>9 DEF write_head, At, Up, commitRest
  <2>3. Current = [b \in Blocks |-> Contents(b)] /\ Current' = Current
    BY Zenon, <2>2 DEF Current, Contents
  <2>4. Recovered' = Current
    BY Zenon, <1>9, <2>3, RecoveredCommit
  <2>5. Atomic!Commit
    BY Zenon, <2>1, <2>3, <2>4 DEF Atomic!Commit
  <2> QED BY Zenon, <2>5 DEF AtomicStep, Atomic!Next
<1>10. ASSUME NEW p \in Ops, install_trans(p) PROVE AtomicStep
  <2>1. InstallOne /\ boot' = boot /\ pc[p] = "install"
    BY Zenon, <1>10 DEF install_trans, At
  <2>2. head = lh /\ tail \in DOMAIN lh
    BY SMTT(60), <1>1, <2>1 DEF DataInv, Installing, TypeOK
  <2>3. Recovered' = Recovered
    BY Zenon, <1>1, <2>1, <2>2, RecoveredInstall
  <2> QED BY Zenon, <1>2, <1>10, <2>1, <2>3, InstallStep, CurrentSame
<1>11. ASSUME NEW p \in Ops, clear(p) PROVE AtomicStep
  <2>1. UNCHANGED <<home, cache, boot>> /\ head' = << >> /\ pc[p] = "clear"
    BY Zenon, <1>11 DEF clear, ClearHead, At
  <2>2. head = lh /\ Installed(Len(lh) + 1)
    BY Zenon, <1>1, <2>1 DEF DataInv, Installing
  <2>3. Recovered' = Recovered
    BY Zenon, <1>1, <2>1, <2>2, RecoveredInstalled, RecoveredHomeNext
  <2> QED BY Zenon, <1>2, <1>11, <2>1, <2>3, ClearStep, CurrentSame DEF Contents
<1>12. ASSUME NEW p \in Ops, end_commit(p) PROVE AtomicStep
  <2>1. UNCHANGED <<home, logd, head, cache, boot>>
    BY Zenon, <1>12 DEF end_commit, diskVars
  <2> QED BY Zenon, <1>2, <1>12, <2>1, EndCommitStep, FrameSame, CurrentSame
<1>13. CASE read_head \/ recover_install
  <2>1. boot \in {"read", "install"} /\ boot' \in {"install", "clear"}
    BY Zenon, <1>13 DEF read_head, recover_install
  <2>2. Recovered' = Recovered
    <3>1. CASE read_head
      BY Zenon, <3>1, FrameSame DEF read_head, diskVars
    <3>2. CASE recover_install
      <4>1. InstallOne /\ head = lh /\ tail \in DOMAIN lh
        BY <1>1, <3>2 DEF recover_install, DataInv, TypeOK
      <4> QED BY Zenon, <1>1, <4>1, RecoveredInstall
    <3> QED BY Zenon, <1>13, <3>1, <3>2
  <2>3. Current' = Current
    BY Zenon, <2>1, <2>2 DEF Current
  <2> QED BY Zenon, <1>2, <1>13, <2>2, <2>3, RecoverStep
<1>14. CASE recover_clear
  <2>1. /\ UNCHANGED <<home, cache, dirty>> /\ head' = << >> /\ boot = "clear" /\ boot' = "up"
        /\ head = lh /\ Installed(Len(lh) + 1) /\ dirty = {}
    BY Zenon, <1>1, <1>14 DEF recover_clear, ClearHead, DataInv
  <2>2. Recovered = home /\ Recovered' = home
    BY Zenon, <1>1, <2>1, RecoveredInstalled, RecoveredHomeNext
  <2>3. \A b \in Blocks : Contents(b)' = home[b]
    BY Zenon, <1>1, <2>1 DEF Contents, DataInv, CacheInv
  <2>4. Current' = [b \in Blocks |-> home[b]]
    BY Zenon, <2>1, <2>3 DEF Current
  <2>5. Current' = Current
    BY Zenon, <1>1, <2>1, <2>2, <2>4 DEF Current, TypeOK
  <2> QED BY Zenon, <1>2, <1>14, <2>2, <2>5, RecoverStep
<1>15. ASSUME NEW b \in Blocks, bread(b) \/ recycle(b) PROVE AtomicStep
  <2>1. UNCHANGED <<home, logd, head, boot, pc>>
    BY Zenon, <1>15 DEF bread, recycle, diskVars
  <2>2. Active' = Active
    BY Zenon, <2>1 DEF Active
  <2> QED BY Zenon, <1>2, <1>15, <2>1, <2>2, CacheStep, FrameSame, CurrentSame
<1>16. CASE crash
  <2>1. UNCHANGED <<home, logd, head>> /\ boot' = "read" /\ pc' = [p \in Ops |-> "idle"]
    BY Zenon, <1>16 DEF crash, FreshMemory, diskVars
  <2>2. Active' = {} /\ Recovered' = Recovered
    BY Zenon, <2>1, FrameSame DEF Active
  <2>3. Current' = Recovered
    BY Zenon, <2>1, <2>2 DEF Current
  <2>4. Atomic!Crash
    BY Zenon, <2>2, <2>3 DEF Atomic!Crash
  <2> QED BY Zenon, <2>4 DEF AtomicStep, Atomic!Next
<1>17. CASE UNCHANGED vars
  <2>1. UNCHANGED <<home, logd, head, cache, boot, pc>>
    BY Zenon, <1>17 DEF vars, diskVars, memVars
  <2>2. Active' = Active
    BY Zenon, <2>1 DEF Active
  <2> QED BY Zenon, <1>2, <2>1, <2>2, FrameSame, CurrentSame
<1> QED BY Zenon, <1>3, <1>4, <1>5, <1>6, <1>7, <1>8, <1>9, <1>10, <1>11, <1>12, <1>13, <1>14, <1>15,
           <1>16, <1>17 DEF Next, Step
-----------------------------------------------------------------------------
\* The blocks that operations may still write are at most OPBLOCKS for each.
LEMMA ProductBound ==
  ASSUME NEW A \in SUBSET Ops, NEW T \in SUBSET (A \X (1..OPBLOCKS))
  PROVE  /\ IsFiniteSet(A) /\ Cardinality(A) \in Nat
         /\ IsFiniteSet(T) /\ Cardinality(T) \in Nat
         /\ Cardinality(T) <= Cardinality(A) * OPBLOCKS
<1>1. IsFiniteSet(A)
  BY Zenon, OpsAssumption, FS_Subset
<1>2. IsFiniteSet(1..OPBLOCKS) /\ Cardinality(1..OPBLOCKS) = OPBLOCKS
  BY FS_Interval, OpBlocksAssumption
<1>3. /\ IsFiniteSet(A \X (1..OPBLOCKS))
      /\ Cardinality(A \X (1..OPBLOCKS)) = Cardinality(A) * OPBLOCKS
  BY Zenon, <1>1, <1>2, FS_Product
<1>4. IsFiniteSet(T) /\ Cardinality(T) <= Cardinality(A) * OPBLOCKS
  BY Zenon, <1>3, FS_Subset
<1> QED BY Zenon, <1>1, <1>4, FS_CardinalityType

\* What the step lemmas take from the theory of finite sets.
LEMMA Sizes == SizeFacts
<1>1. EmptySize
  BY Zenon, FS_EmptySet, FS_CardinalityType DEF EmptySize
<1>2. SubsetSize
  BY Zenon, FS_Subset DEF SubsetSize
<1>3. AddSize
  BY Zenon, FS_AddElement DEF AddSize
<1>4. RemoveSize
  BY Zenon, FS_RemoveElement DEF RemoveSize
<1>5. ProductSize
  BY Zenon, ProductBound DEF ProductSize
<1> QED BY Zenon, <1>1, <1>2, <1>3, <1>4, <1>5 DEF SizeFacts

\* The inductive invariant holds in every state.
LEMMA LogInvariant == Spec => []LogInv
<1>1. Init => LogInv
  BY Zenon, Sizes, LogInvInit
<1>2. LogInv /\ [Next]_vars => LogInv'
  BY Zenon, Sizes, LogInvStep
<1> QED BY <1>1, <1>2, PTL DEF Spec

\* The log keeps its types; commit() and recovery stay within the log area.
THEOREM TypeCorrect == Spec => []TypeOK
<1>1. LogInv => TypeOK
  BY Zenon DEF LogInv
<1> QED BY <1>1, LogInvariant, PTL

(* Between two transactions the log is empty and every write of a finished *)
(* operation is at home on the disk.                                       *)
THEOREM Durable == Spec => []QuietIsDurable
<1>1. LogInv => QuietIsDurable
  <2> SUFFICES ASSUME LogInv, boot = "up", outstanding = 0, ~committing
               PROVE  head = << >> /\ lh = << >> /\ \A b \in Blocks : Contents(b) = home[b]
    BY Zenon DEF QuietIsDurable
  <2>1. \A p \in Ops : ~InCommit(p)
    BY Zenon DEF LogInv, ControlInv
  <2>2. head = << >> /\ lh = << >> /\ dirty = {}
    BY SMTT(60), <2>1 DEF LogInv, DataInv, InCommit, Listed
  <2> QED BY Zenon, <2>2 DEF LogInv, DataInv, CacheInv, Contents
<1> QED BY <1>1, LogInvariant, PTL

(* No process sleeps in begin_op() without somebody who will wake it: a    *)
(* commit or an operation in progress.                                     *)
THEOREM NoLostWakeup == Spec => []SleepersWoken
<1>1. Init => SleepersWoken
  BY Zenon DEF Init, FreshMemory, SleepersWoken
<1>2. LogInv /\ SleepersWoken /\ [Next]_vars => SleepersWoken'
  BY Zenon, Sizes, SleepersStep
<1> QED BY <1>1, <1>2, LogInvariant, PTL DEF Spec

(* When every operation stays below MAXOPBLOCKS, what begin_op() reserves  *)
(* is enough although the log area holds one block less than LOGSIZE: the  *)
(* panics of log_write() and end_op() cannot happen.                       *)
THEOREM LogNeverFull == ASSUME Roomy PROVE Spec => []NoPanic
<1>1. Init => SpaceInv /\ NoPanic
  BY Zenon DEF Init, FreshMemory, SpaceInv, NoPanic
<1>2. LogInv /\ SpaceInv /\ NoPanic /\ [Next]_vars => SpaceInv' /\ NoPanic'
  BY Zenon, Sizes, SpaceStep
<1> QED BY <1>1, <1>2, LogInvariant, PTL DEF Spec

(* The log makes file system operations atomic: whatever the moment of a   *)
(* crash, in an operation, in commit() or in recovery itself, the disk     *)
(* that recover_from_log() leaves is that of the last commit.              *)
THEOREM Refinement == Spec => AtomicSpec
<1>1. Init => Atomic!Init
  <2> SUFFICES ASSUME Init PROVE Atomic!Init
    OBVIOUS
  <2>1. Recovered = home
    BY ZenonT(60), Sizes, LogInvInit, RecoveredHome DEF Init, LogInv
  <2>2. Current = Recovered /\ Active = {}
    BY Zenon DEF Current, Init, FreshMemory, Active
  <2> QED BY ZenonT(60), <2>1, <2>2 DEF Atomic!Init, Init
<1>2. LogInv /\ [Next]_vars => [Atomic!Next]_<<Recovered, Current, Active>>
  BY Zenon, Sizes, StepRefines DEF AtomicStep
<1> QED BY <1>1, <1>2, LogInvariant, PTL DEF Spec, AtomicSpec, Atomic!Spec
=============================================================================
