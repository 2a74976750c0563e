------------------------------ MODULE LogSteps ------------------------------
(***************************************************************************)
(* Every step of the log keeps its inductive invariant.                    *)
(***************************************************************************)
EXTENDS LogInv, TLAPS

\* A machine that has just started has nothing in its memory.
LEMMA FreshInv ==
  ASSUME SizeFacts, home \in [Blocks -> Vals], logd \in [1..LOGSIZE -> Vals],
         head \in Seq(Blocks), NoDup(head), Len(head) <= LOGSIZE, boot = "read",
         FreshMemory(cache, dirty, lh, outstanding, committing, pc, tail, wrote, buf)
  PROVE  LogInv
<1>1. TypeOK
  <2>1. tail \in 1..(LOGSIZE + 1)
    BY LogSizeAssumption DEF FreshMemory
  <2>2. pc \in [Ops -> Places] /\ committing \in BOOLEAN
    BY Zenon DEF FreshMemory, Places
  <2>3. lh \in Seq(Blocks) /\ outstanding \in Nat /\ dirty \in SUBSET Blocks
    BY DEF FreshMemory
  <2>4. /\ cache \in [Blocks -> Vals \cup {NoVal}]
        /\ wrote \in [Ops -> SUBSET Blocks] /\ buf \in [Ops -> Blocks \cup {NoBlock}]
    BY Zenon DEF FreshMemory
  <2> QED BY Zenon, <2>1, <2>2, <2>3, <2>4 DEF TypeOK
<1>2. Active = {}
  BY Zenon DEF Active, FreshMemory
<1>3. Tokens = {}
  BY Zenon, <1>2 DEF Tokens
<1>4. ControlInv
  BY Zenon, <1>2 DEF SizeFacts, EmptySize, ControlInv, InCommit, FreshMemory
<1>5. DataInv
  BY LogSizeAssumption DEF DataInv, FreshMemory, NoDup, CacheInv, Listed
<1>6. WroteInv /\ Fits(LOGSIZE)
  BY <1>2, <1>3, LogSizeAssumption DEF SizeFacts, EmptySize, WroteInv, Fits, FreshMemory
<1> QED BY Zenon, <1>1, <1>4, <1>5, <1>6 DEF LogInv

\* A fresh file system, with an empty log, satisfies the invariant.
LEMMA LogInvInit == ASSUME SizeFacts PROVE Init => LogInv
<1> SUFFICES ASSUME Init PROVE LogInv
  OBVIOUS
<1>1. logd \in [1..LOGSIZE -> Vals]
  BY Zenon DEF Init
<1>2. head \in Seq(Blocks) /\ NoDup(head) /\ Len(head) <= LOGSIZE
  BY LogSizeAssumption DEF Init, NoDup
<1> QED BY Zenon, <1>1, <1>2, FreshInv DEF Init

\* A crash leaves a disk from which the machine starts again.
LEMMA CrashStep ==
  ASSUME SizeFacts, LogInv, crash
  PROVE  LogInv'
<1>1. /\ home \in [Blocks -> Vals] /\ logd \in [1..LOGSIZE -> Vals]
      /\ head \in Seq(Blocks) /\ NoDup(head) /\ Len(head) <= LOGSIZE
  BY Zenon DEF LogInv, TypeOK, DataInv
<1>2. UNCHANGED <<home, logd, head>> /\ boot' = "read"
  BY Zenon DEF crash, diskVars
<1>3. FreshMemory(cache', dirty', lh', outstanding', committing', pc', tail', wrote', buf')
  BY Zenon DEF crash
<1>4. TypeOK'
  <2>1. tail' \in 1..(LOGSIZE + 1)
    BY <1>3, LogSizeAssumption DEF FreshMemory
  <2>2. pc' \in [Ops -> Places] /\ committing' \in BOOLEAN
    BY Zenon, <1>3 DEF FreshMemory, Places
  <2>3. lh' \in Seq(Blocks) /\ outstanding' \in Nat /\ dirty' \in SUBSET Blocks
    BY <1>3 DEF FreshMemory
  <2>4. /\ cache' \in [Blocks -> Vals \cup {NoVal}]
        /\ wrote' \in [Ops -> SUBSET Blocks] /\ buf' \in [Ops -> Blocks \cup {NoBlock}]
    BY Zenon, <1>3 DEF FreshMemory
  <2> QED BY Zenon, <1>1, <1>2, <2>1, <2>2, <2>3, <2>4 DEF TypeOK
<1>5. Active' = {}
  BY Zenon, <1>3 DEF Active, FreshMemory
<1>6. Tokens' = {}
  BY Zenon, <1>5 DEF Tokens
<1>7. ControlInv'
  BY Zenon, <1>2, <1>3, <1>5 DEF SizeFacts, EmptySize, ControlInv, InCommit, FreshMemory
<1>8. DataInv'
  BY <1>1, <1>2, <1>3, LogSizeAssumption DEF DataInv, FreshMemory, NoDup, CacheInv, Listed
<1>9. WroteInv' /\ Fits(LOGSIZE)'
  BY <1>3, <1>5, <1>6, LogSizeAssumption DEF SizeFacts, EmptySize, WroteInv, Fits, FreshMemory
<1> QED BY Zenon, <1>4, <1>7, <1>8, <1>9 DEF LogInv

\* The sets that the space of the log is computed from are finite.
LEMMA Finite ==
  ASSUME SizeFacts
  PROVE  /\ IsFiniteSet(Active) /\ Cardinality(Active) \in Nat
  /\ IsFiniteSet(Tokens) /\ Cardinality(Tokens) \in Nat
  /\ Cardinality(Tokens) <= Cardinality(Active) * OPBLOCKS
<1>1. Active \in SUBSET Ops /\ Tokens \in SUBSET (Active \X (1..OPBLOCKS))
  BY Zenon DEF Active, Tokens
<1> QED BY Zenon, <1>1 DEF SizeFacts, ProductSize

\* The same in the next state.
LEMMA FiniteNext ==
  ASSUME SizeFacts
  PROVE  /\ IsFiniteSet(Active') /\ Cardinality(Active') \in Nat
  /\ IsFiniteSet(Tokens') /\ Cardinality(Tokens') \in Nat
  /\ Cardinality(Tokens') <= Cardinality(Active') * OPBLOCKS
<1>1. Active' \in SUBSET Ops /\ Tokens' \in SUBSET (Active' \X (1..OPBLOCKS))
  BY Zenon DEF Active, Tokens
<1> QED BY Zenon, <1>1 DEF SizeFacts, ProductSize

\* Space never shrinks when operations end and nothing is written.
LEMMA FitsEnd ==
  ASSUME SizeFacts, TypeOK, NEW bound \in Int, Fits(bound), Active' \subseteq Active,
         lh' = lh, \A p \in Active' : wrote'[p] = wrote[p]
  PROVE  Fits(bound)'
<1>1. Tokens' \in SUBSET Tokens
  BY Zenon DEF Tokens
<1>2. Cardinality(Tokens') <= Cardinality(Tokens) /\ Cardinality(Tokens') \in Nat
  BY Zenon, <1>1, Finite DEF SizeFacts, EmptySize, SubsetSize
<1>3. Cardinality(Tokens)' = Cardinality(Tokens')
  OBVIOUS
<1>4. Len(lh) \in Nat /\ Cardinality(Tokens) \in Nat
  BY Finite DEF TypeOK
<1> QED BY <1>2, <1>3, <1>4 DEF Fits

\* When no operation starts a write, what each has written stays listed in the log.
LEMMA WroteFrame ==
  ASSUME WroteInv, Active' \subseteq Active, lh' = lh, wrote' = wrote,
         \A p \in Active' : pc'[p] = "write" => pc[p] = "write" /\ buf'[p] = buf[p]
  PROVE  WroteInv'
BY Zenon DEF WroteInv

\* Steps that leave the operations, the transaction and the disk alone.
LEMMA CallStep ==
  ASSUME SizeFacts, LogInv, NEW p \in Ops, call(p) \/ (begin_op(p) /\ pc'[p] = "asleep")
  PROVE  LogInv'
<1>1. TypeOK /\ ControlInv /\ DataInv /\ WroteInv /\ Fits(LOGSIZE)
  BY Zenon DEF LogInv
<1>2. PICK pt \in {"begin", "asleep"} : Goto(p, pt)
  BY Zenon, <1>1 DEF call, begin_op, TypeOK, Goto
<1>3. /\ UNCHANGED <<home, logd, head, cache, dirty, lh, committing, tail, buf, boot>>
      /\ Up /\ pc[p] \in {"idle", "begin"}
  BY Zenon DEF call, begin_op, diskVars, At
<1>4. UNCHANGED <<outstanding, wrote>>
  BY Zenon, <1>1 DEF call, begin_op, TypeOK, Goto
<1>5. \A q \in Ops : pc'[q] = IF q = p THEN pt ELSE pc[q]
  BY Zenon, <1>1, <1>2 DEF TypeOK, Goto
<1>6. Active' = Active
  BY Zenon, <1>3, <1>5 DEF Active
<1>7. TypeOK'
  <2>1. pc' \in [Ops -> Places]
    BY Zenon, <1>1, <1>2 DEF TypeOK, Goto, Places
  <2> QED BY Zenon, <1>1, <1>3, <1>4, <2>1 DEF TypeOK
<1>8. ControlInv'
  BY Zenon, <1>1, <1>3, <1>4, <1>5, <1>6 DEF ControlInv, InCommit, Up
<1>9. DataInv'
  BY <1>1, <1>3, <1>4, <1>5 DEF DataInv, NoDup, CacheInv, Listed, Logged, Installed, Installing,
                               Contents
<1>10. WroteInv' /\ Fits(LOGSIZE)'
  <2>1. WroteInv'
    <3>1. \A q \in Active' : pc'[q] = "write" => pc[q] = "write" /\ buf'[q] = buf[q]
      BY Zenon, <1>3, <1>5 DEF Active
    <3> QED BY Zenon, <1>1, <1>3, <1>4, <1>6, <3>1, WroteFrame
  <2>2. LOGSIZE \in Int
    BY LogSizeAssumption
  <2> QED BY Zenon, <1>1, <1>3, <1>4, <1>6, <2>1, <2>2, FitsEnd
<1> QED BY Zenon, <1>7, <1>8, <1>9, <1>10 DEF LogInv

\* What an operation in progress implies.
LEMMA OpFacts ==
  ASSUME LogInv, NEW p \in Ops, At(p, "op") \/ At(p, "write") \/ (At(p, "begin") /\ ~committing)
  PROVE  /\ boot = "up" /\ ~committing
         /\ \A q \in Ops : ~InCommit(q)
         /\ head = << >> /\ dirty = Listed(lh)
BY Zenon DEF LogInv, ControlInv, DataInv, InCommit, Active, At, Up

\* begin_op() keeps the invariant, whether it sleeps or reserves.
LEMMA BeginStep ==
  ASSUME SizeFacts, LogInv, NEW p \in Ops, begin_op(p), pc'[p] # "asleep"
  PROVE  /\ LogInv'
         /\ Active' = Active \cup {p}
         /\ Cardinality(Tokens') <= (outstanding + 1) * OPBLOCKS
         /\ Cardinality(Tokens') \in Nat
         /\ Len(lh) + (outstanding + 1) * MAXOPBLOCKS <= LOGSIZE
<1>1. TypeOK /\ ControlInv /\ DataInv /\ WroteInv
  BY Zenon DEF LogInv
<1>2. /\ ~committing /\ Len(lh) + (outstanding + 1) * MAXOPBLOCKS <= LOGSIZE
      /\ Goto(p, "op") /\ outstanding' = outstanding + 1
      /\ wrote' = [wrote EXCEPT ![p] = {}]
      /\ UNCHANGED <<home, logd, head, cache, dirty, lh, committing, tail, buf, boot>>
      /\ At(p, "begin")
  <2>1. ~(committing \/ Len(lh) + (outstanding + 1) * MAXOPBLOCKS > LOGSIZE)
    BY Zenon, <1>1 DEF begin_op, TypeOK, Goto
  <2>2. Len(lh) \in Nat /\ (outstanding + 1) * MAXOPBLOCKS \in Int /\ LOGSIZE \in Nat
    BY <1>1, OpBlocksAssumption, LogSizeAssumption DEF TypeOK
  <2> QED BY <2>1, <2>2 DEF begin_op, diskVars
<1>3. \A q \in Ops : pc'[q] = IF q = p THEN "op" ELSE pc[q]
  BY Zenon, <1>1, <1>2 DEF TypeOK, Goto
<1>4. Active' = Active \cup {p} /\ p \notin Active
  BY Zenon, <1>2, <1>3 DEF Active, At
<1>5. TypeOK'
  <2>1. pc' \in [Ops -> Places]
    BY Zenon, <1>1, <1>2 DEF TypeOK, Goto, Places
  <2>2. outstanding' \in Nat /\ wrote' \in [Ops -> SUBSET Blocks]
    BY <1>1, <1>2 DEF TypeOK
  <2> QED BY Zenon, <1>1, <1>2, <2>1, <2>2 DEF TypeOK
<1>6. Cardinality(Active') = outstanding + 1
  BY Zenon, <1>1, <1>4, Finite DEF SizeFacts, AddSize, ControlInv
<1>7. boot = "up" /\ (\A q \in Ops : ~InCommit(q))
  BY Zenon, <1>2, OpFacts
<1>8. ControlInv'
  BY Zenon, <1>1, <1>2, <1>3, <1>6, <1>7 DEF ControlInv, InCommit, At, Up
<1>9. DataInv'
  <2>1. outstanding' # 0
    BY <1>1, <1>2 DEF TypeOK
  <2> QED BY <1>1, <1>2, <1>3, <1>7, <2>1 DEF DataInv, NoDup, CacheInv, Listed, InCommit
<1>10. \A q \in Active : wrote'[q] = wrote[q] /\ pc'[q] = pc[q]
  BY Zenon, <1>1, <1>2, <1>3, <1>4 DEF TypeOK, Active
<1>11. WroteInv'
  <2>1. wrote'[p] = {} /\ pc'[p] = "op"
    BY Zenon, <1>1, <1>2, <1>3 DEF TypeOK
  <2>2. IsFiniteSet({}) /\ Cardinality({}) = 0
    BY Zenon DEF SizeFacts, EmptySize
  <2>3. \A q \in Active : buf'[q] = buf[q]
    BY Zenon, <1>2
  <2>4. 0 <= OPBLOCKS /\ {} \subseteq Listed(lh)
    BY OpBlocksAssumption
  <2> QED BY Zenon, <1>1, <1>2, <1>4, <1>10, <2>1, <2>2, <2>3, <2>4 DEF WroteInv
<1>12. Cardinality(Tokens') <= (outstanding + 1) * OPBLOCKS /\ Cardinality(Tokens') \in Nat
  BY Zenon, <1>6, FiniteNext
<1>13. (outstanding + 1) * OPBLOCKS <= (outstanding + 1) * MAXOPBLOCKS
  <2>1. outstanding + 1 \in Nat
    BY <1>1 DEF TypeOK
  <2> QED BY <2>1, OpBlocksAssumption
<1>14. Fits(LOGSIZE)'
  <2>1. Len(lh) \in Nat /\ (outstanding + 1) * MAXOPBLOCKS \in Int
        /\ (outstanding + 1) * OPBLOCKS \in Int
    BY <1>1, OpBlocksAssumption DEF TypeOK
  <2>2. Len(lh) + Cardinality(Tokens') <= LOGSIZE
    BY <1>2, <1>12, <1>13, <2>1, LogSizeAssumption
  <2> QED BY Zenon, <1>2, <2>2 DEF Fits
<1> QED BY Zenon, <1>2, <1>4, <1>5, <1>8, <1>9, <1>11, <1>12, <1>14 DEF LogInv

\* The first half of log_write(), with its two panics, keeps the invariant.
LEMMA CheckStep ==
  ASSUME SizeFacts, LogInv, NEW p \in Ops, NEW b \in Blocks, log_write_check(p, b)
  PROVE  LogInv' /\ Active' = Active /\ (\A c \in Blocks : Contents(c)' = Contents(c))
<1>1. TypeOK /\ ControlInv /\ DataInv /\ WroteInv /\ Fits(LOGSIZE)
  BY Zenon DEF LogInv
<1>2. /\ At(p, "op") /\ Cardinality(wrote[p] \cup {b}) <= OPBLOCKS
      /\ cache' = [cache EXCEPT ![b] = Contents(b)]
      /\ buf' = [buf EXCEPT ![p] = b]
      /\ UNCHANGED <<home, logd, head, dirty, lh, outstanding, committing, tail, wrote, boot>>
  BY Zenon DEF log_write_check, diskVars
<1>3. PICK pt \in {"panic", "write"} : Goto(p, pt)
  BY Zenon DEF log_write_check
<1>4. \A q \in Ops : pc'[q] = IF q = p THEN pt ELSE pc[q]
  BY Zenon, <1>1, <1>3 DEF TypeOK, Goto
<1>5. Active' = Active
  BY Zenon, <1>2, <1>4 DEF Active, At
<1>6. Contents(b) \in Vals /\ Contents(b) # NoVal
  BY <1>1, NamesAssumption DEF TypeOK, Contents, NoVal
<1>7. TypeOK'
  <2>1. pc' \in [Ops -> Places]
    BY Zenon, <1>1, <1>3 DEF TypeOK, Goto, Places
  <2>2. /\ cache' \in [Blocks -> Vals \cup {NoVal}]
        /\ buf' \in [Ops -> Blocks \cup {NoBlock}]
    BY Zenon, <1>1, <1>2, <1>6 DEF TypeOK
  <2> QED BY Zenon, <1>1, <1>2, <2>1, <2>2 DEF TypeOK
<1>8. \A q \in Ops : ~InCommit(q) /\ ~InCommit(q)'
  <2>1. \A q \in Ops : ~InCommit(q)
    BY Zenon, <1>2, OpFacts
  <2> QED BY Zenon, <1>4, <2>1 DEF InCommit
<1>9. \A q \in Ops : buf'[q] = IF q = p THEN b ELSE buf[q]
  BY Zenon, <1>1, <1>2 DEF TypeOK
<1>10. ControlInv'
  BY Zenon, <1>1, <1>2, <1>4, <1>5, <1>8, <1>9 DEF ControlInv, At, Up
<1>11. \A c \in Blocks : cache'[c] = IF c = b THEN Contents(b) ELSE cache[c]
  BY Zenon, <1>1, <1>2 DEF TypeOK
<1>12. \A c \in Blocks : Contents(c)' = Contents(c)
  BY Zenon, <1>2, <1>6, <1>11 DEF Contents
<1>13. CacheInv'
  <2>1. b \notin dirty => Contents(b) = home[b]
    BY Zenon, <1>1 DEF DataInv, CacheInv, Contents
  <2>2. dirty \subseteq Blocks
    BY Zenon, <1>1 DEF TypeOK
  <2> QED BY Zenon, <1>1, <1>2, <1>6, <1>11, <2>1, <2>2 DEF DataInv, CacheInv
<1>14. DataInv'
  <2>1. boot = "up" /\ head = << >> /\ dirty = Listed(lh) /\ outstanding # 0
    <3>1. p \in Active
      BY Zenon, <1>2 DEF Active, At
    <3>2. Cardinality(Active) # 0
      BY Zenon, <1>1, <3>1, Finite DEF SizeFacts, EmptySize
    <3>3. boot = "up" /\ head = << >> /\ dirty = Listed(lh)
      BY Zenon, <1>2, OpFacts
    <3> QED BY Zenon, <1>1, <3>2, <3>3 DEF ControlInv
  <2>2. \A q \in Ops : pc'[q] \notin {"write_log", "write_head", "install", "clear", "committed"}
    BY Zenon, <1>8 DEF InCommit
  <2> QED BY SMTT(60), <1>1, <1>2, <1>13, <2>1, <2>2 DEF DataInv, NoDup, Listed
<1>15. WroteInv'
  BY Zenon, <1>1, <1>2, <1>4, <1>5, <1>9 DEF WroteInv, Active
<1>16. Fits(LOGSIZE)'
  <2>1. LOGSIZE \in Int
    BY LogSizeAssumption
  <2> QED BY Zenon, <1>1, <1>2, <1>5, <2>1, FitsEnd
<1> QED BY Zenon, <1>5, <1>7, <1>10, <1>12, <1>14, <1>15, <1>16 DEF LogInv

\* The block list after log_write(): one entry more, or none when it is absorbed.
LEMMA AppendFacts ==
  ASSUME NEW s \in Seq(Blocks), NoDup(s), NEW b \in Blocks,
         NEW t, t = IF b \in Listed(s) THEN s ELSE Append(s, b)
  PROVE  /\ t \in Seq(Blocks) /\ NoDup(t)
         /\ Listed(t) = Listed(s) \cup {b}
         /\ Len(t) <= Len(s) + 1
         /\ b \in Listed(s) => t = s
         /\ b \notin Listed(s) => Len(t) = Len(s) + 1
<1>1. CASE b \in Listed(s)
  BY <1>1
<1>2. CASE b \notin Listed(s)
  <2>1. /\ t \in Seq(Blocks) /\ Len(t) = Len(s) + 1 /\ t[Len(s) + 1] = b
        /\ \A i \in 1..Len(s) : t[i] = s[i]
    BY <1>2
  <2>2. Listed(t) = Listed(s) \cup {b}
    BY <2>1 DEF Listed
  <2>3. NoDup(t)
    BY <1>2, <2>1 DEF Listed, NoDup
  <2> QED BY <1>2, <2>1, <2>2, <2>3
<1> QED BY Zenon, <1>1, <1>2

\* A write turns a token into an entry of the log, or costs nothing.
LEMMA FitsWrite ==
  ASSUME SizeFacts, LogInv, NEW p \in Ops, NEW v \in Vals, log_write(p, v), Active' = Active,
         NEW bound \in Int, Fits(bound)
  PROVE  Fits(bound)'
<1> DEFINE b == buf[p]
           n == Cardinality(wrote[p])
<1>1. TypeOK /\ ControlInv /\ DataInv /\ WroteInv
  BY Zenon DEF LogInv
<1>2. /\ pc[p] = "write" /\ p \in Active /\ b \in Blocks
      /\ lh' = IF b \in Listed(lh) THEN lh ELSE Append(lh, b)
      /\ wrote' = [wrote EXCEPT ![p] = wrote[p] \cup {b}]
  BY Zenon, <1>1 DEF log_write, At, Active, ControlInv
<1>3. Len(lh') <= Len(lh) + 1 /\ Len(lh) \in Nat /\ Len(lh') \in Nat
  BY <1>1, <1>2, AppendFacts DEF TypeOK, DataInv
<1>4. \A q \in Ops : wrote'[q] = IF q = p THEN wrote[p] \cup {b} ELSE wrote[q]
  BY Zenon, <1>1, <1>2 DEF TypeOK
<1>5. wrote[p] \subseteq Listed(lh) /\ IsFiniteSet(wrote[p]) /\ n \in Nat
      /\ Cardinality(wrote[p] \cup {b}) <= OPBLOCKS
  BY Zenon, <1>1, <1>2 DEF SizeFacts, EmptySize, WroteInv
<1>6. CASE b \in wrote[p]
  <2>1. lh' = lh /\ \A q \in Active' : wrote'[q] = wrote[q]
    BY Zenon, <1>2, <1>4, <1>5, <1>6 DEF Active
  <2> QED BY Zenon, <1>1, <2>1, FitsEnd
<1>7. CASE b \notin wrote[p]
  <2>1. Cardinality(wrote'[p]) = n + 1 /\ n + 1 <= OPBLOCKS
    <3>1. Cardinality(wrote[p] \cup {b}) = n + 1
      BY Zenon, <1>5, <1>7 DEF SizeFacts, AddSize
    <3> QED BY Zenon, <1>4, <1>5, <3>1
  <2>2. <<p, n + 1>> \in Tokens
    BY <1>2, <1>5, <2>1, OpBlocksAssumption DEF Tokens
  <2>3. Tokens' = Tokens \ {<<p, n + 1>>}
    <3>1. \A q \in Active : q # p => wrote'[q] = wrote[q]
      BY Zenon, <1>4 DEF Active
    <3>2. \A i \in 1..OPBLOCKS : i > n + 1 <=> i > n /\ i # n + 1
      BY SMTT(60), <1>5, OpBlocksAssumption
    <3>3. \A q \in Active, i \in 1..OPBLOCKS :
            i > Cardinality(wrote'[q]) <=> i > Cardinality(wrote[q]) /\ <<q, i>> # <<p, n + 1>>
      BY Zenon, <2>1, <3>1, <3>2
    <3> QED BY <3>3 DEF Tokens
  <2>4. Cardinality(Tokens') = Cardinality(Tokens) - 1 /\ Cardinality(Tokens) \in Nat
    BY Zenon, <1>1, <2>2, <2>3, Finite DEF SizeFacts, RemoveSize
  <2> QED BY <1>3, <2>4 DEF Fits
<1> QED BY Zenon, <1>6, <1>7

\* log_write() keeps the invariant, whether it absorbs the block or appends it.
LEMMA LogWriteStep ==
  ASSUME SizeFacts, LogInv, NEW p \in Ops, NEW v \in Vals, log_write(p, v)
  PROVE  /\ LogInv' /\ Active' = Active
         /\ \A c \in Blocks : Contents(c)' = IF c = buf[p] THEN v ELSE Contents(c)
<1> DEFINE b == buf[p]
<1>1. TypeOK /\ ControlInv /\ DataInv /\ WroteInv /\ Fits(LOGSIZE)
  BY Zenon DEF LogInv
<1>2. /\ At(p, "write") /\ b \in Blocks /\ p \in Active
      /\ cache' = [cache EXCEPT ![b] = v]
      /\ lh' = IF b \in Listed(lh) THEN lh ELSE Append(lh, b)
      /\ dirty' = dirty \cup {b}
      /\ wrote' = [wrote EXCEPT ![p] = wrote[p] \cup {b}]
      /\ buf' = [buf EXCEPT ![p] = NoBlock]
      /\ Goto(p, "op")
      /\ UNCHANGED <<home, logd, head, outstanding, committing, tail, boot>>
  BY Zenon, <1>1 DEF log_write, At, Active, ControlInv, diskVars
<1> HIDE DEF b
<1>3. \A q \in Ops : /\ pc'[q] = IF q = p THEN "op" ELSE pc[q]
                     /\ buf'[q] = IF q = p THEN NoBlock ELSE buf[q]
                     /\ wrote'[q] = IF q = p THEN wrote[p] \cup {b} ELSE wrote[q]
  BY Zenon, <1>1, <1>2 DEF TypeOK, Goto
<1>4. Active' = Active
  BY Zenon, <1>2, <1>3 DEF Active, At
<1>5. /\ lh' \in Seq(Blocks) /\ NoDup(lh') /\ Listed(lh') = Listed(lh) \cup {b}
      /\ Len(lh') \in Nat
  <2>1. lh \in Seq(Blocks) /\ NoDup(lh)
    BY Zenon, <1>1 DEF TypeOK, DataInv
  <2>2. lh' \in Seq(Blocks) /\ NoDup(lh') /\ Listed(lh') = Listed(lh) \cup {b}
    BY Zenon, <1>2, <2>1, AppendFacts, Zenon
  <2> QED BY SMTT(60), <2>2
<1>6. TypeOK'
  <2>1. pc' \in [Ops -> Places] /\ buf' \in [Ops -> Blocks \cup {NoBlock}]
    BY Zenon, <1>1, <1>2 DEF TypeOK, Goto, Places
  <2>2. /\ cache' \in [Blocks -> Vals \cup {NoVal}] /\ dirty' \in SUBSET Blocks
        /\ wrote' \in [Ops -> SUBSET Blocks]
    BY Zenon, <1>1, <1>2 DEF TypeOK
  <2> QED BY Zenon, <1>1, <1>2, <1>5, <2>1, <2>2 DEF TypeOK
<1>7. /\ boot = "up" /\ ~committing /\ head = << >> /\ dirty = Listed(lh)
      /\ \A q \in Ops : ~InCommit(q)
  BY Zenon, <1>2, OpFacts
<1>8. \A q \in Ops : ~InCommit(q)'
  BY Zenon, <1>3, <1>7 DEF InCommit
<1>9. ControlInv'
  BY Zenon, <1>1, <1>2, <1>3, <1>4, <1>7, <1>8 DEF ControlInv
<1>10. \A c \in Blocks : cache'[c] = IF c = b THEN v ELSE cache[c]
  BY Zenon, <1>1, <1>2 DEF TypeOK
<1>11. v # NoVal
  BY Zenon, NamesAssumption DEF NoVal
<1>12. CacheInv'
  <2>1. dirty' \subseteq Blocks
    BY Zenon, <1>6 DEF TypeOK
  <2> QED BY Zenon, <1>1, <1>2, <1>10, <1>11, <2>1 DEF DataInv, CacheInv
<1>13. Fits(LOGSIZE)'
  <2>1. LOGSIZE \in Int
    BY LogSizeAssumption
  <2> QED BY Zenon, <1>1, <1>4, <2>1, FitsWrite
<1>14. Len(lh') <= LOGSIZE
  <2>1. Cardinality(Tokens') \in Nat
    BY Zenon, FiniteNext
  <2> QED BY <1>5, <1>13, <2>1, LogSizeAssumption DEF Fits
<1>15. DataInv'
  <2>1. outstanding # 0
    BY Zenon, <1>1, <1>2, Finite DEF SizeFacts, EmptySize, ControlInv
  <2>2. \A q \in Ops : pc'[q] \notin {"write_log", "write_head", "install", "clear", "committed"}
    BY Zenon, <1>8 DEF InCommit
  <2> QED BY Zenon, <1>1, <1>2, <1>5, <1>7, <1>12, <1>14, <2>1, <2>2 DEF DataInv
<1>16. WroteInv'
  <2>1. ASSUME NEW q \in Active
        PROVE  /\ wrote'[q] \subseteq Listed(lh')
               /\ IsFiniteSet(wrote'[q]) /\ Cardinality(wrote'[q]) <= OPBLOCKS
               /\ pc'[q] = "write" => Cardinality(wrote'[q] \cup {buf'[q]}) <= OPBLOCKS
    <3>1. q \in Ops
      BY Zenon DEF Active
    <3>2. CASE q = p
      <4>1. wrote'[q] = wrote[p] \cup {b} /\ pc'[q] = "op"
        BY Zenon, <1>3, <3>1, <3>2
      <4>2. /\ wrote[p] \subseteq Listed(lh) /\ IsFiniteSet(wrote[p])
            /\ Cardinality(wrote[p] \cup {b}) <= OPBLOCKS
        BY Zenon, <1>1, <1>2 DEF WroteInv, At, b
      <4>3. IsFiniteSet(wrote[p] \cup {b})
        BY Zenon, <4>2 DEF SizeFacts, AddSize
      <4> QED BY Zenon, <1>5, <4>1, <4>2, <4>3
    <3>3. CASE q # p
      BY Zenon, <1>1, <1>3, <1>5, <3>1, <3>3 DEF WroteInv
    <3> QED BY Zenon, <3>2, <3>3
  <2> QED BY ZenonT(60), <1>4, <2>1 DEF WroteInv
<1>17. \A c \in Blocks : Contents(c)' = IF c = b THEN v ELSE Contents(c)
  BY Zenon, <1>2, <1>10, <1>11 DEF Contents
<1> QED BY Zenon, <1>4, <1>6, <1>9, <1>13, <1>15, <1>16, <1>17 DEF LogInv, b

\* end_op() keeps the invariant, whether or not it goes on to commit.
LEMMA EndStep ==
  ASSUME SizeFacts, LogInv, NEW p \in Ops, end_op(p)
  PROVE  LogInv' /\ p \in Active /\ Active' = Active \ {p}
<1>1. TypeOK /\ ControlInv /\ DataInv /\ WroteInv /\ Fits(LOGSIZE)
  BY Zenon DEF LogInv
<1>2. /\ At(p, "op") /\ p \in Active
      /\ outstanding' = outstanding - 1
      /\ UNCHANGED <<home, logd, head, cache, dirty, lh, tail, wrote, buf, boot>>
  BY Zenon DEF end_op, At, Active, diskVars
<1>3. /\ boot = "up" /\ ~committing /\ head = << >> /\ dirty = Listed(lh)
      /\ \A q \in Ops : ~InCommit(q)
  BY Zenon, <1>2, OpFacts
<1>4. \/ outstanding = 1 /\ Goto(p, "commit") /\ committing' = TRUE
      \/ outstanding # 1 /\ WakeupAnd(p, "idle") /\ committing' = committing
  BY Zenon, <1>3 DEF end_op
<1>5. \A q \in Ops : \/ q = p /\ pc'[q] = IF outstanding = 1 THEN "commit" ELSE "idle"
                     \/ q # p /\ (pc'[q] = pc[q] \/ (pc[q] = "asleep" /\ pc'[q] = "begin"))
  BY Zenon, <1>1, <1>4 DEF TypeOK, Goto, WakeupAnd
<1>6. Active' = Active \ {p}
  BY Zenon, <1>5 DEF Active
<1>7. Cardinality(Active') = outstanding - 1 /\ outstanding # 0 /\ outstanding \in Nat
  BY Zenon, <1>1, <1>2, <1>6, Finite DEF SizeFacts, EmptySize, RemoveSize, ControlInv
<1>8. TypeOK'
  <2>1. pc' \in [Ops -> Places]
    BY Zenon, <1>1, <1>4 DEF TypeOK, Goto, WakeupAnd, Places
  <2>2. outstanding' \in Nat
    BY <1>2, <1>7
  <2>3. committing' \in BOOLEAN
    BY Zenon, <1>1, <1>4 DEF TypeOK
  <2> QED BY Zenon, <1>1, <1>2, <2>1, <2>2, <2>3 DEF TypeOK
<1>9. ControlInv'
  <2>1. \A q \in Ops : InCommit(q)' <=> q = p /\ outstanding = 1
    BY Zenon, <1>3, <1>5 DEF InCommit
  <2>2. outstanding = 1 => Active' = {}
    <3>1. IsFiniteSet(Active')
      BY Zenon, <1>1, <1>6, Finite DEF SizeFacts, RemoveSize
    <3> QED BY <1>7, <3>1 DEF SizeFacts, EmptySize
  <2>3. committing' <=> outstanding = 1
    BY SMTT(60), <1>3, <1>4
  <2>4. \A q \in Ops : pc'[q] = "write" => buf'[q] \in Blocks
    BY ZenonT(60), <1>1, <1>2, <1>5 DEF ControlInv
  <2> QED BY Zenon, <1>2, <1>3, <1>7, <2>1, <2>2, <2>3, <2>4 DEF ControlInv
<1>10. DataInv'
  <2>1. \A q \in Ops : pc'[q] \notin {"write_log", "write_head", "install", "clear", "committed"}
    BY Zenon, <1>3, <1>5 DEF InCommit
  <2>2. outstanding' = 0 => committing'
    BY <1>2, <1>4, <1>7
  <2> QED BY SMTT(60), <1>1, <1>2, <1>3, <2>1, <2>2 DEF DataInv, NoDup, CacheInv, Listed
<1>11. WroteInv'
  <2>1. \A q \in Active' : pc'[q] = "write" => pc[q] = "write" /\ buf'[q] = buf[q]
    BY Zenon, <1>2, <1>5 DEF Active
  <2> QED BY ZenonT(60), <1>1, <1>2, <1>6, <2>1, WroteFrame
<1>12. Fits(LOGSIZE)'
  <2>1. LOGSIZE \in Int
    BY LogSizeAssumption
  <2> QED BY Zenon, <1>1, <1>2, <1>6, <2>1, FitsEnd
<1> QED BY Zenon, <1>2, <1>6, <1>8, <1>9, <1>10, <1>11, <1>12 DEF LogInv

\* The committing process moves on; nobody else is in an operation.
LEMMA CommitFrame ==
  ASSUME SizeFacts, LogInv, NEW p \in Ops, Up, pc[p] \in CommitPlaces,
         NEW pt \in CommitPlaces, Goto(p, pt),
         UNCHANGED <<outstanding, committing, wrote, buf, boot>>, lh' \in Seq(Blocks)
  PROVE  /\ boot = "up" /\ committing /\ outstanding = 0
         /\ pc' \in [Ops -> Places]
         /\ \A q \in Ops : pc'[q] = IF q = p THEN pt ELSE pc[q]
         /\ \A q \in Ops : q # p => pc[q] \notin CommitPlaces
         /\ ControlInv' /\ WroteInv'
         /\ Active = {} /\ Active' = {}
         /\ \A bound \in Int : Len(lh') <= bound => Fits(bound)'
<1>1. TypeOK /\ ControlInv
  BY Zenon DEF LogInv
<1>2. pc' \in [Ops -> Places] /\ \A q \in Ops : pc'[q] = IF q = p THEN pt ELSE pc[q]
  BY Zenon, <1>1 DEF TypeOK, Goto, Places, CommitPlaces
<1>3. committing /\ boot = "up" /\ Active = {}
  BY Zenon, <1>1 DEF ControlInv, InCommit, CommitPlaces, Up
<1>4. \A q \in Ops : q # p => pc[q] \notin CommitPlaces
  BY Zenon, <1>1 DEF ControlInv, InCommit, CommitPlaces
<1>5. Active' = {}
  BY Zenon, <1>2, <1>3 DEF Active, CommitPlaces
<1>6. outstanding = 0
  BY Zenon, <1>1, <1>3 DEF SizeFacts, EmptySize, ControlInv
<1>7. ControlInv'
  <2>1. \A q \in Ops : InCommit(q)' <=> q = p
    BY Zenon, <1>2, <1>4 DEF InCommit, CommitPlaces
  <2>2. Cardinality(Active') = 0
    BY Zenon, <1>5 DEF SizeFacts, EmptySize
  <2>3. \A q \in Ops : pc'[q] = "write" => buf'[q] \in Blocks
    BY Zenon, <1>1, <1>2 DEF ControlInv, CommitPlaces
  <2> QED BY Zenon, <1>3, <1>5, <1>6, <2>1, <2>2, <2>3 DEF ControlInv
<1>8. WroteInv'
  BY Zenon, <1>5 DEF WroteInv
<1>9. \A bound \in Int : Len(lh') <= bound => Fits(bound)'
  <2>1. Tokens' = {}
    BY Zenon, <1>5 DEF Tokens
  <2>2. Cardinality(Tokens') = 0
    BY Zenon, <2>1 DEF SizeFacts, EmptySize
  <2>3. Len(lh') \in Nat
    OBVIOUS
  <2> QED BY <2>2, <2>3 DEF Fits
<1> QED BY Zenon, <1>2, <1>3, <1>4, <1>5, <1>6, <1>7, <1>8, <1>9

\* commit() starts, write_log() copies one block and write_head() commits.
LEMMA WriteLogStep ==
  ASSUME SizeFacts, LogInv, NEW p \in Ops, commit(p) \/ write_log(p) \/ write_head(p)
  PROVE  LogInv' /\ Active = {} /\ Active' = {}
<1>1. TypeOK /\ ControlInv /\ DataInv
  BY Zenon DEF LogInv
<1>2. UNCHANGED <<home, cache, dirty, lh, outstanding, committing, wrote, buf, boot>>
  BY Zenon DEF commit, write_log, write_head, commitRest, diskVars
<1>3. Up /\ pc[p] \in {"commit", "write_log", "write_head"}
  BY Zenon DEF commit, write_log, write_head, At
<1>4. PICK pt \in {"committed", "write_log", "write_head", "install"} : Goto(p, pt)
  BY Zenon DEF commit, write_log, write_head
<1>5. pc[p] \in CommitPlaces /\ pt \in CommitPlaces /\ lh' \in Seq(Blocks)
  BY Zenon, <1>1, <1>2, <1>3 DEF CommitPlaces, TypeOK
<1>6. /\ boot = "up" /\ committing /\ outstanding = 0
      /\ pc' \in [Ops -> Places]
      /\ \A q \in Ops : pc'[q] = IF q = p THEN pt ELSE pc[q]
      /\ \A q \in Ops : q # p => pc[q] \notin CommitPlaces
      /\ ControlInv' /\ WroteInv'
      /\ Active = {} /\ Active' = {}
      /\ \A bound \in Int : Len(lh') <= bound => Fits(bound)'
  BY Zenon, <1>2, <1>3, <1>4, <1>5, CommitFrame
<1>7. head = << >> /\ dirty = Listed(lh) /\ Len(lh) <= LOGSIZE /\ Len(lh) \in Nat
  <2>1. \A q \in Ops : pc[q] \notin {"install", "clear"}
    BY Zenon, <1>3, <1>6 DEF CommitPlaces
  <2> QED BY <1>1, <1>6, <2>1 DEF DataInv, TypeOK
<1>8. \A c : Contents(c)' = Contents(c)
  BY Zenon, <1>2 DEF Contents
<1>9. /\ logd' \in [1..LOGSIZE -> Vals] /\ head' \in {head, lh} /\ tail' \in 1..(LOGSIZE + 1)
      /\ pt = "write_log" => Logged(tail)' /\ tail' <= Len(lh)
      /\ pt = "write_head" => Logged(Len(lh) + 1)' /\ 1 <= Len(lh)
      /\ pt = "install" => Logged(Len(lh) + 1)' /\ head' = lh /\ tail' = 1 /\ tail' <= Len(lh)
      /\ pt = "committed" => lh = << >>
      /\ pt # "install" => head' = head
  <2>1. CASE commit(p)
    <3>1. /\ UNCHANGED <<logd, head>> /\ tail' = 1
          /\ pc'[p] = IF lh = << >> THEN "committed" ELSE "write_log"
      BY Zenon, <1>1, <2>1 DEF commit, TypeOK, Goto, diskVars
    <3>2. 1 \in 1..(LOGSIZE + 1)
      BY LogSizeAssumption
    <3>3. lh # << >> => 1 <= Len(lh)
      BY <1>1 DEF TypeOK
    <3>4. Logged(tail)'
      BY <3>1 DEF Logged
    <3> QED BY Zenon, <1>1, <1>6, <3>1, <3>2, <3>3, <3>4 DEF TypeOK
  <2>2. CASE write_log(p)
    <3>1. /\ logd' = [logd EXCEPT ![tail] = Contents(lh[tail])]
          /\ tail' = tail + 1 /\ head' = head
          /\ pc'[p] = IF tail = Len(lh) THEN "write_head" ELSE "write_log"
          /\ Logged(tail) /\ tail <= Len(lh)
      BY Zenon, <1>1, <2>2 DEF write_log, TypeOK, Goto, DataInv, At
    <3>2. tail \in 1..LOGSIZE /\ tail \in 1..Len(lh)
      BY SMTT(60), <1>1, <1>7, <3>1, LogSizeAssumption DEF TypeOK
    <3>3. Contents(lh[tail]) \in Vals
      BY <1>1, <3>2 DEF TypeOK, Contents, DataInv
    <3>4. logd' \in [1..LOGSIZE -> Vals] /\ tail' \in 1..(LOGSIZE + 1)
      BY SMTT(60), <1>1, <3>1, <3>2, <3>3, LogSizeAssumption DEF TypeOK
    <3>5. \A j \in 1..LOGSIZE : logd'[j] = IF j = tail THEN Contents(lh[tail]) ELSE logd[j]
      BY Zenon, <1>1, <3>1 DEF TypeOK
    <3>6. \A j \in 1..tail : logd'[j] = Contents(lh[j])
      <4>1. \A j \in 1..tail : j \in 1..LOGSIZE /\ (j = tail \/ j \in 1..(tail - 1))
        BY <3>2, LogSizeAssumption
      <4> QED BY Zenon, <3>1, <3>5, <4>1 DEF Logged
    <3>7. (tail + 1) - 1 = tail /\ (Len(lh) + 1) - 1 = Len(lh)
      BY <1>7, <3>2
    <3>8. Logged(tail)'
      BY Zenon, <1>2, <1>8, <3>1, <3>6, <3>7 DEF Logged
    <3>9. tail = Len(lh) => Logged(Len(lh) + 1)'
      BY Zenon, <1>2, <1>8, <3>6, <3>7 DEF Logged
    <3>10. tail # Len(lh) => tail' <= Len(lh)
      BY SMTT(60), <1>7, <3>1, <3>2
    <3> QED BY SMTT(60), <1>6, <3>1, <3>4, <3>8, <3>9, <3>10
  <2>3. CASE write_head(p)
    <3>1. /\ logd' = logd /\ head' = lh /\ tail' = 1 /\ pc'[p] = "install"
          /\ Logged(Len(lh) + 1)
      BY Zenon, <1>1, <2>3 DEF write_head, TypeOK, Goto, DataInv, At
    <3>2. 1 \in 1..(LOGSIZE + 1)
      BY LogSizeAssumption
    <3>3. Logged(Len(lh) + 1)'
      BY Zenon, <1>2, <1>8, <3>1 DEF Logged
    <3>4. 1 <= Len(lh)
      BY Zenon, <1>1, <2>3 DEF write_head, At, DataInv
    <3> QED BY Zenon, <1>1, <1>6, <3>1, <3>2, <3>3, <3>4 DEF TypeOK
  <2> QED BY Zenon, <2>1, <2>2, <2>3
<1>10. TypeOK'
  BY Zenon, <1>1, <1>2, <1>6, <1>9 DEF TypeOK
<1>11. pt = "install" => Installing'
  <2> SUFFICES ASSUME pt = "install" PROVE Installing'
    OBVIOUS
  <2>1. head' = lh' /\ tail' = 1 /\ dirty' = Listed(lh')
    BY Zenon, <1>2, <1>7, <1>9
  <2>2. Installed(tail)'
    BY SMTT(60), <2>1 DEF Installed
  <2>3. \A i \in 1..Len(lh') : i >= tail' /\ lh'[i] \in dirty'
    BY SMTT(60), <1>5, <2>1 DEF Listed
  <2> QED BY Zenon, <2>1, <2>2, <2>3 DEF Installing
<1>12. DataInv'
  <2>1. NoDup(lh') /\ NoDup(head') /\ CacheInv' /\ Len(head') <= LOGSIZE
    BY Zenon, <1>1, <1>2, <1>9 DEF DataInv, NoDup, CacheInv
  <2>2. (\A q \in Ops : pc'[q] \notin {"install", "clear"}) => head' = << >>
    BY Zenon, <1>6, <1>7, <1>9
  <2>3. \A q \in Ops :
          /\ pc'[q] = "write_log" => Logged(tail)' /\ tail' <= Len(lh')
          /\ pc'[q] = "write_head" => Logged(Len(lh) + 1)' /\ 1 <= Len(lh')
          /\ pc'[q] = "install" => Logged(Len(lh) + 1)' /\ Installing' /\ tail' <= Len(lh')
          /\ pc'[q] # "clear"
          /\ pc'[q] = "committed" => lh' = << >>
    BY Zenon, <1>2, <1>6, <1>9, <1>11 DEF CommitPlaces
  <2> QED BY Zenon, <1>2, <1>6, <1>7, <2>1, <2>2, <2>3 DEF DataInv, Listed
<1>13. Fits(LOGSIZE)'
  BY SMTT(60), <1>2, <1>6, <1>7, LogSizeAssumption
<1> QED BY Zenon, <1>6, <1>10, <1>12, <1>13 DEF LogInv

\* One block is installed, by commit() or by recovery.
LEMMA InstallOneFacts ==
  ASSUME TypeOK, DataInv, head = lh, tail \in 1..Len(lh), Installed(tail), InstallOne
  PROVE  /\ home' \in [Blocks -> Vals] /\ cache' \in [Blocks -> Vals \cup {NoVal}]
         /\ dirty' \in SUBSET Blocks /\ tail' \in 1..(LOGSIZE + 1)
         /\ lh[tail] \in Blocks
         /\ \A b \in Blocks : /\ home'[b] = IF b = lh[tail] THEN logd[tail] ELSE home[b]
                              /\ cache'[b] = IF b = lh[tail] THEN logd[tail] ELSE cache[b]
         /\ Installed(tail)' /\ CacheInv'
         /\ tail' = tail + 1
<1>1. /\ home' = [home EXCEPT ![lh[tail]] = logd[tail]]
      /\ cache' = [cache EXCEPT ![lh[tail]] = logd[tail]]
      /\ dirty' = dirty \ {lh[tail]}
      /\ tail' = tail + 1
      /\ UNCHANGED <<logd, head, lh>>
  BY Zenon DEF InstallOne
<1>2. /\ lh \in Seq(Blocks) /\ Len(lh) \in Nat /\ Len(lh) <= LOGSIZE /\ NoDup(lh)
      /\ lh[tail] \in Blocks /\ tail \in 1..LOGSIZE
  BY LogSizeAssumption DEF TypeOK, DataInv
<1>3. logd[tail] \in Vals /\ logd[tail] # NoVal
  BY SMTT(60), <1>2, NamesAssumption DEF TypeOK, NoVal
<1>4. /\ home' \in [Blocks -> Vals] /\ cache' \in [Blocks -> Vals \cup {NoVal}]
      /\ dirty' \in SUBSET Blocks
  BY Zenon, <1>1, <1>2, <1>3 DEF TypeOK
<1>5. tail' \in 1..(LOGSIZE + 1)
  BY SMTT(60), <1>1, <1>2, LogSizeAssumption
<1>6. \A b \in Blocks : /\ home'[b] = IF b = lh[tail] THEN logd[tail] ELSE home[b]
                        /\ cache'[b] = IF b = lh[tail] THEN logd[tail] ELSE cache[b]
  BY Zenon, <1>1, <1>2 DEF TypeOK
<1>7. Installed(tail)'
  <2>1. (tail + 1) - 1 = tail
    BY <1>2
  <2>2. \A j \in 1..tail : /\ lh[j] \in Blocks
                           /\ (j = tail /\ lh[j] = lh[tail]) \/ (j \in 1..(tail - 1) /\ lh[j] # lh[tail])
    BY SMTT(60), <1>2 DEF NoDup
  <2>3. \A j \in 1..tail : home'[lh[j]] = logd[j]
    BY Zenon, <1>6, <2>2 DEF Installed
  <2> QED BY Zenon, <1>1, <2>1, <2>3 DEF Installed
<1>8. CacheInv'
  BY Zenon, <1>1, <1>2, <1>3, <1>6 DEF DataInv, CacheInv, TypeOK
<1> QED BY Zenon, <1>1, <1>2, <1>4, <1>5, <1>6, <1>7, <1>8

\* A block copied home by install_trans() keeps the invariant.
LEMMA InstallStep ==
  ASSUME SizeFacts, LogInv, NEW p \in Ops, install_trans(p)
  PROVE  /\ LogInv' /\ Active = {} /\ Active' = {}
         /\ \A b \in Blocks : Contents(b)' = Contents(b)
<1>1. TypeOK /\ ControlInv /\ DataInv
  BY Zenon DEF LogInv
<1>2. /\ Up /\ pc[p] = "install"
      /\ InstallOne
      /\ dirty' = dirty \ {lh[tail]}
      /\ UNCHANGED <<logd, head, lh, outstanding, committing, wrote, buf, boot>>
  BY Zenon DEF install_trans, At, InstallOne
<1>3. PICK pt \in {"clear", "install"} : Goto(p, pt) /\ (pt = "clear" <=> tail = Len(lh))
  BY Zenon DEF install_trans
<1>4. /\ Logged(Len(lh) + 1) /\ Installing /\ tail <= Len(lh)
      /\ Len(lh) \in Nat /\ Len(lh) <= LOGSIZE /\ tail \in 1..Len(lh) /\ lh \in Seq(Blocks)
      /\ NoDup(lh)
  BY <1>1, <1>2 DEF DataInv, TypeOK
<1>5. pc[p] \in CommitPlaces /\ pt \in CommitPlaces /\ lh' \in Seq(Blocks)
  BY Zenon, <1>2, <1>4 DEF CommitPlaces
<1>6. /\ boot = "up" /\ committing /\ outstanding = 0
      /\ pc' \in [Ops -> Places]
      /\ \A q \in Ops : pc'[q] = IF q = p THEN pt ELSE pc[q]
      /\ \A q \in Ops : q # p => pc[q] \notin CommitPlaces
      /\ ControlInv' /\ WroteInv'
      /\ Active = {} /\ Active' = {}
      /\ \A bound \in Int : Len(lh') <= bound => Fits(bound)'
  BY Zenon, <1>2, <1>3, <1>5, CommitFrame
<1>7. /\ home' \in [Blocks -> Vals] /\ cache' \in [Blocks -> Vals \cup {NoVal}]
      /\ dirty' \in SUBSET Blocks /\ tail' \in 1..(LOGSIZE + 1)
      /\ lh[tail] \in Blocks
      /\ \A b \in Blocks : /\ home'[b] = IF b = lh[tail] THEN logd[tail] ELSE home[b]
                           /\ cache'[b] = IF b = lh[tail] THEN logd[tail] ELSE cache[b]
      /\ Installed(tail)' /\ CacheInv'
      /\ tail' = tail + 1
  BY Zenon, <1>1, <1>2, <1>4, InstallOneFacts DEF Installing
<1>8. TypeOK'
  BY Zenon, <1>1, <1>2, <1>6, <1>7 DEF TypeOK
<1>9. \A b \in Blocks : Contents(b)' = Contents(b)
  <2>1. tail \in 1..((Len(lh) + 1) - 1)
    BY SMTT(60), <1>4
  <2>2. logd[tail] = Contents(lh[tail]) /\ logd[tail] # NoVal
    <3>1. logd[tail] = Contents(lh[tail])
      BY Zenon, <1>4, <2>1 DEF Logged
    <3>2. Contents(lh[tail]) \in Vals
      BY Zenon, <1>1, <1>7 DEF TypeOK, Contents
    <3> QED BY Zenon, <3>1, <3>2, NamesAssumption DEF NoVal
  <2> QED BY Zenon, <1>7, <2>2 DEF Contents
<1>10. Logged(Len(lh) + 1)'
  <2>1. \A j \in 1..((Len(lh) + 1) - 1) : lh[j] \in Blocks
    BY SMTT(60), <1>4
  <2> QED BY Zenon, <1>2, <1>4, <1>9, <2>1 DEF Logged
<1>11. Installing'
  <2>1. \A i \in 1..Len(lh) : i >= tail + 1 <=> lh[i] \in dirty \ {lh[tail]}
    <3>1. \A i \in 1..Len(lh) : lh[i] = lh[tail] <=> i = tail
      BY <1>4 DEF NoDup
    <3>2. \A i \in 1..Len(lh) : i >= tail + 1 <=> i >= tail /\ i # tail
      BY <1>4
    <3> QED BY Zenon, <1>4, <3>1, <3>2 DEF Installing
  <2> QED BY SMTT(60), <1>2, <1>4, <1>7, <2>1 DEF Installing, Listed
<1>12. DataInv'
  <2>1. pt = "clear" => tail' = Len(lh') + 1
    BY ZenonT(60), <1>2, <1>3, <1>7
  <2>2. pt = "install" => tail' <= Len(lh')
    BY SMTT(60), <1>2, <1>3, <1>4, <1>7
  <2>3. \A q \in Ops : q # p => pc'[q] \notin CommitPlaces
    BY Zenon, <1>6
  <2>4. \A q \in Ops :
          /\ pc'[q] \notin {"write_log", "write_head", "committed"}
          /\ pc'[q] = "install" => Logged(Len(lh) + 1)' /\ Installing' /\ tail' <= Len(lh')
          /\ pc'[q] = "clear" => Installing' /\ tail' = Len(lh') + 1
    BY Zenon, <1>6, <1>10, <1>11, <2>1, <2>2, <2>3 DEF CommitPlaces
  <2>5. pc'[p] \in {"install", "clear"}
    BY Zenon, <1>6
  <2>6. NoDup(lh') /\ NoDup(head')
    BY Zenon, <1>1, <1>2 DEF DataInv, NoDup
  <2> QED BY Zenon, <1>1, <1>2, <1>6, <1>7, <2>4, <2>5, <2>6 DEF DataInv
<1>13. Fits(LOGSIZE)'
  BY SMTT(60), <1>2, <1>4, <1>6, LogSizeAssumption
<1> QED BY Zenon, <1>6, <1>8, <1>9, <1>12, <1>13 DEF LogInv

\* write_head() of the empty log keeps the invariant.
LEMMA ClearStep ==
  ASSUME SizeFacts, LogInv, NEW p \in Ops, clear(p)
  PROVE  LogInv' /\ Active = {} /\ Active' = {}
<1>1. TypeOK /\ ControlInv /\ DataInv
  BY Zenon DEF LogInv
<1>2. /\ Up /\ pc[p] = "clear" /\ Goto(p, "committed")
      /\ lh' = << >> /\ head' = << >> /\ tail' = 1
      /\ UNCHANGED <<home, logd, cache, dirty, outstanding, committing, wrote, buf, boot>>
  BY Zenon DEF clear, At, ClearHead
<1>3. pc[p] \in CommitPlaces /\ "committed" \in CommitPlaces /\ lh' \in Seq(Blocks)
  BY SMTT(60), <1>2 DEF CommitPlaces
<1>4. /\ boot = "up" /\ committing /\ outstanding = 0
      /\ pc' \in [Ops -> Places]
      /\ \A q \in Ops : pc'[q] = IF q = p THEN "committed" ELSE pc[q]
      /\ \A q \in Ops : q # p => pc[q] \notin CommitPlaces
      /\ ControlInv' /\ WroteInv'
      /\ Active = {} /\ Active' = {}
      /\ \A bound \in Int : Len(lh') <= bound => Fits(bound)'
  BY Zenon, <1>2, <1>3, CommitFrame
<1>5. dirty = {}
  <2>1. Installing /\ tail = Len(lh) + 1
    BY Zenon, <1>1, <1>2 DEF DataInv
  <2>2. \A i \in 1..Len(lh) : ~(i >= tail)
    BY <1>1, <2>1 DEF TypeOK
  <2>3. \A i \in 1..Len(lh) : lh[i] \notin dirty
    BY Zenon, <2>1, <2>2 DEF Installing
  <2> QED BY SMTT(60), <1>1, <2>1, <2>3 DEF Installing, Listed, TypeOK
<1>6. TypeOK'
  <2>1. 1 \in 1..(LOGSIZE + 1)
    BY SMTT(60), LogSizeAssumption
  <2> QED BY <1>1, <1>2, <1>4, <2>1 DEF TypeOK
<1>7. DataInv'
  <2>1. \A q \in Ops : pc'[q] \notin {"write_log", "write_head", "install", "clear"}
    BY Zenon, <1>4 DEF CommitPlaces
  <2> QED BY SMTT(60), <1>1, <1>2, <1>4, <1>5, <2>1, LogSizeAssumption DEF DataInv, NoDup, CacheInv, Listed
<1>8. Fits(LOGSIZE)'
  BY <1>2, <1>4, LogSizeAssumption
<1> QED BY Zenon, <1>4, <1>6, <1>7, <1>8 DEF LogInv

\* The last critical section of end_op(): everybody may start again.
LEMMA EndCommitStep ==
  ASSUME SizeFacts, LogInv, NEW p \in Ops, end_commit(p)
  PROVE  LogInv' /\ Active = {} /\ Active' = {}
<1>1. TypeOK /\ ControlInv /\ DataInv
  BY Zenon DEF LogInv
<1>2. /\ Up /\ pc[p] = "committed" /\ WakeupAnd(p, "idle") /\ committing' = FALSE
      /\ UNCHANGED <<home, logd, head, cache, dirty, lh, outstanding, tail, wrote, buf, boot>>
  BY Zenon DEF end_commit, At, diskVars
<1>3. /\ boot = "up" /\ Active = {} /\ lh = << >>
      /\ \A q \in Ops : q # p => ~InCommit(q)
  BY Zenon, <1>1, <1>2 DEF ControlInv, InCommit, DataInv, Up
<1>4. \A q \in Ops : \/ q = p /\ pc'[q] = "idle"
                     \/ q # p /\ (pc'[q] = pc[q] \/ (pc[q] = "asleep" /\ pc'[q] = "begin"))
  BY Zenon, <1>2 DEF WakeupAnd
<1>5. Active' = {}
  BY Zenon, <1>3, <1>4 DEF Active
<1>6. \A q \in Ops : ~InCommit(q)'
  BY Zenon, <1>3, <1>4 DEF InCommit
<1>7. TypeOK'
  <2>1. pc' \in [Ops -> Places]
    BY Zenon, <1>1, <1>2 DEF TypeOK, WakeupAnd, Places
  <2>2. committing' \in BOOLEAN
    BY ZenonT(60), <1>2
  <2> QED BY Zenon, <1>1, <1>2, <2>1, <2>2 DEF TypeOK
<1>8. ControlInv'
  <2>1. \A q \in Ops : pc'[q] = "write" => buf'[q] \in Blocks
    BY Zenon, <1>1, <1>2, <1>4 DEF ControlInv
  <2> QED BY Zenon, <1>1, <1>2, <1>3, <1>5, <1>6, <2>1 DEF ControlInv
<1>9. DataInv'
  <2>1. \A q \in Ops : pc'[q] \notin {"write_log", "write_head", "install", "clear", "committed"}
    BY Zenon, <1>6 DEF InCommit
  <2>2. \A q \in Ops : pc[q] \notin {"install", "clear"}
    BY Zenon, <1>2, <1>3 DEF InCommit
  <2> QED BY SMTT(60), <1>1, <1>2, <1>3, <2>1, <2>2 DEF DataInv, NoDup, CacheInv, Listed
<1>10. WroteInv' /\ Fits(LOGSIZE)'
  <2>1. Tokens' = {}
    BY Zenon, <1>5 DEF Tokens
  <2>2. Len(lh') + Cardinality(Tokens') <= LOGSIZE
    BY <1>2, <1>3, <2>1, LogSizeAssumption DEF SizeFacts, EmptySize
  <2> QED BY Zenon, <1>5, <2>2 DEF WroteInv, Fits
<1> QED BY Zenon, <1>3, <1>5, <1>7, <1>8, <1>9, <1>10 DEF LogInv

\* What the machine looks like while it recovers.
LEMMA BootFacts ==
  ASSUME SizeFacts, LogInv, boot # "up"
  PROVE  /\ \A p \in Ops : pc[p] = "idle"
         /\ Active = {} /\ Tokens = {} /\ dirty = {} /\ outstanding = 0 /\ ~committing
<1>1. ControlInv /\ DataInv
  BY Zenon DEF LogInv
<1>2. \A p \in Ops : pc[p] = "idle"
  BY Zenon, <1>1 DEF ControlInv
<1>3. Active = {}
  BY Zenon, <1>2 DEF Active
<1>4. Tokens = {}
  BY Zenon, <1>3 DEF Tokens
<1> QED BY Zenon, <1>1, <1>2, <1>3, <1>4 DEF SizeFacts, EmptySize, ControlInv, DataInv, InCommit

\* Recovery touches neither the processes nor the counters.
LEMMA BootFrame ==
  ASSUME SizeFacts, LogInv, boot # "up", UNCHANGED <<pc, outstanding, committing, wrote, buf>>,
         lh' \in Seq(Blocks), Len(lh') <= LOGSIZE
  PROVE  /\ Active' = {} /\ ControlInv' /\ WroteInv' /\ Fits(LOGSIZE)'
         /\ \A p \in Ops : pc'[p] = "idle"
<1>1. /\ \A p \in Ops : pc[p] = "idle"
      /\ Active = {} /\ outstanding = 0 /\ ~committing
  BY Zenon, BootFacts
<1>2. Active' = {}
  BY Zenon, <1>1 DEF Active
<1>3. Tokens' = {}
  BY Zenon, <1>2 DEF Tokens
<1>4. ControlInv'
  BY Zenon, <1>1, <1>2 DEF SizeFacts, EmptySize, ControlInv, InCommit
<1>5. Len(lh') + Cardinality(Tokens') <= LOGSIZE
  BY <1>3, LogSizeAssumption DEF SizeFacts, EmptySize
<1> QED BY Zenon, <1>1, <1>2, <1>4, <1>5 DEF WroteInv, Fits

\* recover_from_log() at boot keeps the invariant.
LEMMA RecoverStep ==
  ASSUME SizeFacts, LogInv, read_head \/ recover_install \/ recover_clear
  PROVE  LogInv' /\ boot # "up" /\ Active = {} /\ Active' = {}
<1>1. TypeOK /\ ControlInv /\ DataInv
  BY Zenon DEF LogInv
<1>2. boot # "up" /\ UNCHANGED <<pc, outstanding, committing, wrote, buf>>
  BY Zenon DEF read_head, recover_install, recover_clear, InstallOne, ClearHead
<1>3. /\ \A p \in Ops : pc[p] = "idle"
      /\ Active = {} /\ dirty = {}
  BY Zenon, <1>2, BootFacts
<1>4. 1 \in 1..(LOGSIZE + 1)
  BY LogSizeAssumption
<1>5. CASE read_head
  <2>1. /\ lh' = head /\ tail' = 1 /\ UNCHANGED <<home, logd, head, cache, dirty>>
        /\ boot' = IF head = << >> THEN "clear" ELSE "install"
    BY Zenon, <1>5 DEF read_head, diskVars
  <2>2. lh' \in Seq(Blocks) /\ Len(lh') <= LOGSIZE
    BY Zenon, <1>1, <2>1 DEF TypeOK, DataInv
  <2>3. /\ Active' = {} /\ ControlInv' /\ WroteInv' /\ Fits(LOGSIZE)'
        /\ \A p \in Ops : pc'[p] = "idle"
    BY Zenon, <1>2, <2>2, BootFrame
  <2>4. TypeOK'
    BY Zenon, <1>1, <1>2, <1>4, <2>1, <2>2 DEF TypeOK
  <2>5. Installed(1)' /\ (head = << >> => Installed(Len(lh) + 1)')
    BY SMTT(60), <2>1 DEF Installed
  <2>6. boot' = "install" => tail' <= Len(lh')
    BY SMTT(60), <1>1, <2>1 DEF TypeOK
  <2>7. boot' = "install" => Installed(tail)'
    BY SMTT(60), <2>1 DEF Installed
  <2>8. CacheInv' /\ NoDup(lh') /\ NoDup(head')
    BY Zenon, <1>1, <2>1 DEF DataInv, CacheInv, NoDup
  <2>9. DataInv'
    BY Zenon, <1>1, <1>3, <2>1, <2>2, <2>3, <2>5, <2>6, <2>7, <2>8 DEF DataInv
  <2> QED BY Zenon, <1>2, <1>3, <2>3, <2>4, <2>9 DEF LogInv
<1>6. CASE recover_install
  <2>1. /\ InstallOne /\ boot = "install" /\ UNCHANGED <<logd, head, lh>>
        /\ boot' = IF tail = Len(lh) THEN "clear" ELSE "install"
        /\ dirty' = dirty \ {lh[tail]}
    BY Zenon, <1>6 DEF recover_install, InstallOne
  <2>2. /\ head = lh /\ Installed(tail) /\ tail <= Len(lh) /\ lh \in Seq(Blocks)
        /\ Len(lh) \in Nat /\ tail \in 1..Len(lh) /\ Len(lh) <= LOGSIZE
    BY SMTT(60), <1>1, <2>1 DEF DataInv, TypeOK
  <2>3. /\ home' \in [Blocks -> Vals] /\ cache' \in [Blocks -> Vals \cup {NoVal}]
        /\ dirty' \in SUBSET Blocks /\ tail' \in 1..(LOGSIZE + 1)
        /\ Installed(tail)' /\ CacheInv'
        /\ tail' = tail + 1
    BY Zenon, <1>1, <2>1, <2>2, InstallOneFacts
  <2>4. /\ Active' = {} /\ ControlInv' /\ WroteInv' /\ Fits(LOGSIZE)'
        /\ \A p \in Ops : pc'[p] = "idle"
    BY Zenon, <1>2, <2>1, <2>2, BootFrame
  <2>5. TypeOK'
    BY Zenon, <1>1, <1>2, <2>1, <2>3 DEF TypeOK
  <2>6. boot' = "clear" => Installed(Len(lh) + 1)'
    BY Zenon, <2>1, <2>3 DEF Installed
  <2>7. boot' = "install" => tail' <= Len(lh')
    BY SMTT(60), <2>1, <2>2, <2>3
  <2>8. NoDup(lh') /\ NoDup(head')
    BY Zenon, <1>1, <2>1 DEF DataInv, NoDup
  <2>9. DataInv'
    BY Zenon, <1>1, <1>3, <2>1, <2>2, <2>3, <2>4, <2>6, <2>7, <2>8 DEF DataInv
  <2> QED BY Zenon, <1>2, <1>3, <2>4, <2>5, <2>9 DEF LogInv
<1>7. CASE recover_clear
  <2>1. /\ lh' = << >> /\ head' = << >> /\ tail' = 1 /\ boot' = "up"
        /\ UNCHANGED <<home, logd, cache, dirty>>
    BY Zenon, <1>7 DEF recover_clear, ClearHead
  <2>2. lh' \in Seq(Blocks) /\ Len(lh') <= LOGSIZE
    BY SMTT(60), <2>1, LogSizeAssumption
  <2>3. /\ Active' = {} /\ ControlInv' /\ WroteInv' /\ Fits(LOGSIZE)'
        /\ \A p \in Ops : pc'[p] = "idle"
    BY Zenon, <1>2, <2>2, BootFrame
  <2>4. TypeOK'
    BY Zenon, <1>1, <1>2, <1>4, <2>1, <2>2 DEF TypeOK
  <2>5. CacheInv' /\ NoDup(lh') /\ NoDup(head') /\ Listed(lh') = {}
    BY SMTT(60), <1>1, <2>1 DEF DataInv, CacheInv, NoDup, Listed
  <2>6. DataInv'
    BY Zenon, <1>1, <1>3, <2>1, <2>2, <2>3, <2>5 DEF DataInv
  <2> QED BY Zenon, <1>2, <1>3, <2>3, <2>4, <2>6 DEF LogInv
<1> QED BY Zenon, <1>5, <1>6, <1>7

\* The buffer cache loads and drops clean copies.
LEMMA CacheStep ==
  ASSUME SizeFacts, LogInv, NEW b \in Blocks, bread(b) \/ recycle(b)
  PROVE  LogInv' /\ (\A c \in Blocks : Contents(c)' = Contents(c))
<1>1. TypeOK /\ ControlInv /\ DataInv /\ WroteInv /\ Fits(LOGSIZE)
  BY Zenon DEF LogInv
<1>2. /\ UNCHANGED <<home, logd, head, dirty, lh, outstanding, committing, pc, tail, wrote,
                     buf, boot>>
      /\ b \notin dirty
  BY ZenonT(60), <1>1 DEF bread, recycle, diskVars, DataInv, CacheInv
<1>3. PICK v \in {NoVal, home[b]} : cache' = [cache EXCEPT ![b] = v]
  BY Zenon DEF bread, recycle
<1>4. \A c \in Blocks : cache'[c] = IF c = b THEN v ELSE cache[c]
  BY Zenon, <1>1, <1>3 DEF TypeOK
<1>5. \A c \in Blocks : Contents(c)' = Contents(c)
  BY Zenon, <1>1, <1>2, <1>4 DEF Contents, DataInv, CacheInv
<1>6. TypeOK'
  <2>1. cache' \in [Blocks -> Vals \cup {NoVal}]
    BY Zenon, <1>1, <1>3 DEF TypeOK
  <2> QED BY Zenon, <1>1, <1>2, <2>1 DEF TypeOK
<1>7. ControlInv' /\ WroteInv'
  BY ZenonT(60), <1>1, <1>2 DEF ControlInv, WroteInv, InCommit, Active
<1>8. Fits(LOGSIZE)'
  BY Zenon, <1>1, <1>2 DEF Fits, Tokens, Active
<1>9. CacheInv'
  <2>1. dirty \subseteq Blocks
    BY Zenon, <1>1 DEF TypeOK
  <2> QED BY Zenon, <1>1, <1>2, <1>4, <2>1 DEF DataInv, CacheInv
<1>10. \A j \in 1..Len(lh) : lh[j] \in Blocks
  BY SMTT(60), <1>1 DEF TypeOK
<1>11. \A i \in Nat : i <= Len(lh) + 1 /\ Logged(i) => Logged(i)'
  <2>1. \A i \in Nat : i <= Len(lh) + 1 => \A j \in 1..(i - 1) : j \in 1..Len(lh)
    BY SMTT(60), <1>1 DEF TypeOK
  <2> QED BY Zenon, <1>2, <1>5, <1>10, <2>1 DEF Logged
<1>12. \A q \in Ops :
         /\ pc[q] = "write_log" => Logged(tail)'
         /\ pc[q] \in {"write_head", "install"} => Logged(Len(lh) + 1)'
  <2>1. tail \in Nat /\ Len(lh) \in Nat /\ Len(lh) + 1 \in Nat
    BY SMTT(60), <1>1 DEF TypeOK
  <2>2. Logged(tail) /\ tail <= Len(lh) => Logged(tail)'
    BY SMTT(60), <1>2, <1>11, <2>1 DEF Logged
  <2>3. Logged(Len(lh) + 1) => Logged(Len(lh) + 1)'
    BY SMTT(60), <1>2, <1>11, <2>1 DEF Logged
  <2> QED BY Zenon, <1>1, <2>2, <2>3 DEF DataInv
<1>13. DataInv'
  BY SMTT(60), <1>1, <1>2, <1>9, <1>12 DEF DataInv, NoDup, Listed, Installed, Installing
<1> QED BY Zenon, <1>5, <1>6, <1>7, <1>8, <1>13 DEF LogInv

\* Every step keeps the inductive invariant.
LEMMA LogInvStep == ASSUME SizeFacts PROVE LogInv /\ [Next]_vars => LogInv'
<1> SUFFICES ASSUME LogInv, [Next]_vars PROVE LogInv'
  OBVIOUS
<1>1. CASE UNCHANGED vars
  <2>1. UNCHANGED <<home, logd, head, cache, dirty, lh, outstanding, committing, pc, tail,
                    wrote, buf, boot>>
    BY Zenon, <1>1 DEF vars, diskVars, memVars
  <2>2. TypeOK' /\ ControlInv' /\ WroteInv' /\ Fits(LOGSIZE)'
    BY ZenonT(60), <2>1 DEF LogInv, TypeOK, ControlInv, WroteInv, Fits, Tokens, Active, InCommit
  <2>3. DataInv'
    BY SMTT(60), <2>1 DEF LogInv, DataInv, NoDup, CacheInv, Listed, Logged, Installed, Installing, Contents
  <2> QED BY Zenon, <2>2, <2>3 DEF LogInv
<1>2. ASSUME NEW p \in Ops, call(p) \/ Step(p) PROVE LogInv'
  BY Zenon, <1>2, CallStep, BeginStep, EndStep, WriteLogStep, InstallStep, ClearStep, EndCommitStep
     DEF Step
<1>3. ASSUME NEW p \in Ops, NEW b \in Blocks, log_write_check(p, b) PROVE LogInv'
  BY Zenon, <1>3, CheckStep
<1>4. ASSUME NEW p \in Ops, NEW v \in Vals, log_write(p, v) PROVE LogInv'
  BY Zenon, <1>4, LogWriteStep
<1> QED BY Zenon, <1>1, <1>2, <1>3, <1>4, RecoverStep, CacheStep, CrashStep DEF Next

=============================================================================
