----------------------------- MODULE BioProofs -----------------------------
(***************************************************************************)
(* Invariance and refinement proofs for Bio, for any number of processes,  *)
(* buffers and blocks.                                                     *)
(***************************************************************************)
EXTENDS Bio, TLAPS, WellFoundedInduction, FiniteSetTheorems

\* Where a process has a buffer in its hands, and when it has the lock of that buffer.
HandInv ==
  \A p \in Procs :
    /\ buf[p] = NoBuf <=> pc[p] \in {"user", "panic"}
    /\ pc[p] \in {"acquiresleep", "brelse"} => locked[buf[p]] # p
    /\ pc[p] = "sleep_lock" => locked[buf[p]] \notin {NoProc, p}
    /\ pc[p] \in {"iderw", "sleep_disk"} =>
         locked[buf[p]] = p /\ (buf[p] \in dirty \/ buf[p] \notin valid)

QueueInv ==
  /\ IsInjective(idequeue)
  /\ \A b \in Bufs : b \in Range(idequeue) <=> \E p \in Procs : pc[p] = "sleep_disk" /\ buf[p] = b

(* A buffer that is in use or has data has a block, and no other buffer    *)
(* has it.  Whoever has locked a buffer and gone on finds data in it.      *)
BlockInv ==
  /\ \A b \in Bufs : refcnt[b] = Cardinality(Users(b))
  /\ \A a, b \in Bufs : blockno[a] = blockno[b] /\ blockno[a] # NoBlock => a = b
  /\ \A b \in Bufs : b \in valid \/ Users(b) # {} => blockno[b] # NoBlock
  /\ dirty \subseteq valid
  /\ \A b \in Bufs, p \in Procs : locked[b] = p /\ buf[p] # b => b \in valid

\* A buffer without B_DIRTY holds what the disk holds.
DataInv == \A b \in valid \ dirty : data[b] = disk[blockno[b]]

BioInv == TypeOK /\ HandInv /\ QueueInv /\ BlockInv /\ DataInv

-----------------------------------------------------------------------------
\* Every non-empty set of naturals has a least element.
LEMMA NatMin ==
  ASSUME NEW T \in SUBSET Nat, T # {}
  PROVE  \E x \in T : \A y \in T : x <= y
<1> DEFINE R == OpToRel(<, Nat)
<1>1. IsWellFoundedOn(R, Nat)
  BY Zenon, NatLessThanWellFounded
<1>2. \A x, y \in Nat : x < y => <<x, y>> \in R
  BY Zenon DEF OpToRel
<1> HIDE DEF R
<1>3. PICK x \in T : \A y \in T : ~ (<<y, x>> \in R)
  BY Zenon, <1>1, WFMin
<1>4. ASSUME NEW y \in T PROVE x <= y
  <2>1. x \in Nat /\ y \in Nat
    OBVIOUS
  <2>2. ~ (y < x)
    BY Zenon, <1>2, <1>3, <2>1
  <2> QED BY <2>1, <2>2
<1> QED BY Zenon, <1>4

\* bget() finds a buffer at the end of the list whenever one is free.
LEMMA LeastRecentlyUsed ==
  ASSUME TypeOK, Free # {}
  PROVE  lru[CHOOSE i \in DOMAIN lru :
               lru[i] \in Free /\ \A j \in DOMAIN lru : lru[j] \in Free => j <= i] \in Free
<1> DEFINE D == {i \in DOMAIN lru : lru[i] \in Free}
           T == {n \in 0..Len(lru) : \E i \in D : n = Len(lru) - i}
<1>1. lru \in Seq(Bufs) /\ Range(lru) = Bufs /\ Len(lru) \in Nat /\ DOMAIN lru = 1..Len(lru)
  BY DEF TypeOK
<1>2. D # {}
  BY Zenon, <1>1 DEF Range, Free
<1>3. T \in SUBSET Nat /\ T # {}
  BY <1>1, <1>2
<1>4. PICK n \in T : \A m \in T : n <= m
  BY Zenon, <1>3, NatMin
<1>5. PICK i \in D : n = Len(lru) - i
  OBVIOUS
<1>6. ASSUME NEW j \in D PROVE j <= i
  <2>1. Len(lru) - j \in T
    BY <1>1
  <2>2. Len(lru) - i <= Len(lru) - j
    BY Zenon, <1>4, <1>5, <2>1
  <2> QED BY <1>1, <2>2
<1>7. i \in DOMAIN lru /\ lru[i] \in Free /\ \A j \in DOMAIN lru : lru[j] \in Free => j <= i
  BY Zenon, <1>6
<1> HIDE DEF D, T
<1> QED BY Zenon, <1>7

\* Moving a buffer to the front keeps all buffers in the list.
LEMMA FrontKeepsAll ==
  ASSUME TypeOK, NEW b \in Bufs
  PROVE  /\ MoveToFront(b) \in Seq(Bufs) /\ Range(MoveToFront(b)) = Bufs
         /\ Len(MoveToFront(b)) = Len(lru)
<1> DEFINE i == CHOOSE j \in DOMAIN lru : lru[j] = b
           n == Len(lru)
           s == MoveToFront(b)
<1>1. lru \in Seq(Bufs) /\ Range(lru) = Bufs /\ n \in Nat /\ DOMAIN lru = 1..n
  BY DEF TypeOK
<1>2. i \in 1..n /\ lru[i] = b
  <2>1. \E j \in DOMAIN lru : lru[j] = b
    BY Zenon, <1>1 DEF Range
  <2> QED BY Zenon, <1>1, <2>1
<1>3. s = [j \in 1..n |-> IF j = 1 THEN b ELSE IF j <= i THEN lru[j - 1] ELSE lru[j]]
  BY Zenon, <1>1 DEF MoveToFront
<1> HIDE DEF i, s
<1>4. s \in Seq(Bufs) /\ Len(s) = n /\ DOMAIN s = 1..n
  <2>1. \A j \in 1..n : (j = 1 \/ lru[j - 1] \in Bufs) /\ lru[j] \in Bufs
    BY <1>1
  <2>2. s \in [1..n -> Bufs]
    BY Zenon, <1>3, <2>1
  <2> QED BY <1>1, <2>2
<1>5. /\ s[1] = b
      /\ \A j \in 1..(i - 1) : s[j + 1] = lru[j]
      /\ \A j \in (i + 1)..n : s[j] = lru[j]
  BY <1>1, <1>2, <1>3
<1>6. ASSUME NEW c \in Bufs PROVE c \in Range(s)
  <2>1. PICK j \in 1..n : lru[j] = c
    BY Zenon, <1>1 DEF Range
  <2>2. \E m \in 1..n : s[m] = c
    <3>1. CASE j = i
      BY <1>1, <1>2, <1>5, <2>1, <3>1
    <3>2. CASE j < i
      BY <1>1, <1>2, <1>5, <2>1, <3>2
    <3>3. CASE j > i
      BY <1>1, <1>2, <1>5, <2>1, <3>3
    <3> QED BY <1>1, <1>2, <3>1, <3>2, <3>3
  <2> QED BY Zenon, <1>4, <2>2 DEF Range
<1>7. Range(s) \subseteq Bufs
  BY <1>4 DEF Range
<1> QED BY Zenon, <1>4, <1>6, <1>7 DEF s

\* The users of a buffer can be counted.
LEMMA UsersFinite ==
  ASSUME NEW b
  PROVE  /\ IsFiniteSet(Users(b)) /\ Cardinality(Users(b)) \in Nat
         /\ Cardinality(Users(b)) = 0 <=> Users(b) = {}
<1>1. IsFiniteSet(Users(b))
  BY Zenon, FiniteAssumption, FS_Subset DEF Users
<1> QED BY Zenon, <1>1, FS_CardinalityType, FS_EmptySet

\* What a process works with: nothing in user code, otherwise one buffer.
LEMMA HandFacts ==
  ASSUME TypeOK, HandInv, NEW p \in Procs
  PROVE  /\ NoProc \notin Procs /\ NoBuf \notin Bufs /\ NoBlock \notin Blocks
         /\ pc[p] \in {"user", "panic"} => buf[p] = NoBuf
         /\ pc[p] \notin {"user", "panic"} => buf[p] \in Bufs
BY NamesAssumption, SizesAssumption DEF TypeOK, HandInv, NoProc, NoBuf, NoBlock, Blocks

\* One process goes on to another place, with another buffer.
LEMMA Moves ==
  ASSUME TypeOK, NEW p \in Procs, NEW place \in Places, NEW c \in Bufs \cup {NoBuf},
         Goto(p, place), Work(p, c)
  PROVE  /\ pc' \in [Procs -> Places] /\ buf' \in [Procs -> Bufs \cup {NoBuf}]
         /\ pc'[p] = place /\ buf'[p] = c
         /\ \A q \in Procs : q # p => pc'[q] = pc[q] /\ buf'[q] = buf[q]
BY Zenon DEF TypeOK, Goto, Work

\* The disk queue is right as long as nobody starts or ends to wait for the disk.
LEMMA QueueFrame ==
  ASSUME QueueInv, idequeue' = idequeue,
         \A q \in Procs, b \in Bufs :
           (pc'[q] = "sleep_disk" /\ buf'[q] = b) <=> (pc[q] = "sleep_disk" /\ buf[q] = b)
  PROVE  QueueInv'
<1>1. IsInjective(idequeue') /\ Range(idequeue') = Range(idequeue)
  BY Zenon DEF QueueInv
<1>2. \A b \in Bufs : (\E q \in Procs : pc'[q] = "sleep_disk" /\ buf'[q] = b)
                         <=> (\E q \in Procs : pc[q] = "sleep_disk" /\ buf[q] = b)
  BY Zenon
<1> QED BY Zenon, <1>1, <1>2 DEF QueueInv

\* bget() finds the block in the cache: one more process waits for its buffer.
LEMMA HitStep ==
  ASSUME BioInv, NEW p \in Procs, NEW k \in Blocks, bget(p, k), bget_hit(p, k)
  PROVE  BioInv'
<1>1. PICK b \in Cached(k) : /\ refcnt' = [refcnt EXCEPT ![b] = @ + 1]
                             /\ Work(p, b) /\ Goto(p, "acquiresleep")
                             /\ UNCHANGED <<flagVars, blockno, lru>>
  BY Zenon DEF bget_hit
<1>2. TypeOK /\ HandInv /\ QueueInv /\ BlockInv /\ DataInv
  BY Zenon DEF BioInv
<1>3. /\ b \in Bufs /\ blockno[b] = k /\ pc[p] = "user" /\ (\A c \in Held(p) : blockno[c] < k)
      /\ UNCHANGED <<data, locked, idequeue, disk, valid, dirty, blockno, lru>>
  BY Zenon, <1>1 DEF bget, Cached, flagVars
<1>4. buf[p] = NoBuf /\ NoBuf \notin Bufs /\ k # NoBlock
  BY Zenon, <1>2, <1>3, HandFacts
<1>5. locked[b] # p
  <2>1. ~ (k < k)
    BY DEF Blocks
  <2> QED BY Zenon, <1>3, <2>1 DEF Held
<1>6. /\ pc' \in [Procs -> Places] /\ buf' \in [Procs -> Bufs \cup {NoBuf}]
      /\ pc'[p] = "acquiresleep" /\ buf'[p] = b
      /\ \A q \in Procs : q # p => pc'[q] = pc[q] /\ buf'[q] = buf[q]
  BY Zenon, <1>1, <1>2, <1>3, Moves DEF Places
<1>7. /\ refcnt' \in [Bufs -> Nat] /\ refcnt'[b] = refcnt[b] + 1
      /\ \A c \in Bufs : c # b => refcnt'[c] = refcnt[c]
  BY <1>1, <1>2, <1>3 DEF TypeOK
<1>8. TypeOK'
  BY Zenon, <1>2, <1>3, <1>6, <1>7 DEF TypeOK
<1>9. HandInv'
  BY <1>2, <1>3, <1>4, <1>5, <1>6 DEF HandInv
<1>10. QueueInv'
  BY Zenon, <1>2, <1>3, <1>4, <1>6, QueueFrame
<1>11. BlockInv'
  <2>1. Users(b)' = Users(b) \cup {p} /\ p \notin Users(b)
    BY Zenon, <1>3, <1>4, <1>5, <1>6 DEF Users
  <2>2. \A c \in Bufs : c # b => Users(c)' = Users(c)
    BY Zenon, <1>3, <1>4, <1>6 DEF Users
  <2>3. refcnt'[b] = Cardinality(Users(b)')
    <3>1. refcnt[b] = Cardinality(Users(b))
      BY Zenon, <1>2, <1>3 DEF BlockInv
    <3>2. Cardinality(Users(b) \cup {p}) = Cardinality(Users(b)) + 1
      BY Zenon, <2>1, UsersFinite, FS_AddElement
    <3> QED BY Zenon, <1>7, <2>1, <3>1, <3>2
  <2>4. \A c \in Bufs : refcnt'[c] = Cardinality(Users(c)')
    BY Zenon, <1>2, <1>7, <2>2, <2>3 DEF BlockInv
  <2>5. \A c \in Bufs : c \in valid \/ Users(c)' # {} => blockno[c] # NoBlock
    BY Zenon, <1>2, <1>3, <1>4, <2>2 DEF BlockInv
  <2>6. \A c \in Bufs, q \in Procs : locked[c] = q /\ buf'[q] # c => c \in valid
    BY Zenon, <1>2, <1>4, <1>6 DEF BlockInv
  <2>7. /\ \A a, c \in Bufs : blockno[a] = blockno[c] /\ blockno[a] # NoBlock => a = c
        /\ dirty \subseteq valid
    BY Zenon, <1>2 DEF BlockInv
  <2> QED BY Zenon, <1>3, <2>4, <2>5, <2>6, <2>7 DEF BlockInv
<1>12. DataInv'
  BY Zenon, <1>2, <1>3 DEF DataInv
<1> QED BY Zenon, <1>8, <1>9, <1>10, <1>11, <1>12 DEF BioInv

(* bget() gives the block a buffer that nobody uses and that holds nothing *)
(* that the disk does not hold.                                            *)
LEMMA RecycleStep ==
  ASSUME BioInv, NEW p \in Procs, NEW k \in Blocks, bget(p, k), bget_recycle(p, k)
  PROVE  BioInv'
<1>1. PICK b \in Free : /\ blockno' = [blockno EXCEPT ![b] = k]
                        /\ refcnt' = [refcnt EXCEPT ![b] = 1]
                        /\ valid' = valid \ {b} /\ dirty' = dirty \ {b}
                        /\ Work(p, b)
  <2>1. TypeOK /\ Free # {}
    BY Zenon DEF bget_recycle, BioInv
  <2> QED BY Zenon, <2>1, LeastRecentlyUsed DEF bget_recycle
<1>2. TypeOK /\ HandInv /\ QueueInv /\ BlockInv /\ DataInv
  BY Zenon DEF BioInv
<1>3. /\ b \in Bufs /\ refcnt[b] = 0 /\ b \notin dirty /\ pc[p] = "user" /\ Cached(k) = {}
      /\ Goto(p, "acquiresleep") /\ UNCHANGED <<data, locked, idequeue, disk, lru>>
  BY Zenon, <1>1 DEF bget, bget_recycle, Free
<1>4. /\ buf[p] = NoBuf /\ NoBuf \notin Bufs /\ k # NoBlock /\ NoProc \notin Procs
  BY Zenon, <1>2, <1>3, HandFacts
<1>5. Users(b) = {}
  BY Zenon, <1>2, <1>3, UsersFinite DEF BlockInv
<1>6. /\ locked[b] = NoProc /\ \A q \in Procs : locked[b] # q /\ buf[q] # b
  BY Zenon, <1>2, <1>3, <1>4, <1>5 DEF Users, TypeOK
<1>7. /\ pc' \in [Procs -> Places] /\ buf' \in [Procs -> Bufs \cup {NoBuf}]
      /\ pc'[p] = "acquiresleep" /\ buf'[p] = b
      /\ \A q \in Procs : q # p => pc'[q] = pc[q] /\ buf'[q] = buf[q]
  BY Zenon, <1>1, <1>2, <1>3, Moves DEF Places
<1>8. /\ refcnt' \in [Bufs -> Nat] /\ refcnt'[b] = 1
      /\ blockno' \in [Bufs -> Blocks \cup {NoBlock}] /\ blockno'[b] = k
      /\ \A c \in Bufs : c # b => refcnt'[c] = refcnt[c] /\ blockno'[c] = blockno[c]
  BY Zenon, <1>1, <1>2, <1>3 DEF TypeOK
<1>9. TypeOK'
  BY Zenon, <1>1, <1>2, <1>3, <1>7, <1>8 DEF TypeOK
<1>10. HandInv'
  BY <1>1, <1>2, <1>3, <1>4, <1>6, <1>7 DEF HandInv
<1>11. QueueInv'
  BY Zenon, <1>2, <1>3, <1>4, <1>7, QueueFrame
<1>12. BlockInv'
  <2>1. Users(b)' = {p}
    BY <1>3, <1>6, <1>7 DEF Users
  <2>2. \A c \in Bufs : c # b => Users(c)' = Users(c)
    BY Zenon, <1>3, <1>4, <1>7 DEF Users
  <2>3. refcnt'[b] = Cardinality(Users(b)')
    BY Zenon, <1>8, <2>1, FS_Singleton
  <2>4. \A c \in Bufs : refcnt'[c] = Cardinality(Users(c)')
    BY Zenon, <1>2, <1>8, <2>2, <2>3 DEF BlockInv
  <2>5. \A c \in Bufs : c \in valid' \/ Users(c)' # {} => blockno'[c] # NoBlock
    BY Zenon, <1>1, <1>2, <1>4, <1>8, <2>2 DEF BlockInv
  <2>6. \A c \in Bufs, q \in Procs : locked[c] = q /\ buf'[q] # c => c \in valid'
    BY <1>1, <1>2, <1>4, <1>6, <1>7 DEF BlockInv
  <2>7. \A a, c \in Bufs : blockno'[a] = blockno'[c] /\ blockno'[a] # NoBlock => a = c
    BY <1>2, <1>3, <1>8 DEF BlockInv, Cached
  <2>8. dirty' \subseteq valid'
    BY Zenon, <1>1, <1>2 DEF BlockInv
  <2> QED BY Zenon, <1>3, <2>4, <2>5, <2>6, <2>7, <2>8 DEF BlockInv
<1>13. DataInv'
  BY Zenon, <1>1, <1>2, <1>3, <1>8 DEF DataInv, TypeOK
<1> QED BY Zenon, <1>9, <1>10, <1>11, <1>12, <1>13 DEF BioInv

\* bget() finds no buffer and panics.
LEMMA PanicStep ==
  ASSUME BioInv, NEW p \in Procs, pc[p] = "user", Goto(p, "panic"),
         UNCHANGED <<data, flagVars, cacheVars, locked, idequeue, disk, buf>>
  PROVE  BioInv'
<1>1. UNCHANGED <<data, valid, dirty, blockno, refcnt, lru, locked, idequeue, disk, buf>>
  BY Zenon DEF flagVars, cacheVars
<1>2. TypeOK /\ HandInv /\ QueueInv /\ BlockInv /\ DataInv
  BY Zenon DEF BioInv
<1>3. /\ pc' \in [Procs -> Places] /\ pc'[p] = "panic"
      /\ \A q \in Procs : q # p => pc'[q] = pc[q]
  BY Zenon, <1>2 DEF TypeOK, Goto, Places
<1>4. TypeOK'
  BY Zenon, <1>1, <1>2, <1>3 DEF TypeOK
<1>5. HandInv'
  BY Zenon, <1>1, <1>2, <1>3 DEF HandInv
<1>6. QueueInv'
  BY Zenon, <1>1, <1>2, <1>3, QueueFrame
<1>7. BlockInv' /\ DataInv'
  BY <1>1, <1>2 DEF BlockInv, DataInv, Users
<1> QED BY Zenon, <1>4, <1>5, <1>6, <1>7 DEF BioInv

\* acquiresleep() goes to sleep only on a lock that another process has, or takes the lock.
LEMMA AcquireStep ==
  ASSUME BioInv, NEW p \in Procs, acquiresleep(p)
  PROVE  BioInv'
<1>1. TypeOK /\ HandInv /\ QueueInv /\ BlockInv /\ DataInv
  BY Zenon DEF BioInv
<1>2. pc[p] = "acquiresleep" /\ UNCHANGED <<data, valid, dirty, blockno, refcnt, lru, idequeue, disk>>
  BY Zenon DEF acquiresleep, flagVars, cacheVars
<1>3. /\ NoBuf \notin Bufs /\ NoProc \notin Procs /\ buf[p] \in Bufs /\ buf[p] # NoBuf
  BY Zenon, <1>1, <1>2, HandFacts
<1>4. PICK b \in Bufs : b = buf[p]
  BY Zenon, <1>3
<1>5. locked[b] # p
  BY Zenon, <1>1, <1>2, <1>4 DEF HandInv
<1>6. CASE locked[b] # NoProc
  <2>1. Goto(p, "sleep_lock") /\ UNCHANGED <<locked, buf>>
    BY Zenon, <1>4, <1>6 DEF acquiresleep
  <2>2. /\ pc' \in [Procs -> Places] /\ pc'[p] = "sleep_lock"
        /\ \A q \in Procs : q # p => pc'[q] = pc[q]
    BY Zenon, <1>1, <2>1 DEF TypeOK, Goto, Places
  <2>3. TypeOK'
    BY Zenon, <1>1, <1>2, <2>1, <2>2 DEF TypeOK
  <2>4. HandInv'
    BY Zenon, <1>1, <1>2, <1>3, <1>4, <1>5, <1>6, <2>1, <2>2 DEF HandInv
  <2>5. QueueInv'
    BY Zenon, <1>1, <1>2, <2>1, <2>2, QueueFrame
  <2>6. BlockInv' /\ DataInv'
    BY <1>1, <1>2, <2>1 DEF BlockInv, DataInv, Users
  <2> QED BY Zenon, <2>3, <2>4, <2>5, <2>6 DEF BioInv
<1>7. CASE locked[b] = NoProc
  <2> DEFINE place == IF b \in valid THEN "user" ELSE "iderw"
             c == IF b \in valid THEN NoBuf ELSE b
  <2>1. /\ locked' = [locked EXCEPT ![b] = p] /\ Goto(p, place) /\ Work(p, c)
    <3>1. buf' = buf => buf' = [buf EXCEPT ![p] = b]
      BY Zenon, <1>1, <1>4 DEF TypeOK
    <3> QED BY Zenon, <1>4, <1>7, <3>1 DEF acquiresleep, Work
  <2>2. /\ pc' \in [Procs -> Places] /\ buf' \in [Procs -> Bufs \cup {NoBuf}]
        /\ pc'[p] = place /\ buf'[p] = c
        /\ \A q \in Procs : q # p => pc'[q] = pc[q] /\ buf'[q] = buf[q]
    <3>1. place \in Places /\ c \in Bufs \cup {NoBuf}
      BY Zenon DEF Places
    <3> HIDE DEF place, c
    <3> QED BY Zenon, <1>1, <2>1, <3>1, Moves
  <2>3. /\ locked' \in [Bufs -> Procs \cup {NoProc}] /\ locked'[b] = p
        /\ \A d \in Bufs : d # b => locked'[d] = locked[d]
    BY Zenon, <1>1, <2>1 DEF TypeOK
  <2>4. TypeOK'
    BY Zenon, <1>1, <1>2, <2>2, <2>3 DEF TypeOK
  <2>5. HandInv'
    <3>1. ASSUME NEW q \in Procs, q # p, buf[q] = b
          PROVE  pc[q] \in {"acquiresleep", "brelse"}
      <4>1. pc[q] \notin {"user", "panic"}
        BY Zenon, <1>1, <1>3, <3>1 DEF HandInv
      <4>2. pc[q] \notin {"sleep_lock", "iderw", "sleep_disk"}
        BY Zenon, <1>1, <1>3, <1>7, <3>1 DEF HandInv
      <4> QED BY Zenon, <1>1, <4>1, <4>2 DEF TypeOK, Places
    <3>2. ASSUME NEW q \in Procs, q # p
          PROVE  /\ buf'[q] = NoBuf <=> pc'[q] \in {"user", "panic"}
                 /\ pc'[q] \in {"acquiresleep", "brelse"} => locked'[buf'[q]] # q
                 /\ pc'[q] = "sleep_lock" => locked'[buf'[q]] \notin {NoProc, q}
                 /\ pc'[q] \in {"iderw", "sleep_disk"} =>
                      locked'[buf'[q]] = q /\ (buf'[q] \in dirty' \/ buf'[q] \notin valid')
      <4>1. CASE buf[q] = b
        BY Zenon, <1>3, <2>2, <2>3, <3>1, <3>2, <4>1
      <4>2. CASE buf[q] # b
        BY <1>1, <1>2, <2>2, <2>3, <3>2, <4>2, HandFacts DEF HandInv
      <4> QED BY Zenon, <4>1, <4>2
    <3>3. /\ buf'[p] = NoBuf <=> pc'[p] \in {"user", "panic"}
          /\ pc'[p] \notin {"acquiresleep", "brelse", "sleep_lock"}
          /\ pc'[p] \in {"iderw", "sleep_disk"} => locked'[buf'[p]] = p /\ buf'[p] \notin valid'
      BY Zenon, <1>2, <1>3, <2>2, <2>3
    <3> QED BY Zenon, <3>2, <3>3 DEF HandInv
  <2>6. QueueInv'
    BY Zenon, <1>1, <1>2, <2>2, QueueFrame
  <2>7. BlockInv'
    <3>1. \A d \in Bufs : Users(d)' = Users(d)
      <4>1. ASSUME NEW d \in Bufs, NEW q \in Procs
            PROVE  (locked'[d] = q \/ buf'[q] = d) <=> (locked[d] = q \/ buf[q] = d)
        BY Zenon, <1>3, <1>4, <1>7, <2>2, <2>3
      <4> QED BY Zenon, <4>1 DEF Users
    <3>2. \A d \in Bufs, q \in Procs : locked'[d] = q /\ buf'[q] # d => d \in valid
      BY <1>1, <1>3, <1>4, <1>7, <2>2, <2>3 DEF BlockInv
    <3> QED BY Zenon, <1>1, <1>2, <3>1, <3>2 DEF BlockInv
  <2>8. DataInv'
    BY Zenon, <1>1, <1>2 DEF DataInv
  <2> QED BY Zenon, <2>4, <2>5, <2>6, <2>7, <2>8 DEF BioInv
<1> QED BY Zenon, <1>6, <1>7

\* log_write() and bwrite() change a block that the caller holds, and mark its buffer.
LEMMA WriteSteps ==
  ASSUME BioInv, NEW p \in Procs, NEW b \in Bufs, NEW v \in Vals, log_write(p, b, v) \/ bwrite(p, b, v)
  PROVE  BioInv'
<1>1. TypeOK /\ HandInv /\ QueueInv /\ BlockInv /\ DataInv
  BY Zenon DEF BioInv
<1>2. /\ pc[p] = "user" /\ locked[b] = p
      /\ data' = [data EXCEPT ![b] = v] /\ dirty' = dirty \cup {b}
      /\ UNCHANGED <<valid, blockno, refcnt, lru, locked, idequeue, disk>>
  BY Zenon DEF log_write, bwrite, cacheVars, Held
<1>3. /\ buf[p] = NoBuf /\ NoBuf \notin Bufs
  BY Zenon, <1>1, <1>2, HandFacts
<1>4. b \in valid
  BY Zenon, <1>1, <1>2, <1>3 DEF BlockInv
<1>5. /\ pc' \in [Procs -> Places] /\ buf' \in [Procs -> Bufs \cup {NoBuf}]
      /\ (pc'[p] = "user" /\ buf'[p] = NoBuf) \/ (pc'[p] = "iderw" /\ buf'[p] = b)
      /\ \A q \in Procs : q # p => pc'[q] = pc[q] /\ buf'[q] = buf[q]
  <2>1. CASE log_write(p, b, v)
    BY Zenon, <1>1, <1>2, <1>3, <2>1 DEF log_write, TypeOK
  <2>2. CASE bwrite(p, b, v)
    <3>1. Goto(p, "iderw") /\ Work(p, b) /\ "iderw" \in Places
      BY Zenon, <2>2 DEF bwrite, Places
    <3> QED BY Zenon, <1>1, <3>1, Moves
  <2> QED BY Zenon, <2>1, <2>2
<1>6. TypeOK'
  <2>1. data' \in [Bufs -> Vals] /\ dirty' \subseteq Bufs
    BY Zenon, <1>1, <1>2 DEF TypeOK
  <2> QED BY Zenon, <1>1, <1>2, <1>5, <2>1 DEF TypeOK
<1>7. HandInv'
  BY <1>1, <1>2, <1>3, <1>5 DEF HandInv
<1>8. QueueInv'
  <2>1. \A q \in Procs, c \in Bufs :
           (pc'[q] = "sleep_disk" /\ buf'[q] = c) <=> (pc[q] = "sleep_disk" /\ buf[q] = c)
    BY Zenon, <1>2, <1>5
  <2> QED BY Zenon, <1>1, <1>2, <2>1, QueueFrame
<1>9. BlockInv'
  <2>1. \A c \in Bufs : Users(c)' = Users(c)
    <3>1. ASSUME NEW c \in Bufs, NEW q \in Procs
          PROVE  (locked'[c] = q \/ buf'[q] = c) <=> (locked[c] = q \/ buf[q] = c)
      BY Zenon, <1>2, <1>3, <1>5
    <3> QED BY Zenon, <3>1 DEF Users
  <2>2. \A c \in Bufs, q \in Procs : locked'[c] = q /\ buf'[q] # c => c \in valid
    BY Zenon, <1>1, <1>2, <1>3, <1>4, <1>5 DEF BlockInv
  <2> QED BY Zenon, <1>1, <1>2, <1>4, <2>1, <2>2 DEF BlockInv
<1>10. DataInv'
  BY Zenon, <1>1, <1>2 DEF DataInv, TypeOK
<1> QED BY Zenon, <1>6, <1>7, <1>8, <1>9, <1>10 DEF BioInv

\* releasesleep() gives up the lock and sends everyone who waits for it to try again.
LEMMA ReleaseStep ==
  ASSUME BioInv, NEW p \in Procs, NEW b \in Bufs, releasesleep(p, b)
  PROVE  BioInv'
<1>1. TypeOK /\ HandInv /\ QueueInv /\ BlockInv /\ DataInv
  BY Zenon DEF BioInv
<1>2. /\ pc[p] = "user" /\ locked[b] = p /\ locked' = [locked EXCEPT ![b] = NoProc] /\ Work(p, b)
      /\ pc' = [Wakeup(b, "sleep_lock", "acquiresleep") EXCEPT ![p] = "brelse"]
      /\ UNCHANGED <<data, valid, dirty, blockno, refcnt, lru, idequeue, disk>>
  BY Zenon DEF releasesleep, cacheVars, flagVars, Held
<1>3. /\ buf[p] = NoBuf /\ NoBuf \notin Bufs /\ NoProc \notin Procs
  BY Zenon, <1>1, <1>2, HandFacts
<1>4. /\ pc' \in [Procs -> Places] /\ pc'[p] = "brelse"
      /\ \A q \in Procs : q # p => pc'[q] = IF pc[q] = "sleep_lock" /\ buf[q] = b
                                            THEN "acquiresleep" ELSE pc[q]
  <2>1. Wakeup(b, "sleep_lock", "acquiresleep") \in [Procs -> Places]
    BY Zenon, <1>1 DEF Wakeup, TypeOK, Places
  <2> QED BY Zenon, <1>2, <2>1 DEF Wakeup, Places
<1>5. /\ buf' \in [Procs -> Bufs \cup {NoBuf}] /\ buf'[p] = b
      /\ \A q \in Procs : q # p => buf'[q] = buf[q]
  BY Zenon, <1>1, <1>2 DEF TypeOK, Work
<1>6. /\ locked' \in [Bufs -> Procs \cup {NoProc}] /\ locked'[b] = NoProc
      /\ \A c \in Bufs : c # b => locked'[c] = locked[c]
  BY Zenon, <1>1, <1>2 DEF TypeOK
<1>7. TypeOK'
  BY Zenon, <1>1, <1>2, <1>4, <1>5, <1>6 DEF TypeOK
<1>8. HandInv'
  <2>1. ASSUME NEW q \in Procs, q # p, buf[q] = b
        PROVE  pc[q] \in {"acquiresleep", "brelse", "sleep_lock"}
    <3>1. pc[q] \notin {"user", "panic"}
      BY Zenon, <1>1, <1>3, <2>1 DEF HandInv
    <3>2. pc[q] \notin {"iderw", "sleep_disk"}
      BY Zenon, <1>1, <1>2, <2>1 DEF HandInv
    <3> QED BY Zenon, <1>1, <3>1, <3>2 DEF TypeOK, Places
  <2>2. ASSUME NEW q \in Procs, q # p
        PROVE  /\ buf'[q] = NoBuf <=> pc'[q] \in {"user", "panic"}
               /\ pc'[q] \in {"acquiresleep", "brelse"} => locked'[buf'[q]] # q
               /\ pc'[q] = "sleep_lock" => locked'[buf'[q]] \notin {NoProc, q}
               /\ pc'[q] \in {"iderw", "sleep_disk"} =>
                    locked'[buf'[q]] = q /\ (buf'[q] \in dirty' \/ buf'[q] \notin valid')
    <3>1. CASE buf[q] = b
      BY <1>3, <1>4, <1>5, <1>6, <2>1, <2>2, <3>1
    <3>2. CASE buf[q] # b
      BY <1>1, <1>2, <1>4, <1>5, <1>6, <2>2, <3>2, HandFacts DEF HandInv
    <3> QED BY Zenon, <3>1, <3>2
  <2>3. buf'[p] # NoBuf /\ locked'[buf'[p]] # p /\ pc'[p] = "brelse"
    BY Zenon, <1>3, <1>4, <1>5, <1>6
  <2> QED BY Zenon, <2>2, <2>3 DEF HandInv
<1>9. QueueInv'
  <2>1. \A q \in Procs, c \in Bufs :
           (pc'[q] = "sleep_disk" /\ buf'[q] = c) <=> (pc[q] = "sleep_disk" /\ buf[q] = c)
    BY Zenon, <1>2, <1>4, <1>5
  <2> QED BY Zenon, <1>1, <1>2, <2>1, QueueFrame
<1>10. BlockInv'
  <2>1. \A c \in Bufs : Users(c)' = Users(c)
    <3>1. ASSUME NEW c \in Bufs, NEW q \in Procs
          PROVE  (locked'[c] = q \/ buf'[q] = c) <=> (locked[c] = q \/ buf[q] = c)
      BY Zenon, <1>2, <1>3, <1>5, <1>6
    <3> QED BY Zenon, <3>1 DEF Users
  <2>2. \A c \in Bufs, q \in Procs : locked'[c] = q /\ buf'[q] # c => c \in valid
    BY <1>1, <1>2, <1>3, <1>5, <1>6 DEF BlockInv
  <2> QED BY Zenon, <1>1, <1>2, <2>1, <2>2 DEF BlockInv
<1>11. DataInv'
  BY Zenon, <1>1, <1>2 DEF DataInv
<1> QED BY Zenon, <1>7, <1>8, <1>9, <1>10, <1>11 DEF BioInv

\* brelse() gives up the reference, and the last user puts the buffer at the front.
LEMMA BrelseStep ==
  ASSUME BioInv, NEW p \in Procs, brelse(p)
  PROVE  BioInv'
<1>1. TypeOK /\ HandInv /\ QueueInv /\ BlockInv /\ DataInv
  BY Zenon DEF BioInv
<1>2. /\ pc[p] = "brelse" /\ Goto(p, "user") /\ Work(p, NoBuf)
      /\ UNCHANGED <<data, valid, dirty, blockno, locked, idequeue, disk>>
  BY Zenon DEF brelse, flagVars
<1>3. /\ NoBuf \notin Bufs /\ NoProc \notin Procs /\ buf[p] \in Bufs
  BY Zenon, <1>1, <1>2, HandFacts
<1>4. PICK b \in Bufs : b = buf[p]
  BY Zenon, <1>3
<1>5. /\ refcnt' = [refcnt EXCEPT ![b] = @ - 1]
      /\ lru' = IF refcnt[b] = 1 THEN MoveToFront(b) ELSE lru
  BY Zenon, <1>4 DEF brelse
<1>6. locked[b] # p
  BY Zenon, <1>1, <1>2, <1>4 DEF HandInv
<1>7. /\ pc' \in [Procs -> Places] /\ buf' \in [Procs -> Bufs \cup {NoBuf}]
      /\ pc'[p] = "user" /\ buf'[p] = NoBuf
      /\ \A q \in Procs : q # p => pc'[q] = pc[q] /\ buf'[q] = buf[q]
  BY Zenon, <1>1, <1>2, Moves DEF Places
<1>8. /\ p \in Users(b) /\ Users(b)' = Users(b) \ {p}
      /\ \A c \in Bufs : c # b => Users(c)' = Users(c)
  BY Zenon, <1>2, <1>3, <1>4, <1>6, <1>7 DEF Users
<1>9. refcnt[b] = Cardinality(Users(b)) /\ Cardinality(Users(b) \ {p}) = Cardinality(Users(b)) - 1
  BY Zenon, <1>1, <1>8, UsersFinite, FS_RemoveElement DEF BlockInv
<1>10. IsFiniteSet(Users(b) \ {p}) /\ Cardinality(Users(b) \ {p}) \in Nat
  BY Zenon, UsersFinite, FS_RemoveElement, FS_CardinalityType
<1>11. /\ refcnt' \in [Bufs -> Nat] /\ refcnt'[b] = Cardinality(Users(b)')
       /\ \A c \in Bufs : c # b => refcnt'[c] = refcnt[c]
  BY Zenon, <1>1, <1>5, <1>8, <1>9, <1>10 DEF TypeOK
<1>12. lru' \in Seq(Bufs) /\ Range(lru') = Bufs /\ Len(lru') = Cardinality(Bufs)
  BY Zenon, <1>1, <1>5, FrontKeepsAll DEF TypeOK
<1>13. TypeOK'
  BY Zenon, <1>1, <1>2, <1>7, <1>11, <1>12 DEF TypeOK
<1>14. HandInv'
  BY <1>1, <1>2, <1>7 DEF HandInv
<1>15. QueueInv'
  <2>1. \A q \in Procs, c \in Bufs :
           (pc'[q] = "sleep_disk" /\ buf'[q] = c) <=> (pc[q] = "sleep_disk" /\ buf[q] = c)
    BY Zenon, <1>2, <1>7
  <2> QED BY Zenon, <1>1, <1>2, <2>1, QueueFrame
<1>16. BlockInv'
  <2>1. \A c \in Bufs : refcnt'[c] = Cardinality(Users(c)')
    BY Zenon, <1>1, <1>8, <1>11 DEF BlockInv
  <2>2. \A c \in Bufs : c \in valid \/ Users(c)' # {} => blockno[c] # NoBlock
    BY Zenon, <1>1, <1>8 DEF BlockInv
  <2>3. \A c \in Bufs, q \in Procs : locked[c] = q /\ buf'[q] # c => c \in valid
    BY <1>1, <1>4, <1>6, <1>7 DEF BlockInv
  <2> QED BY Zenon, <1>1, <1>2, <2>1, <2>2, <2>3 DEF BlockInv
<1>17. DataInv'
  BY Zenon, <1>1, <1>2 DEF DataInv
<1> QED BY Zenon, <1>13, <1>14, <1>15, <1>16, <1>17 DEF BioInv

\* iderw() puts a buffer into the queue that is not there yet.
LEMMA IderwStep ==
  ASSUME BioInv, NEW p \in Procs, iderw(p)
  PROVE  BioInv'
<1>1. TypeOK /\ HandInv /\ QueueInv /\ BlockInv /\ DataInv
  BY Zenon DEF BioInv
<1>2. /\ pc[p] = "iderw" /\ idequeue' = Append(idequeue, buf[p]) /\ Goto(p, "sleep_disk")
      /\ UNCHANGED <<data, valid, dirty, blockno, refcnt, lru, locked, disk, buf>>
  BY Zenon, <1>1 DEF iderw, flagVars, cacheVars, HandInv
<1>3. PICK b \in Bufs : b = buf[p]
  BY Zenon, <1>1, <1>2, HandFacts
<1>4. /\ pc' \in [Procs -> Places] /\ pc'[p] = "sleep_disk"
      /\ \A q \in Procs : q # p => pc'[q] = pc[q]
  BY Zenon, <1>1, <1>2 DEF TypeOK, Goto, Places
<1>5. idequeue \in Seq(Bufs) /\ idequeue' = Append(idequeue, b)
  BY Zenon, <1>1, <1>2, <1>3 DEF TypeOK
<1>6. TypeOK'
  BY <1>1, <1>2, <1>4, <1>5 DEF TypeOK
<1>7. HandInv'
  BY Zenon, <1>1, <1>2, <1>4 DEF HandInv
<1>8. QueueInv'
  <2>1. b \notin Range(idequeue)
    BY <1>1, <1>2, <1>3 DEF QueueInv, HandInv
  <2>2. IsInjective(idequeue')
    BY <1>1, <1>5, <2>1 DEF QueueInv, IsInjective, Range
  <2>3. Range(idequeue') = Range(idequeue) \cup {b}
    BY <1>5 DEF Range
  <2>4. ASSUME NEW c \in Bufs
        PROVE  c \in Range(idequeue') <=> \E q \in Procs : pc'[q] = "sleep_disk" /\ buf'[q] = c
    <3>1. (\E q \in Procs : pc'[q] = "sleep_disk" /\ buf'[q] = c)
            <=> (c = b \/ \E q \in Procs : pc[q] = "sleep_disk" /\ buf[q] = c)
      BY Zenon, <1>2, <1>3, <1>4
    <3> QED BY Zenon, <1>1, <2>3, <3>1 DEF QueueInv
  <2> QED BY Zenon, <2>2, <2>4 DEF QueueInv
<1>9. BlockInv' /\ DataInv'
  BY <1>1, <1>2 DEF BlockInv, DataInv, Users
<1> QED BY Zenon, <1>6, <1>7, <1>8, <1>9 DEF BioInv

\* The interrupt ends the first request of the queue, and the wait of the one process that made it.
LEMMA IntrFacts ==
  ASSUME BioInv, ideintr
  PROVE  \E p \in Procs, b \in Bufs :
           /\ b = Head(idequeue) /\ b \in Range(idequeue)
           /\ Range(Tail(idequeue)) = Range(idequeue) \ {b}
           /\ Tail(idequeue) \in Seq(Bufs) /\ IsInjective(Tail(idequeue))
           /\ pc[p] = "sleep_disk" /\ buf[p] = b /\ locked[b] = p
           /\ blockno[b] \in Blocks /\ (b \in dirty \/ b \notin valid)
           /\ pc' \in [Procs -> Places] /\ buf' \in [Procs -> Bufs \cup {NoBuf}]
           /\ pc'[p] = "user" /\ buf'[p] = NoBuf
           /\ \A q \in Procs : q # p => pc'[q] = pc[q] /\ buf'[q] = buf[q]
<1>1. TypeOK /\ HandInv /\ QueueInv /\ BlockInv /\ DataInv
  BY Zenon DEF BioInv
<1>2. idequeue # <<>> /\ idequeue \in Seq(Bufs)
  BY Zenon, <1>1 DEF ideintr, TypeOK
<1>3. PICK b \in Bufs : b = Head(idequeue)
  BY <1>2
<1>4. /\ b \in Range(idequeue) /\ Tail(idequeue) \in Seq(Bufs)
      /\ IsInjective(Tail(idequeue)) /\ Range(Tail(idequeue)) = Range(idequeue) \ {b}
  <2>1. /\ Len(idequeue) \in Nat /\ Len(idequeue) >= 1 /\ DOMAIN idequeue = 1..Len(idequeue)
        /\ idequeue[1] = b
    BY <1>2, <1>3
  <2>2. /\ Tail(idequeue) \in Seq(Bufs) /\ DOMAIN Tail(idequeue) = 1..(Len(idequeue) - 1)
        /\ \A i \in 1..(Len(idequeue) - 1) : Tail(idequeue)[i] = idequeue[i + 1]
    BY <1>2, <2>1
  <2>3. \A i, j \in 1..Len(idequeue) : idequeue[i] = idequeue[j] => i = j
    BY Zenon, <1>1, <2>1 DEF QueueInv, IsInjective
  <2>4. IsInjective(Tail(idequeue))
    BY <2>1, <2>2, <2>3 DEF IsInjective
  <2>5. b \in Range(idequeue)
    BY <2>1 DEF Range
  <2>6. ASSUME NEW c PROVE c \in Range(Tail(idequeue)) <=> c \in Range(idequeue) /\ c # b
    <3>1. c \in Range(Tail(idequeue)) <=> \E i \in 1..(Len(idequeue) - 1) : c = idequeue[i + 1]
      BY Zenon, <2>2 DEF Range
    <3>2. c \in Range(idequeue) <=> \E i \in 1..Len(idequeue) : c = idequeue[i]
      BY Zenon, <2>1 DEF Range
    <3>3. ASSUME NEW i \in 1..(Len(idequeue) - 1) PROVE i + 1 \in 1..Len(idequeue) /\ idequeue[i + 1] # b
      BY <2>1, <2>3
    <3>4. ASSUME NEW i \in 1..Len(idequeue), idequeue[i] # b
          PROVE  i - 1 \in 1..(Len(idequeue) - 1) /\ (i - 1) + 1 = i
      BY <2>1, <3>4
    <3> QED BY Zenon, <3>1, <3>2, <3>3, <3>4
  <2>7. Range(Tail(idequeue)) = Range(idequeue) \ {b}
    BY Zenon, <2>6
  <2> QED BY Zenon, <2>2, <2>4, <2>5, <2>7
<1>5. PICK p \in Procs : pc[p] = "sleep_disk" /\ buf[p] = b
  BY Zenon, <1>1, <1>4 DEF QueueInv
<1>6. locked[b] = p /\ (b \in dirty \/ b \notin valid)
  BY Zenon, <1>1, <1>5 DEF HandInv
<1>7. \A q \in Procs : pc[q] = "sleep_disk" /\ buf[q] = b => q = p
  BY Zenon, <1>1, <1>6 DEF HandInv
<1>8. blockno[b] \in Blocks
  <2>1. p \in Users(b)
    BY Zenon, <1>6 DEF Users
  <2> QED BY <1>1, <2>1 DEF BlockInv, TypeOK
<1>9. /\ pc' = Wakeup(b, "sleep_disk", "user")
      /\ buf' = [q \in Procs |-> IF pc[q] = "sleep_disk" /\ buf[q] = b THEN NoBuf ELSE buf[q]]
  BY Zenon, <1>3 DEF ideintr
<1>10. /\ pc'[p] = "user" /\ buf'[p] = NoBuf
       /\ \A q \in Procs : q # p => pc'[q] = pc[q] /\ buf'[q] = buf[q]
  BY Zenon, <1>5, <1>7, <1>9 DEF Wakeup
<1>11. pc' \in [Procs -> Places] /\ buf' \in [Procs -> Bufs \cup {NoBuf}]
  BY Zenon, <1>1, <1>9 DEF Wakeup, TypeOK, Places
<1> QED BY Zenon, <1>3, <1>4, <1>5, <1>6, <1>8, <1>10, <1>11

LEMMA IntrStep ==
  ASSUME BioInv, ideintr
  PROVE  BioInv'
<1>1. TypeOK /\ HandInv /\ QueueInv /\ BlockInv /\ DataInv
  BY Zenon DEF BioInv
<1>2. PICK p \in Procs, b \in Bufs :
        /\ b = Head(idequeue) /\ b \in Range(idequeue)
        /\ Range(Tail(idequeue)) = Range(idequeue) \ {b}
        /\ Tail(idequeue) \in Seq(Bufs) /\ IsInjective(Tail(idequeue))
        /\ pc[p] = "sleep_disk" /\ buf[p] = b /\ locked[b] = p
        /\ blockno[b] \in Blocks /\ (b \in dirty \/ b \notin valid)
        /\ pc' \in [Procs -> Places] /\ buf' \in [Procs -> Bufs \cup {NoBuf}]
        /\ pc'[p] = "user" /\ buf'[p] = NoBuf
        /\ \A q \in Procs : q # p => pc'[q] = pc[q] /\ buf'[q] = buf[q]
  BY Zenon, IntrFacts
<1>3. /\ data' = IF b \in dirty THEN data ELSE [data EXCEPT ![b] = disk[blockno[b]]]
      /\ disk' = IF b \in dirty THEN [disk EXCEPT ![blockno[b]] = data[b]] ELSE disk
      /\ valid' = valid \cup {b} /\ dirty' = dirty \ {b} /\ idequeue' = Tail(idequeue)
      /\ UNCHANGED <<blockno, refcnt, lru, locked>>
  BY Zenon, <1>2 DEF ideintr, cacheVars
<1>4. NoBuf \notin Bufs /\ NoProc \notin Procs /\ NoBlock \notin Blocks
  BY Zenon, <1>1, HandFacts
<1>5. data' \in [Bufs -> Vals] /\ disk' \in [Blocks -> Vals]
  BY Zenon, <1>1, <1>2, <1>3 DEF TypeOK
<1>6. TypeOK'
  BY Zenon, <1>1, <1>2, <1>3, <1>5 DEF TypeOK
<1>7. \A q \in Procs : q # p => ~ (buf[q] = b /\ pc[q] \in {"iderw", "sleep_disk"})
  BY Zenon, <1>1, <1>2 DEF HandInv
<1>8. HandInv'
  <2>1. ASSUME NEW q \in Procs, q # p
        PROVE  /\ buf'[q] = NoBuf <=> pc'[q] \in {"user", "panic"}
               /\ pc'[q] \in {"acquiresleep", "brelse"} => locked'[buf'[q]] # q
               /\ pc'[q] = "sleep_lock" => locked'[buf'[q]] \notin {NoProc, q}
               /\ pc'[q] \in {"iderw", "sleep_disk"} =>
                    locked'[buf'[q]] = q /\ (buf'[q] \in dirty' \/ buf'[q] \notin valid')
    <3>1. pc'[q] = pc[q] /\ buf'[q] = buf[q] /\ locked' = locked
      BY Zenon, <1>2, <1>3, <2>1
    <3>2. pc[q] \in {"iderw", "sleep_disk"} => (buf[q] \in dirty' \/ buf[q] \notin valid')
      BY <1>1, <1>3, <1>7, <2>1 DEF HandInv
    <3> QED BY Zenon, <1>1, <3>1, <3>2 DEF HandInv
  <2>2. buf'[p] = NoBuf /\ pc'[p] = "user"
    BY Zenon, <1>2
  <2> QED BY <2>1, <2>2 DEF HandInv
<1>9. QueueInv'
  <2>1. ASSUME NEW c \in Bufs
        PROVE  c \in Range(idequeue') <=> \E q \in Procs : pc'[q] = "sleep_disk" /\ buf'[q] = c
    <3>1. (\E q \in Procs : pc'[q] = "sleep_disk" /\ buf'[q] = c)
            <=> (c # b /\ \E q \in Procs : pc[q] = "sleep_disk" /\ buf[q] = c)
      BY Zenon, <1>2, <1>7
    <3>2. c \in Range(idequeue) <=> \E q \in Procs : pc[q] = "sleep_disk" /\ buf[q] = c
      BY Zenon, <1>1 DEF QueueInv
    <3>3. c \in Range(idequeue') <=> c \in Range(idequeue) /\ c # b
      BY Zenon, <1>2, <1>3
    <3> QED BY Zenon, <3>1, <3>2, <3>3
  <2> QED BY Zenon, <1>2, <1>3, <2>1 DEF QueueInv
<1>10. BlockInv'
  <2>1. \A c \in Bufs : Users(c)' = Users(c)
    <3>1. ASSUME NEW c \in Bufs, NEW q \in Procs
          PROVE  (locked'[c] = q \/ buf'[q] = c) <=> (locked[c] = q \/ buf[q] = c)
      BY Zenon, <1>2, <1>3, <1>4
    <3> QED BY Zenon, <3>1 DEF Users
  <2>2. \A c \in Bufs : c \in valid' \/ Users(c)' # {} => blockno[c] # NoBlock
    BY Zenon, <1>1, <1>2, <1>3, <1>4, <2>1 DEF BlockInv
  <2>3. \A c \in Bufs, q \in Procs : locked[c] = q /\ buf'[q] # c => c \in valid'
    BY <1>1, <1>2, <1>3 DEF BlockInv
  <2>4. dirty' \subseteq valid'
    BY Zenon, <1>1, <1>3 DEF BlockInv
  <2> QED BY Zenon, <1>1, <1>3, <2>1, <2>2, <2>3, <2>4 DEF BlockInv
<1>11. DataInv'
  <2>1. ASSUME NEW c \in valid' \ dirty' PROVE data'[c] = disk'[blockno[c]]
    <3>1. CASE c = b
      BY Zenon, <1>1, <1>2, <1>3, <3>1 DEF TypeOK
    <3>2. CASE c # b
      <4>1. c \in valid \ dirty /\ c \in Bufs
        BY Zenon, <1>1, <1>3, <3>2 DEF TypeOK
      <4>2. blockno[c] # blockno[b]
        BY Zenon, <1>1, <1>2, <1>4, <3>2, <4>1 DEF BlockInv
      <4>3. data'[c] = data[c] /\ disk'[blockno[c]] = disk[blockno[c]]
        <5>1. blockno[c] \in Blocks
          BY <1>1, <4>1 DEF BlockInv, TypeOK
        <5> QED BY Zenon, <1>1, <1>2, <1>3, <3>2, <4>1, <4>2, <5>1 DEF TypeOK
      <4> QED BY Zenon, <1>1, <4>1, <4>3 DEF DataInv
    <3> QED BY Zenon, <3>1, <3>2
  <2> QED BY Zenon, <1>3, <2>1 DEF DataInv
<1> QED BY Zenon, <1>6, <1>8, <1>9, <1>10, <1>11 DEF BioInv

\* binit() leaves no buffer in use.
LEMMA BioInvInit == Init => BioInv
<1> SUFFICES ASSUME Init PROVE BioInv
  OBVIOUS
<1>1. /\ blockno = [b \in Bufs |-> NoBlock] /\ refcnt = [b \in Bufs |-> 0]
      /\ valid = {} /\ dirty = {} /\ locked = [b \in Bufs |-> NoProc] /\ idequeue = <<>>
      /\ pc = [p \in Procs |-> "user"] /\ buf = [p \in Procs |-> NoBuf]
  BY Zenon DEF Init
<1>2. data \in [Bufs -> Vals] /\ disk \in [Blocks -> Vals]
  BY Zenon DEF Init
<1>3. lru \in Seq(Bufs) /\ Range(lru) = Bufs /\ Len(lru) = Cardinality(Bufs)
  <2>1. Cardinality(Bufs) \in Nat
    BY Zenon, FiniteAssumption, FS_CardinalityType
  <2>2. lru \in [1..Cardinality(Bufs) -> Bufs] /\ \A b \in Bufs : \E i \in 1..Cardinality(Bufs) : lru[i] = b
    BY Zenon DEF Init, Bijection, Injection, Surjection
  <2>3. lru \in Seq(Bufs) /\ Len(lru) = Cardinality(Bufs) /\ DOMAIN lru = 1..Cardinality(Bufs)
    BY <2>1, <2>2
  <2>4. Range(lru) = Bufs
    BY Zenon, <2>2, <2>3 DEF Range
  <2> QED BY Zenon, <2>3, <2>4
<1>4. TypeOK
  BY <1>1, <1>2, <1>3 DEF TypeOK, Places
<1>5. HandInv /\ QueueInv /\ DataInv
  BY <1>1 DEF HandInv, QueueInv, DataInv, IsInjective, Range
<1>6. BlockInv
  <2>1. \A b \in Bufs : Users(b) = {}
    BY Zenon, <1>1, NamesAssumption DEF Users, NoProc, NoBuf
  <2> QED BY Zenon, <1>1, <2>1, FS_EmptySet, NamesAssumption DEF BlockInv, NoProc
<1> QED BY Zenon, <1>4, <1>5, <1>6 DEF BioInv

LEMMA BioInvStep == BioInv /\ [Next]_vars => BioInv'
<1> SUFFICES ASSUME BioInv, [Next]_vars PROVE BioInv'
  OBVIOUS
<1>1. ASSUME NEW p \in Procs, NEW k \in Blocks, bget(p, k) PROVE BioInv'
  <2>1. CASE bget_hit(p, k)
    BY Zenon, <1>1, <2>1, HitStep
  <2>2. CASE bget_recycle(p, k)
    BY Zenon, <1>1, <2>2, RecycleStep
  <2>3. CASE Goto(p, "panic") /\ UNCHANGED <<flagVars, cacheVars, buf>>
    <3>1. pc[p] = "user" /\ UNCHANGED <<data, locked, idequeue, disk>>
      BY Zenon, <1>1 DEF bget
    <3> QED BY <2>3, <3>1, PanicStep
  <2> QED BY Zenon, <1>1, <2>1, <2>2, <2>3 DEF bget
<1>2. ASSUME NEW p \in Procs, NEW b \in Bufs, releasesleep(p, b) PROVE BioInv'
  BY Zenon, <1>2, ReleaseStep
<1>3. ASSUME NEW p \in Procs, NEW b \in Bufs, NEW v \in Vals, log_write(p, b, v) \/ bwrite(p, b, v)
      PROVE  BioInv'
  BY Zenon, <1>3, WriteSteps
<1>4. ASSUME NEW p \in Procs, acquiresleep(p) PROVE BioInv'
  BY Zenon, <1>4, AcquireStep
<1>5. ASSUME NEW p \in Procs, iderw(p) PROVE BioInv'
  BY Zenon, <1>5, IderwStep
<1>6. ASSUME NEW p \in Procs, brelse(p) PROVE BioInv'
  BY Zenon, <1>6, BrelseStep
<1>7. ASSUME ideintr PROVE BioInv'
  BY Zenon, <1>7, IntrStep
<1>8. CASE UNCHANGED vars
  BY <1>8 DEF BioInv, TypeOK, HandInv, QueueInv, BlockInv, DataInv, Users, vars, flagVars, cacheVars
<1> QED BY Zenon, <1>1, <1>2, <1>3, <1>4, <1>5, <1>6, <1>7, <1>8 DEF Next

LEMMA BioInvHolds == Spec => []BioInv
<1> QED BY BioInvInit, BioInvStep, PTL DEF Spec

(* For any number of processes, buffers and blocks, bget() and brelse()    *)
(* count exactly the users of every buffer, and give no block two buffers. *)
THEOREM CountedBuffers == Spec => []RefInv
<1>1. BioInv => RefInv
  BY Zenon DEF BioInv, BlockInv, RefInv
<1> QED BY <1>1, BioInvHolds, PTL

(* For any number of processes, buffers and blocks, acquiresleep() and     *)
(* iderw() never sleep without somebody to wake them: the holder of the    *)
(* lock, or the one request in the disk queue.                             *)
THEOREM BufferWakeups == Spec => []NoLostWakeup
<1>1. BioInv => NoLostWakeup
  <2> SUFFICES ASSUME BioInv PROVE NoLostWakeup
    OBVIOUS
  <2>1. HandInv /\ QueueInv
    BY Zenon DEF BioInv
  <2>2. \A q \in Procs : pc[q] = "sleep_disk" => locked[buf[q]] = q
    BY <2>1 DEF HandInv
  <2>3. \A q \in Procs : pc[q] = "sleep_lock" => locked[buf[q]] \notin {NoProc, q}
    BY <2>1 DEF HandInv
  <2> QED BY <2>1, <2>2, <2>3 DEF QueueInv, NoLostWakeup
<1> QED BY <1>1, BioInvHolds, PTL
-----------------------------------------------------------------------------
(* For any number of processes, buffers and blocks, bget() panics only     *)
(* when every buffer is in use or dirty, and iderw() never panics.         *)
THEOREM PanicOnlyWhenFull == Spec => PanicsWhenFull
<1> DEFINE Full(p) == pc[p] = "user" /\ \A b \in Bufs : Users(b) # {} \/ b \in dirty
<1>1. ASSUME BioInv, [Next]_vars, NEW p \in Procs, pc[p] # "panic", pc'[p] = "panic" PROVE Full(p)
  <2>1. TypeOK /\ HandInv /\ BlockInv
    BY Zenon, <1>1 DEF BioInv
  <2>2. ASSUME NEW q \in Procs, NEW place, Goto(q, place) PROVE p = q /\ place = "panic"
    BY Zenon, <1>1, <2>1, <2>2 DEF Goto, TypeOK
  <2>3. ASSUME NEW q \in Procs, NEW k \in Blocks, bget(q, k) PROVE Full(p)
    <3>1. ~ Goto(q, "acquiresleep")
      BY <2>2
    <3>2. pc[q] = "user" /\ Free = {} /\ Goto(q, "panic")
      BY Zenon, <2>3, <3>1 DEF bget, bget_hit, bget_recycle
    <3>3. ASSUME NEW b \in Bufs, b \notin dirty PROVE Users(b) # {}
      <4>1. refcnt[b] # 0
        BY Zenon, <3>2, <3>3 DEF Free
      <4> QED BY Zenon, <2>1, <4>1, UsersFinite DEF BlockInv
    <3> QED BY Zenon, <2>2, <3>2, <3>3
  <2>4. ASSUME NEW q \in Procs, iderw(q) PROVE FALSE
    <3>1. Goto(q, "sleep_disk")
      BY Zenon, <2>1, <2>4 DEF iderw, HandInv
    <3> QED BY <2>2, <3>1
  <2>5. ASSUME NEW q \in Procs, acquiresleep(q) \/ brelse(q) PROVE FALSE
    BY <2>2, <2>5 DEF acquiresleep, brelse
  <2>6. ASSUME NEW q \in Procs, NEW b \in Bufs, releasesleep(q, b) PROVE FALSE
    BY <1>1, <2>1, <2>6 DEF releasesleep, Wakeup, TypeOK
  <2>7. ASSUME NEW q \in Procs, NEW b \in Bufs, NEW v \in Vals, log_write(q, b, v) \/ bwrite(q, b, v)
        PROVE  FALSE
    BY <1>1, <2>2, <2>7 DEF log_write, bwrite
  <2>8. ASSUME ideintr PROVE FALSE
    BY <1>1, <2>8 DEF ideintr, Wakeup
  <2>9. ~ UNCHANGED vars
    BY <1>1 DEF vars
  <2> QED BY Zenon, <1>1, <2>3, <2>4, <2>5, <2>6, <2>7, <2>8, <2>9 DEF Next
<1>2. BioInv /\ [Next]_vars =>
        [\A p \in Procs : pc[p] # "panic" /\ pc'[p] = "panic" =>
           /\ pc[p] = "user"
           /\ \A b \in Bufs : Users(b) # {} \/ b \in dirty]_vars
  BY Zenon, <1>1
<1> HIDE DEF Full
<1> QED BY <1>2, BioInvHolds, PTL DEF Spec, PanicsWhenFull
-----------------------------------------------------------------------------
\* A block is what its buffer holds, if that is valid, and else what the disk holds.
LEMMA StoreNow ==
  ASSUME BioInv, NEW k \in Blocks
  PROVE  /\ \A b \in Cached(k) : /\ Contents[k] = IF b \in valid THEN data[b] ELSE disk[k]
                                 /\ Owners[k] = IF b \in valid THEN locked[b] ELSE NoProc
         /\ Cached(k) = {} => Contents[k] = disk[k] /\ Owners[k] = NoProc
<1>1. TypeOK /\ BlockInv /\ k # NoBlock /\ NoProc \notin Procs
  BY NamesAssumption, SizesAssumption DEF BioInv, Blocks, NoBlock, NoProc
<1>2. ASSUME Cached(k) = {} PROVE Contents[k] = disk[k] /\ Owners[k] = NoProc
  BY Zenon, <1>2 DEF Contents, Owners, InHand
<1>3. ASSUME NEW b \in Cached(k)
      PROVE  /\ Contents[k] = IF b \in valid THEN data[b] ELSE disk[k]
             /\ Owners[k] = IF b \in valid THEN locked[b] ELSE NoProc
  <2>1. \A c \in Cached(k) : c = b
    BY Zenon, <1>1, <1>3 DEF BlockInv, Cached
  <2>2. locked[b] \in Procs \cup {NoProc}
    BY <1>1, <1>3 DEF TypeOK, Cached
  <2>3. Contents[k] = IF b \in valid THEN data[b] ELSE disk[k]
    <3>1. (CHOOSE c \in Cached(k) : TRUE) = b
      BY Zenon, <2>1
    <3>2. (\E c \in Cached(k) : c \in valid) <=> b \in valid
      BY Zenon, <2>1
    <3>3. Contents[k] = IF \E c \in Cached(k) : c \in valid
                         THEN data[CHOOSE c \in Cached(k) : TRUE] ELSE disk[k]
      BY Zenon DEF Contents
    <3> QED BY Zenon, <3>1, <3>2, <3>3
  <2>4. InHand(k) = IF b \in valid /\ locked[b] # NoProc THEN {locked[b]} ELSE {}
    BY <1>1, <2>1, <2>2 DEF InHand
  <2>5. Owners[k] = IF InHand(k) = {} THEN NoProc ELSE CHOOSE p \in InHand(k) : TRUE
    BY Zenon DEF Owners
  <2>6. CASE b \in valid /\ locked[b] # NoProc
    BY Zenon, <2>3, <2>4, <2>5, <2>6
  <2>7. CASE ~ (b \in valid /\ locked[b] # NoProc)
    BY Zenon, <2>3, <2>4, <2>5, <2>7
  <2> QED BY Zenon, <2>6, <2>7
<1> QED BY Zenon, <1>2, <1>3

\* The same in the next state.
LEMMA StoreNext ==
  ASSUME BioInv', NEW k \in Blocks
  PROVE  /\ \A b \in Cached(k)' : /\ Contents'[k] = IF b \in valid' THEN data'[b] ELSE disk'[k]
                                  /\ Owners'[k] = IF b \in valid' THEN locked'[b] ELSE NoProc
         /\ Cached(k)' = {} => Contents'[k] = disk'[k] /\ Owners'[k] = NoProc
<1>1. TypeOK' /\ BlockInv' /\ k # NoBlock /\ NoProc \notin Procs
  BY NamesAssumption, SizesAssumption DEF BioInv, Blocks, NoBlock, NoProc
<1>2. ASSUME Cached(k)' = {} PROVE Contents'[k] = disk'[k] /\ Owners'[k] = NoProc
  BY Zenon, <1>2 DEF Contents, Owners, InHand
<1>3. ASSUME NEW b \in Cached(k)'
      PROVE  /\ Contents'[k] = IF b \in valid' THEN data'[b] ELSE disk'[k]
             /\ Owners'[k] = IF b \in valid' THEN locked'[b] ELSE NoProc
  <2>1. \A c \in Cached(k)' : c = b
    BY Zenon, <1>1, <1>3 DEF BlockInv, Cached
  <2>2. locked'[b] \in Procs \cup {NoProc}
    BY <1>1, <1>3 DEF TypeOK, Cached
  <2>3. Contents'[k] = IF b \in valid' THEN data'[b] ELSE disk'[k]
    <3>1. (CHOOSE c \in Cached(k)' : TRUE) = b
      BY Zenon, <2>1
    <3>2. (\E c \in Cached(k)' : c \in valid') <=> b \in valid'
      BY Zenon, <2>1
    <3>3. Contents'[k] = IF \E c \in Cached(k)' : c \in valid'
                         THEN data'[CHOOSE c \in Cached(k)' : TRUE] ELSE disk'[k]
      BY Zenon DEF Contents
    <3> QED BY Zenon, <3>1, <3>2, <3>3
  <2>4. InHand(k)' = IF b \in valid' /\ locked'[b] # NoProc THEN {locked'[b]} ELSE {}
    BY <1>1, <2>1, <2>2 DEF InHand
  <2>5. Owners'[k] = IF InHand(k)' = {} THEN NoProc ELSE CHOOSE p \in InHand(k)' : TRUE
    BY Zenon DEF Owners
  <2>6. CASE b \in valid' /\ locked'[b] # NoProc
    BY Zenon, <2>3, <2>4, <2>5, <2>6
  <2>7. CASE ~ (b \in valid' /\ locked'[b] # NoProc)
    BY Zenon, <2>3, <2>4, <2>5, <2>7
  <2> QED BY Zenon, <2>6, <2>7
<1> QED BY Zenon, <1>2, <1>3

LEMMA BlockMaps ==
  /\ Contents = [j \in Blocks |-> Contents[j]] /\ Contents' = [j \in Blocks |-> Contents'[j]]
  /\ Owners = [j \in Blocks |-> Owners[j]] /\ Owners' = [j \in Blocks |-> Owners'[j]]
<1>1. Contents = [j \in Blocks |-> Contents[j]]
  BY DEF Contents
<1>2. Contents' = [j \in Blocks |-> Contents'[j]]
  BY DEF Contents
<1>3. Owners = [j \in Blocks |-> Owners[j]]
  BY DEF Owners
<1>4. Owners' = [j \in Blocks |-> Owners'[j]]
  BY DEF Owners
<1> QED BY <1>1, <1>2, <1>3, <1>4

\* A step that changes one buffer changes no block but that of the buffer.
LEMMA OneBlock ==
  ASSUME BioInv, BioInv', NEW b \in Bufs, NEW k \in Blocks, blockno[b] = k, blockno' = blockno,
         \A c \in Bufs : c # b => data'[c] = data[c] /\ locked'[c] = locked[c] /\ (c \in valid' <=> c \in valid),
         \A j \in Blocks : j # k => disk'[j] = disk[j]
  PROVE  /\ Contents[k] = IF b \in valid THEN data[b] ELSE disk[k]
         /\ Owners[k] = IF b \in valid THEN locked[b] ELSE NoProc
         /\ Contents' = [Contents EXCEPT ![k] = IF b \in valid' THEN data'[b] ELSE disk'[k]]
         /\ Owners' = [Owners EXCEPT ![k] = IF b \in valid' THEN locked'[b] ELSE NoProc]
<1>1. b \in Cached(k) /\ b \in Cached(k)' /\ \A j \in Blocks : Cached(j)' = Cached(j)
  BY Zenon DEF Cached
<1>2. ASSUME NEW j \in Blocks, j # k PROVE Contents'[j] = Contents[j] /\ Owners'[j] = Owners[j]
  <2>1. CASE Cached(j) = {}
    BY Zenon, <1>1, <1>2, <2>1, StoreNow, StoreNext
  <2>2. CASE Cached(j) # {}
    <3>1. PICK c \in Cached(j) : TRUE
      BY Zenon, <2>2
    <3>2. c \in Bufs /\ c # b
      BY Zenon, <1>2, <3>1 DEF Cached
    <3>3. data'[c] = data[c] /\ locked'[c] = locked[c] /\ (c \in valid' <=> c \in valid) /\ disk'[j] = disk[j]
      BY Zenon, <1>2, <3>2
    <3>4. /\ Contents[j] = IF c \in valid THEN data[c] ELSE disk[j]
          /\ Owners[j] = IF c \in valid THEN locked[c] ELSE NoProc
      BY Zenon, <3>1, StoreNow
    <3>5. /\ Contents'[j] = IF c \in valid' THEN data'[c] ELSE disk'[j]
          /\ Owners'[j] = IF c \in valid' THEN locked'[c] ELSE NoProc
      <4>1. c \in Cached(j)'
        BY Zenon, <1>1, <3>1
      <4> QED BY Zenon, <4>1, StoreNext
    <3> QED BY Zenon, <3>3, <3>4, <3>5
  <2> QED BY Zenon, <2>1, <2>2
<1>3. /\ Contents[k] = IF b \in valid THEN data[b] ELSE disk[k]
      /\ Owners[k] = IF b \in valid THEN locked[b] ELSE NoProc
  BY Zenon, <1>1, StoreNow
<1>4. /\ Contents'[k] = IF b \in valid' THEN data'[b] ELSE disk'[k]
      /\ Owners'[k] = IF b \in valid' THEN locked'[b] ELSE NoProc
  BY Zenon, <1>1, StoreNext
<1>5. /\ Contents = [j \in Blocks |-> Contents[j]] /\ Contents' = [j \in Blocks |-> Contents'[j]]
      /\ Owners = [j \in Blocks |-> Owners[j]] /\ Owners' = [j \in Blocks |-> Owners'[j]]
  BY Zenon, BlockMaps
<1>6. Contents' = [Contents EXCEPT ![k] = IF b \in valid' THEN data'[b] ELSE disk'[k]]
  BY Zenon, <1>2, <1>4, <1>5
<1>7. Owners' = [Owners EXCEPT ![k] = IF b \in valid' THEN locked'[b] ELSE NoProc]
  BY Zenon, <1>2, <1>4, <1>5
<1> QED BY Zenon, <1>3, <1>6, <1>7

\* What a reader finds depends on nothing else.
LEMMA SameBlocks ==
  ASSUME BioInv, BioInv', UNCHANGED <<blockno, data, valid, locked, disk>>
  PROVE  Contents' = Contents /\ Owners' = Owners
<1>1. ASSUME NEW k \in Blocks PROVE Contents'[k] = Contents[k] /\ Owners'[k] = Owners[k]
  <2>1. \A c : c \in Cached(k)' <=> c \in Cached(k)
    BY Zenon DEF Cached
  <2>2. CASE \A c : c \notin Cached(k)
    <3>1. Cached(k) = {} /\ Cached(k)' = {}
      BY Zenon, <2>1, <2>2
    <3> QED BY Zenon, <3>1, StoreNow, StoreNext
  <2>3. ASSUME NEW c \in Cached(k) PROVE Contents'[k] = Contents[k] /\ Owners'[k] = Owners[k]
    <3>1. /\ Contents[k] = IF c \in valid THEN data[c] ELSE disk[k]
          /\ Owners[k] = IF c \in valid THEN locked[c] ELSE NoProc
      BY Zenon, <2>3, StoreNow
    <3>2. /\ Contents'[k] = IF c \in valid' THEN data'[c] ELSE disk'[k]
          /\ Owners'[k] = IF c \in valid' THEN locked'[c] ELSE NoProc
      BY Zenon, <2>1, <2>3, StoreNext
    <3>3. data' = data /\ disk' = disk /\ valid' = valid /\ locked' = locked
      OBVIOUS
    <3> QED BY <3>1, <3>2, <3>3
  <2> QED BY Zenon, <2>2, <2>3
<1> QED BY Zenon, <1>1, BlockMaps

\* A function that gets the value that it has does not change.
LEMMA NoChange ==
  ASSUME NEW S, NEW f, f = [x \in S |-> f[x]], NEW k \in S
  PROVE  [f EXCEPT ![k] = f[k]] = f
OBVIOUS

\* bget() throws away a buffer without a change to any block.
LEMMA RecycleKeepsBlocks ==
  ASSUME BioInv, BioInv', NEW p \in Procs, NEW k \in Blocks, bget(p, k), bget_recycle(p, k)
  PROVE  Contents' = Contents /\ Owners' = Owners
<1>1. TypeOK /\ HandInv /\ BlockInv /\ DataInv
  BY Zenon DEF BioInv
<1>2. PICK b \in Free : blockno' = [blockno EXCEPT ![b] = k] /\ valid' = valid \ {b}
  <2>1. Free # {}
    BY Zenon DEF bget_recycle
  <2> QED BY Zenon, <1>1, <2>1, LeastRecentlyUsed DEF bget_recycle
<1>3. /\ b \in Bufs /\ refcnt[b] = 0 /\ b \notin dirty /\ Cached(k) = {}
      /\ UNCHANGED <<data, locked, disk>>
  BY Zenon, <1>2 DEF bget, bget_recycle, Free
<1>4. locked[b] = NoProc
  <2>1. Users(b) = {}
    BY Zenon, <1>1, <1>3, UsersFinite DEF BlockInv
  <2>2. locked[b] \in Procs \cup {NoProc}
    BY Zenon, <1>1, <1>3 DEF TypeOK
  <2> QED BY Zenon, <2>1, <2>2 DEF Users
<1>5. blockno'[b] = k /\ \A c \in Bufs : c # b => blockno'[c] = blockno[c]
  BY Zenon, <1>1, <1>2, <1>3 DEF TypeOK
<1>6. ASSUME NEW j \in Blocks PROVE Contents'[j] = Contents[j] /\ Owners'[j] = Owners[j]
  <2>1. CASE j = k
    <3>1. Contents[j] = disk[j] /\ Owners[j] = NoProc
      BY Zenon, <1>3, <2>1, StoreNow
    <3>2. b \in Cached(j)' /\ b \notin valid'
      BY Zenon, <1>2, <1>3, <1>5, <2>1 DEF Cached
    <3>3. Contents'[j] = disk'[j] /\ Owners'[j] = NoProc
      BY Zenon, <3>2, StoreNext
    <3> QED BY Zenon, <1>3, <3>1, <3>3
  <2>2. CASE j # k /\ blockno[b] = j
    <3>1. Contents[j] = disk[j] /\ Owners[j] = NoProc
      <4>1. b \in Cached(j)
        BY Zenon, <1>3, <2>2 DEF Cached
      <4>2. b \in valid => data[b] = disk[j]
        BY Zenon, <1>1, <1>3, <2>2 DEF DataInv
      <4> QED BY Zenon, <1>4, <4>1, <4>2, StoreNow
    <3>2. Cached(j)' = {}
      <4>1. ASSUME NEW c \in Bufs, blockno'[c] = j PROVE FALSE
        <5>1. c # b
          BY Zenon, <1>5, <2>2, <4>1
        <5>2. blockno[c] = blockno[b] /\ blockno[c] # NoBlock
          BY <1>5, <2>2, <4>1, <5>1, SizesAssumption DEF Blocks, NoBlock
        <5> QED BY Zenon, <1>1, <1>3, <5>1, <5>2 DEF BlockInv
      <4> QED BY Zenon, <4>1 DEF Cached
    <3> QED BY Zenon, <1>3, <3>1, <3>2, StoreNext
  <2>3. CASE j # k /\ blockno[b] # j
    <3>1. Cached(j)' = Cached(j)
      BY Zenon, <1>3, <1>5, <2>3 DEF Cached
    <3>2. CASE Cached(j) = {}
      BY Zenon, <1>3, <3>1, <3>2, StoreNow, StoreNext
    <3>3. CASE Cached(j) # {}
      <4>1. PICK c \in Cached(j) : TRUE
        BY Zenon, <3>3
      <4>2. c \in valid' <=> c \in valid
        BY Zenon, <1>2, <2>3, <4>1 DEF Cached
      <4>3. /\ Contents[j] = IF c \in valid THEN data[c] ELSE disk[j]
            /\ Owners[j] = IF c \in valid THEN locked[c] ELSE NoProc
        BY Zenon, <4>1, StoreNow
      <4>4. /\ Contents'[j] = IF c \in valid' THEN data'[c] ELSE disk'[j]
            /\ Owners'[j] = IF c \in valid' THEN locked'[c] ELSE NoProc
        BY Zenon, <3>1, <4>1, StoreNext
      <4> QED BY Zenon, <1>3, <4>2, <4>3, <4>4
    <3> QED BY Zenon, <3>2, <3>3
  <2> QED BY Zenon, <2>1, <2>2, <2>3
<1>7. /\ Contents = [j \in Blocks |-> Contents[j]] /\ Contents' = [j \in Blocks |-> Contents'[j]]
      /\ Owners = [j \in Blocks |-> Owners[j]] /\ Owners' = [j \in Blocks |-> Owners'[j]]
  BY Zenon, BlockMaps
<1> QED BY Zenon, <1>6, <1>7

\* Taking the lock of a buffer with data takes its block.
LEMMA AcquireTakes ==
  ASSUME BioInv, BioInv', NEW p \in Procs, acquiresleep(p)
  PROVE  \/ Contents' = Contents /\ Owners' = Owners
         \/ \E k \in Blocks : Store!Take(p, k)
<1>1. TypeOK /\ HandInv /\ BlockInv
  BY Zenon DEF BioInv
<1>2. pc[p] = "acquiresleep" /\ UNCHANGED <<data, valid, blockno, disk>>
  BY Zenon DEF acquiresleep, flagVars, cacheVars
<1>3. PICK b \in Bufs : b = buf[p]
  BY Zenon, <1>1, <1>2, HandFacts
<1>4. PICK k \in Blocks : blockno[b] = k
  <2>1. p \in Users(b)
    BY Zenon, <1>3 DEF Users
  <2> QED BY Zenon, <1>1, <2>1 DEF BlockInv, TypeOK
<1>5. CASE locked[b] # NoProc
  <2>1. locked' = locked
    BY Zenon, <1>3, <1>5 DEF acquiresleep
  <2> QED BY Zenon, <1>2, <2>1, SameBlocks
<1>6. CASE locked[b] = NoProc
  <2>1. locked' = [locked EXCEPT ![b] = p]
    BY Zenon, <1>3, <1>6 DEF acquiresleep
  <2>2. /\ blockno' = blockno /\ locked'[b] = p /\ \A j \in Blocks : j # k => disk'[j] = disk[j]
        /\ \A c \in Bufs : c # b => data'[c] = data[c] /\ locked'[c] = locked[c] /\ (c \in valid' <=> c \in valid)
    BY Zenon, <1>1, <1>2, <2>1 DEF TypeOK
  <2>3. /\ Contents[k] = IF b \in valid THEN data[b] ELSE disk[k]
        /\ Owners[k] = IF b \in valid THEN locked[b] ELSE NoProc
        /\ Contents' = [Contents EXCEPT ![k] = IF b \in valid' THEN data'[b] ELSE disk'[k]]
        /\ Owners' = [Owners EXCEPT ![k] = IF b \in valid' THEN locked'[b] ELSE NoProc]
    BY <1>4, <2>2, OneBlock
  <2>4. [Contents EXCEPT ![k] = Contents[k]] = Contents /\ [Owners EXCEPT ![k] = Owners[k]] = Owners
    BY Zenon, BlockMaps, NoChange
  <2>5. Contents' = Contents
    BY Zenon, <1>2, <2>3, <2>4
  <2>6. CASE b \in valid
    <3>1. Owners[k] = NoProc /\ Owners' = [Owners EXCEPT ![k] = p]
      BY Zenon, <1>2, <1>6, <2>2, <2>3, <2>6
    <3> QED BY Zenon, <2>5, <3>1 DEF Store!Take
  <2>7. CASE b \notin valid
    BY Zenon, <1>2, <2>3, <2>4, <2>5, <2>7
  <2> QED BY Zenon, <2>6, <2>7
<1> QED BY Zenon, <1>5, <1>6

\* Whoever changes a buffer or gives up its lock has its block in its hands.
LEMMA HolderFacts ==
  ASSUME BioInv, NEW p \in Procs, NEW b \in Bufs, pc[p] = "user", locked[b] = p
  PROVE  b \in valid /\ blockno[b] \in Blocks
<1>1. TypeOK /\ HandInv /\ BlockInv
  BY Zenon DEF BioInv
<1>2. b \in valid
  BY Zenon, <1>1, HandFacts DEF BlockInv
<1>3. blockno[b] # NoBlock /\ blockno[b] \in Blocks \cup {NoBlock}
  BY Zenon, <1>1, <1>2 DEF BlockInv, TypeOK
<1> QED BY Zenon, <1>2, <1>3

LEMMA WritePuts ==
  ASSUME BioInv, BioInv', NEW p \in Procs, NEW b \in Bufs, NEW v \in Vals,
         log_write(p, b, v) \/ bwrite(p, b, v)
  PROVE  \E k \in Blocks : Store!Put(p, k, v)
<1>1. /\ pc[p] = "user" /\ locked[b] = p /\ data' = [data EXCEPT ![b] = v]
      /\ UNCHANGED <<valid, blockno, locked, disk>>
  BY Zenon DEF log_write, bwrite, cacheVars, Held
<1>2. PICK k \in Blocks : blockno[b] = k
  BY Zenon, <1>1, HolderFacts
<1>3. b \in valid /\ data \in [Bufs -> Vals]
  BY Zenon, <1>1, HolderFacts DEF BioInv, TypeOK
<1>4. /\ blockno' = blockno /\ data'[b] = v /\ \A j \in Blocks : j # k => disk'[j] = disk[j]
      /\ \A c \in Bufs : c # b => data'[c] = data[c] /\ locked'[c] = locked[c] /\ (c \in valid' <=> c \in valid)
  BY Zenon, <1>1, <1>3
<1>5. /\ Owners[k] = IF b \in valid THEN locked[b] ELSE NoProc
      /\ Contents' = [Contents EXCEPT ![k] = IF b \in valid' THEN data'[b] ELSE disk'[k]]
      /\ Owners' = [Owners EXCEPT ![k] = IF b \in valid' THEN locked'[b] ELSE NoProc]
  BY <1>2, <1>4, OneBlock
<1>6. [Owners EXCEPT ![k] = Owners[k]] = Owners
  BY Zenon, BlockMaps, NoChange
<1>7. Owners[k] = p /\ Contents' = [Contents EXCEPT ![k] = v] /\ Owners' = Owners
  BY Zenon, <1>1, <1>3, <1>4, <1>5, <1>6
<1> QED BY Zenon, <1>7 DEF Store!Put

LEMMA ReleaseDrops ==
  ASSUME BioInv, BioInv', NEW p \in Procs, NEW b \in Bufs, releasesleep(p, b)
  PROVE  \E k \in Blocks : Store!Drop(p, k)
<1>1. /\ pc[p] = "user" /\ locked[b] = p /\ locked' = [locked EXCEPT ![b] = NoProc]
      /\ UNCHANGED <<valid, blockno, data, disk>>
  BY Zenon DEF releasesleep, cacheVars, flagVars, Held
<1>2. PICK k \in Blocks : blockno[b] = k
  BY Zenon, <1>1, HolderFacts
<1>3. b \in valid /\ locked \in [Bufs -> Procs \cup {NoProc}]
  BY Zenon, <1>1, HolderFacts DEF BioInv, TypeOK
<1>4. /\ blockno' = blockno /\ locked'[b] = NoProc /\ \A j \in Blocks : j # k => disk'[j] = disk[j]
      /\ \A c \in Bufs : c # b => data'[c] = data[c] /\ locked'[c] = locked[c] /\ (c \in valid' <=> c \in valid)
  BY Zenon, <1>1, <1>3
<1>5. /\ Contents[k] = IF b \in valid THEN data[b] ELSE disk[k]
      /\ Owners[k] = IF b \in valid THEN locked[b] ELSE NoProc
      /\ Contents' = [Contents EXCEPT ![k] = IF b \in valid' THEN data'[b] ELSE disk'[k]]
      /\ Owners' = [Owners EXCEPT ![k] = IF b \in valid' THEN locked'[b] ELSE NoProc]
  BY <1>2, <1>4, OneBlock
<1>6. [Contents EXCEPT ![k] = Contents[k]] = Contents
  BY Zenon, BlockMaps, NoChange
<1>7. Owners[k] = p /\ Owners' = [Owners EXCEPT ![k] = NoProc] /\ Contents' = Contents
  BY Zenon, <1>1, <1>3, <1>4, <1>5, <1>6
<1> QED BY Zenon, <1>7 DEF Store!Drop

(* The end of a write changes no block; the end of a read gives the block  *)
(* to the process that waits for it.                                       *)
LEMMA IntrTakes ==
  ASSUME BioInv, BioInv', ideintr
  PROVE  \/ Contents' = Contents /\ Owners' = Owners
         \/ \E p \in Procs, k \in Blocks : Store!Take(p, k)
<1>1. TypeOK /\ BlockInv
  BY Zenon DEF BioInv
<1>2. PICK p \in Procs, b \in Bufs :
        b = Head(idequeue) /\ locked[b] = p /\ blockno[b] \in Blocks /\ (b \in dirty \/ b \notin valid)
  BY Zenon, IntrFacts
<1>3. PICK k \in Blocks : blockno[b] = k
  BY Zenon, <1>2
<1>4. /\ data' = IF b \in dirty THEN data ELSE [data EXCEPT ![b] = disk[k]]
      /\ disk' = IF b \in dirty THEN [disk EXCEPT ![k] = data[b]] ELSE disk
      /\ valid' = valid \cup {b} /\ UNCHANGED <<blockno, locked>>
  BY Zenon, <1>2, <1>3 DEF ideintr, cacheVars
<1>5. /\ blockno' = blockno
      /\ \A c \in Bufs : c # b => data'[c] = data[c] /\ locked'[c] = locked[c] /\ (c \in valid' <=> c \in valid)
      /\ \A j \in Blocks : j # k => disk'[j] = disk[j]
      /\ data'[b] = IF b \in dirty THEN data[b] ELSE disk[k]
  BY Zenon, <1>1, <1>4 DEF TypeOK
<1>6. /\ Contents[k] = IF b \in valid THEN data[b] ELSE disk[k]
      /\ Owners[k] = IF b \in valid THEN locked[b] ELSE NoProc
      /\ Contents' = [Contents EXCEPT ![k] = IF b \in valid' THEN data'[b] ELSE disk'[k]]
      /\ Owners' = [Owners EXCEPT ![k] = IF b \in valid' THEN locked'[b] ELSE NoProc]
  BY <1>3, <1>5, OneBlock
<1>7. b \in valid' /\ (b \in dirty => b \in valid)
  BY Zenon, <1>1, <1>4 DEF BlockInv
<1>8. [Contents EXCEPT ![k] = Contents[k]] = Contents /\ [Owners EXCEPT ![k] = Owners[k]] = Owners
  BY Zenon, BlockMaps, NoChange
<1>9. CASE b \in dirty
  BY Zenon, <1>4, <1>5, <1>6, <1>7, <1>8, <1>9
<1>10. CASE b \notin dirty
  <2>1. Owners[k] = NoProc /\ Owners' = [Owners EXCEPT ![k] = p] /\ Contents' = Contents
    BY Zenon, <1>2, <1>4, <1>5, <1>6, <1>7, <1>8, <1>10
  <2> QED BY Zenon, <2>1 DEF Store!Take
<1> QED BY Zenon, <1>9, <1>10

(* The buffer cache implements BlockStore for any number of processes,     *)
(* buffers and blocks: bget(), brelse(), iderw() and the disk interrupt    *)
(* never change what a process finds in a block, and no two processes have *)
(* the same block in their hands.                                          *)
THEOREM CacheIsStore == Spec => StoreSpec
<1>1. Init => Store!Init
  <2> SUFFICES ASSUME Init PROVE Store!Init
    OBVIOUS
  <2>1. disk \in [Blocks -> Vals]
    BY DEF Init
  <2>2. \A k \in Blocks : Cached(k) = {}
    BY SizesAssumption DEF Init, Cached, Blocks, NoBlock
  <2>3. \A k \in Blocks : Contents[k] = disk[k] /\ Owners[k] = NoProc
    BY Zenon, <2>2, BioInvInit, StoreNow
  <2>4. Contents \in [Blocks -> Vals] /\ Owners = [k \in Blocks |-> NoProc]
    BY Zenon, <2>1, <2>3, BlockMaps
  <2> QED BY Zenon, <2>4 DEF Store!Init
<1>2. BioInv /\ BioInv' /\ [Next]_vars => [Store!Next]_<<Contents, Owners>>
  <2> SUFFICES ASSUME BioInv, BioInv', [Next]_vars PROVE [Store!Next]_<<Contents, Owners>>
    OBVIOUS
  <2>1. ASSUME UNCHANGED <<blockno, data, valid, locked, disk>> PROVE Contents' = Contents /\ Owners' = Owners
    BY Zenon, <2>1, SameBlocks
  <2>2. ASSUME NEW p \in Procs, NEW k \in Blocks, bget(p, k) PROVE Contents' = Contents /\ Owners' = Owners
    <3>1. CASE bget_recycle(p, k)
      BY Zenon, <2>2, <3>1, RecycleKeepsBlocks
    <3>2. CASE ~ bget_recycle(p, k)
      <4>1. UNCHANGED <<blockno, data, valid, locked, disk>>
        BY Zenon, <2>2, <3>2 DEF bget, bget_hit, flagVars, cacheVars
      <4> QED BY Zenon, <2>1, <4>1
    <3> QED BY Zenon, <3>1, <3>2
  <2>3. ASSUME NEW p \in Procs, brelse(p) \/ iderw(p) PROVE Contents' = Contents /\ Owners' = Owners
    <3>1. UNCHANGED <<blockno, data, valid, locked, disk>>
      BY Zenon, <2>3 DEF brelse, iderw, flagVars, cacheVars
    <3> QED BY Zenon, <2>1, <3>1
  <2>4. ASSUME NEW p \in Procs, acquiresleep(p) PROVE [Store!Next]_<<Contents, Owners>>
    BY Zenon, <2>4, AcquireTakes DEF Store!Next
  <2>5. ASSUME NEW p \in Procs, NEW b \in Bufs, NEW v \in Vals, log_write(p, b, v) \/ bwrite(p, b, v)
        PROVE  Store!Next
    BY Zenon, <2>5, WritePuts DEF Store!Next
  <2>6. ASSUME NEW p \in Procs, NEW b \in Bufs, releasesleep(p, b) PROVE Store!Next
    BY Zenon, <2>6, ReleaseDrops DEF Store!Next
  <2>7. ASSUME ideintr PROVE [Store!Next]_<<Contents, Owners>>
    BY Zenon, <2>7, IntrTakes DEF Store!Next
  <2>8. CASE UNCHANGED vars
    <3>1. UNCHANGED <<blockno, data, valid, locked, disk>>
      BY Zenon, <2>8 DEF vars, flagVars, cacheVars
    <3> QED BY Zenon, <2>1, <3>1
  <2> QED BY Zenon, <2>2, <2>3, <2>4, <2>5, <2>6, <2>7, <2>8 DEF Next
<1> QED BY <1>1, <1>2, BioInvHolds, PTL DEF Spec, StoreSpec, Store!Spec
=============================================================================
