--------------------------------- MODULE Bio --------------------------------
(***************************************************************************)
(* The buffer cache of bio.c, the sleep locks of its buffers and the       *)
(* request queue of the IDE driver, with its interrupt.                    *)
(*                                                                         *)
(* Callers nest bread() in a fixed order of the blocks (the log block      *)
(* before the home block, the indirect block before the bitmap), so here a *)
(* process only asks for a block above those that it holds.                *)
(***************************************************************************)
EXTENDS Integers, Sequences, FiniteSets, Functions

CONSTANTS Procs, Bufs,
          NBLOCKS,   \* blocks of the disk, in the order in which callers nest them
          Vals,
          MAXHELD,   \* bound: buffers that a caller holds at the same time
          MAXPINNED, \* bound: buffers that the log keeps in the cache
          Written    \* bound: blocks that callers change

Blocks == 1..NBLOCKS
NoBlock == 0
NoProc == 0
NoBuf == 0

ASSUME NamesAssumption == 0 \notin Procs \cup Bufs
ASSUME FiniteAssumption == IsFiniteSet(Procs) /\ IsFiniteSet(Bufs)
ASSUME SizesAssumption == NBLOCKS \in Nat /\ MAXHELD \in Nat \ {0} /\ MAXPINNED \in Nat /\ Written \subseteq Blocks

VARIABLES
  blockno, data, refcnt,
  valid, dirty,      \* buffers with B_VALID, with B_DIRTY
  lru,               \* bcache.head: the most recently used buffer first
  locked,            \* who holds the sleep lock of a buffer
  idequeue,          \* buffers waiting for the disk; it works on the first one
  disk,
  pc, buf            \* where a process is, and the buffer it is working with

flagVars == <<valid, dirty>>
cacheVars == <<blockno, refcnt, lru>>
vars == <<data, flagVars, cacheVars, locked, idequeue, disk, pc, buf>>

Held(p) == {b \in Bufs : locked[b] = p}

\* binit(), and a disk that has just been made.
Init ==
  /\ blockno = [b \in Bufs |-> NoBlock] /\ refcnt = [b \in Bufs |-> 0]
  /\ \E v \in Vals : data = [b \in Bufs |-> v] /\ disk = [k \in Blocks |-> v]
  /\ valid = {} /\ dirty = {}
  /\ lru \in Bijection(1..Cardinality(Bufs), Bufs)
  /\ locked = [b \in Bufs |-> NoProc]
  /\ idequeue = <<>>
  /\ pc = [p \in Procs |-> "user"] /\ buf = [p \in Procs |-> NoBuf]

Goto(p, place) == pc' = [pc EXCEPT ![p] = place]
Work(p, b) == buf' = [buf EXCEPT ![p] = b]

\* wakeup(): the processes that sleep at a place for buffer b go on elsewhere.
Wakeup(b, from, to) ==
  [p \in Procs |-> IF pc[p] = from /\ buf[p] = b THEN to ELSE pc[p]]
-----------------------------------------------------------------------------
Cached(k) == {b \in Bufs : blockno[b] = k}

\* Faulty: a buffer that the log has modified and not committed is recycled.
Free_dirty == {b \in Bufs : refcnt[b] = 0}

\* Faulty: only the least recently used buffer is looked at.
Free_last == {b \in Bufs : refcnt[b] = 0 /\ b \notin dirty /\ b = lru[Len(lru)]}

Free == {b \in Bufs : refcnt[b] = 0 /\ b \notin dirty}

\* Faulty: the buffer that is found is not counted as in use.
bget_hit_uncounted(p, k) ==
  \E b \in Cached(k) :
    /\ Work(p, b) /\ Goto(p, "acquiresleep")
    /\ UNCHANGED <<flagVars, cacheVars>>

bget_hit(p, k) ==
  \E b \in Cached(k) :
    /\ refcnt' = [refcnt EXCEPT ![b] = @ + 1]
    /\ Work(p, b) /\ Goto(p, "acquiresleep")
    /\ UNCHANGED <<flagVars, blockno, lru>>

\* The least recently used free buffer gets the block.
bget_recycle(p, k) ==
  /\ Cached(k) = {} /\ Free # {}
  /\ LET b == lru[CHOOSE i \in DOMAIN lru :
                    lru[i] \in Free /\ \A j \in DOMAIN lru : lru[j] \in Free => j <= i]
     IN /\ blockno' = [blockno EXCEPT ![b] = k]
        /\ refcnt' = [refcnt EXCEPT ![b] = 1]
        /\ valid' = valid \ {b} /\ dirty' = dirty \ {b}
        /\ Work(p, b)
  /\ Goto(p, "acquiresleep")
  /\ UNCHANGED lru

bget(p, k) ==
  /\ pc[p] = "user"
  /\ Cardinality(Held(p)) < MAXHELD /\ \A b \in Held(p) : blockno[b] < k
  /\ \/ bget_hit(p, k)
     \/ bget_recycle(p, k)
     \/ /\ Cached(k) = {} /\ Free = {}
        /\ Goto(p, "panic") /\ UNCHANGED <<flagVars, cacheVars, buf>>
  /\ UNCHANGED <<data, locked, idequeue, disk>>

(* acquiresleep(), called by bget(); then bread() reads the block unless   *)
(* the buffer has it.                                                      *)
acquiresleep(p) ==
  /\ pc[p] = "acquiresleep"
  /\ IF locked[buf[p]] # NoProc
     THEN Goto(p, "sleep_lock") /\ UNCHANGED <<locked, buf>>
     ELSE /\ locked' = [locked EXCEPT ![buf[p]] = p]
          /\ IF buf[p] \in valid THEN Goto(p, "user") /\ Work(p, NoBuf)
                                 ELSE Goto(p, "iderw") /\ UNCHANGED buf
  /\ UNCHANGED <<data, flagVars, cacheVars, idequeue, disk>>

\* log_write(): the block is changed in the cache, and pinned there by B_DIRTY.
log_write(p, b, v) ==
  /\ pc[p] = "user" /\ b \in Held(p) /\ blockno[b] \in Written
  /\ Cardinality(dirty \cup {b}) <= MAXPINNED
  /\ data' = [data EXCEPT ![b] = v]
  /\ dirty' = dirty \cup {b}
  /\ UNCHANGED <<valid, cacheVars, locked, idequeue, disk, pc, buf>>

bwrite(p, b, v) ==
  /\ pc[p] = "user" /\ b \in Held(p) /\ blockno[b] \in Written
  /\ data' = [data EXCEPT ![b] = v]
  /\ dirty' = dirty \cup {b}
  /\ Work(p, b) /\ Goto(p, "iderw")
  /\ UNCHANGED <<valid, cacheVars, locked, idequeue, disk>>

\* Faulty: nobody who waits for the lock is told.
releasesleep_silent(p, b) ==
  /\ pc[p] = "user" /\ b \in Held(p)
  /\ locked' = [locked EXCEPT ![b] = NoProc]
  /\ Goto(p, "brelse") /\ Work(p, b)
  /\ UNCHANGED <<data, flagVars, cacheVars, idequeue, disk>>

\* brelse() gives up the lock with its own spin lock ...
releasesleep(p, b) ==
  /\ pc[p] = "user" /\ b \in Held(p)
  /\ locked' = [locked EXCEPT ![b] = NoProc]
  /\ pc' = [Wakeup(b, "sleep_lock", "acquiresleep") EXCEPT ![p] = "brelse"]
  /\ Work(p, b)
  /\ UNCHANGED <<data, flagVars, cacheVars, idequeue, disk>>

\* The buffer is taken out of the list and put in at its head; those before it move back.
MoveToFront(b) ==
  LET i == CHOOSE j \in DOMAIN lru : lru[j] = b
  IN [j \in DOMAIN lru |-> IF j = 1 THEN b ELSE IF j <= i THEN lru[j - 1] ELSE lru[j]]

\* ... and the reference with the lock of the cache.
brelse(p) ==
  /\ pc[p] = "brelse"
  /\ refcnt' = [refcnt EXCEPT ![buf[p]] = @ - 1]
  /\ lru' = IF refcnt[buf[p]] = 1 THEN MoveToFront(buf[p]) ELSE lru
  /\ Goto(p, "user") /\ Work(p, NoBuf)
  /\ UNCHANGED <<data, flagVars, blockno, locked, idequeue, disk>>
-----------------------------------------------------------------------------
(* iderw() panics for a buffer without its lock and for one with nothing   *)
(* to do.  Any other request is queued; idestart() is called for the first *)
(* one.                                                                    *)
iderw(p) ==
  /\ pc[p] = "iderw"
  /\ IF locked[buf[p]] # p \/ buf[p] \in valid \ dirty
     THEN Goto(p, "panic") /\ UNCHANGED idequeue
     ELSE Goto(p, "sleep_disk") /\ idequeue' = Append(idequeue, buf[p])
  /\ UNCHANGED <<data, flagVars, cacheVars, locked, disk, buf>>

(* The disk has finished the first request: ideintr() takes it off the     *)
(* queue, marks it and wakes its process, which finds its buffer done.     *)
ideintr ==
  /\ idequeue # <<>>
  /\ LET b == Head(idequeue) IN
       /\ data' = IF b \in dirty THEN data ELSE [data EXCEPT ![b] = disk[blockno[b]]]
       /\ disk' = IF b \in dirty THEN [disk EXCEPT ![blockno[b]] = data[b]] ELSE disk
       /\ valid' = valid \cup {b} /\ dirty' = dirty \ {b}
       /\ pc' = Wakeup(b, "sleep_disk", "user")
       /\ buf' = [p \in Procs |-> IF pc[p] = "sleep_disk" /\ buf[p] = b THEN NoBuf ELSE buf[p]]
  /\ idequeue' = Tail(idequeue)
  /\ UNCHANGED <<cacheVars, locked>>

Next ==
  \/ \E p \in Procs :
       \/ \E k \in Blocks : bget(p, k)
       \/ \E b \in Bufs : releasesleep(p, b)
       \/ \E b \in Bufs, v \in Vals : log_write(p, b, v) \/ bwrite(p, b, v)
       \/ acquiresleep(p) \/ iderw(p) \/ brelse(p)
  \/ ideintr

Spec == Init /\ [][Next]_vars
-----------------------------------------------------------------------------
Places == {"user", "acquiresleep", "sleep_lock", "iderw", "sleep_disk", "brelse", "panic"}

\* Every buffer, list, lock and place in the code has the shape that bio.c and ide.c give it.
TypeOK ==
  /\ blockno \in [Bufs -> Blocks \cup {NoBlock}]
  /\ data \in [Bufs -> Vals] /\ disk \in [Blocks -> Vals]
  /\ refcnt \in [Bufs -> Nat]
  /\ valid \subseteq Bufs /\ dirty \subseteq Bufs
  /\ lru \in Seq(Bufs) /\ Range(lru) = Bufs /\ Len(lru) = Cardinality(Bufs)
  /\ locked \in [Bufs -> Procs \cup {NoProc}]
  /\ idequeue \in Seq(Bufs)
  /\ pc \in [Procs -> Places]
  /\ buf \in [Procs -> Bufs \cup {NoBuf}]

Users(b) == {p \in Procs : locked[b] = p \/ (buf[p] = b)}

(* refcnt counts the processes that hold, wait for or are giving up the    *)
(* buffer, so that bget() never recycles one in use, and a block is never  *)
(* in two buffers.                                                         *)
RefInv ==
  /\ TypeOK
  /\ \A b \in Bufs : refcnt[b] = Cardinality(Users(b))
  /\ \A a, b \in Bufs : blockno[a] = blockno[b] /\ blockno[a] # NoBlock => a = b

(* Whoever sleeps is woken.  A process that waits for the lock of a buffer *)
(* has a holder to wake it.  The disk queue holds exactly the buffers      *)
(* whose processes sleep in iderw(), each once and locked by its process:  *)
(* no request is forgotten, no interrupt wakes the wrong process.          *)
NoLostWakeup ==
  /\ \A p \in Procs : pc[p] = "sleep_lock" => locked[buf[p]] \notin {NoProc, p}
  /\ IsInjective(idequeue)
  /\ \A b \in Bufs : b \in Range(idequeue) <=>
       \E p \in Procs : locked[b] = p /\ buf[p] = b /\ pc[p] = "sleep_disk"
  /\ \A p \in Procs : pc[p] = "sleep_disk" => locked[buf[p]] = p

(* bget() panics only when the cache is really full: every buffer is in    *)
(* the hands of a process or still has to be written.  No buffer is lost   *)
(* to a count that nobody takes back, and iderw() never panics.            *)
PanicsWhenFull ==
  [][\A p \in Procs : pc[p] # "panic" /\ pc'[p] = "panic" =>
       /\ pc[p] = "user"
       /\ \A b \in Bufs : Users(b) # {} \/ b \in dirty]_vars

InHand(k) == {p \in Procs : \E b \in Cached(k) : locked[b] = p /\ b \in valid}

\* What a reader finds in each block, and who has it in its hands.
Contents == [k \in Blocks |-> IF \E b \in Cached(k) : b \in valid
                              THEN data[CHOOSE b \in Cached(k) : TRUE] ELSE disk[k]]
Owners == [k \in Blocks |-> IF InHand(k) = {} THEN NoProc ELSE CHOOSE p \in InHand(k) : TRUE]

(* The buffer cache with its disk implements BlockStore: recycling,        *)
(* reading and writing back never change what a process finds in a block.  *)
Store == INSTANCE BlockStore WITH content <- Contents, owner <- Owners
StoreSpec == Store!Spec
=============================================================================
