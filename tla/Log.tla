-------------------------------- MODULE Log ---------------------------------
(***************************************************************************)
(* The write-ahead log of log.c on top of the buffer cache, with crashes.  *)
(* A disk write of one block is atomic and synchronous, as iderw() makes   *)
(* it.  Log blocks and the header are written through, so only the blocks  *)
(* of the file system have a cached copy that can differ from the disk.    *)
(***************************************************************************)
EXTENDS Integers, Sequences, FiniteSets

CONSTANTS Ops,           \* processes that run file system calls
          Blocks,        \* numbers of the blocks of the file system
          Vals,          \* contents of a block
          MAXOPBLOCKS, LOGSIZE,
          NLOG,          \* sb.nlog: blocks of the log area, the header included
          OPBLOCKS       \* the most blocks that one operation really writes

ASSUME NamesAssumption == 0 \notin Blocks /\ 0 \notin Vals
ASSUME OpBlocksAssumption == OPBLOCKS \in Nat /\ MAXOPBLOCKS \in Nat /\ OPBLOCKS <= MAXOPBLOCKS
ASSUME OpsAssumption == IsFiniteSet(Ops)
ASSUME LogSizeAssumption == LOGSIZE \in Nat /\ NLOG \in Nat /\ MAXOPBLOCKS <= LOGSIZE

VARIABLES
  home, logd, head,      \* on disk: home blocks, log blocks, log header
  cache, dirty,          \* buffers of home blocks, and those with B_DIRTY
  lh,                    \* log.lh: numbers of the blocks in the transaction
  outstanding, committing,
  pc,                    \* where each process is
  tail,                  \* loop counter of write_log and install_trans
  wrote,                 \* blocks that the operation has logged so far
  buf,                   \* block whose buffer the process holds locked
  boot                   \* how far initlog is

diskVars == <<home, logd, head>>
memVars == <<cache, dirty, lh, outstanding, committing, pc, tail, wrote, buf>>
vars == <<diskVars, memVars, boot>>

NoVal == 0
NoBlock == 0

\* What bread() returns: the cached copy, or the disk's.
Contents(b) == IF cache[b] = NoVal THEN home[b] ELSE cache[b]

Listed(s) == {s[i] : i \in DOMAIN s}
Held == {buf[p] : p \in Ops} \ {NoBlock}

\* The memory of a machine that has just started.
FreshMemory(c, d, l, out, com, pp, t, w, bb) ==
  /\ c = [b \in Blocks |-> NoVal] /\ d = {}
  /\ l = << >> /\ out = 0 /\ com = FALSE /\ t = 1
  /\ pp = [p \in Ops |-> "idle"]
  /\ w = [p \in Ops |-> {}]
  /\ bb = [p \in Ops |-> NoBlock]

Init ==
  /\ home \in [Blocks -> Vals]
  /\ logd \in {[i \in 1..LOGSIZE |-> v] : v \in Vals}
  /\ head = << >>
  /\ FreshMemory(cache, dirty, lh, outstanding, committing, pc, tail, wrote, buf)
  /\ boot = "read"

\* The machine has booted and no cpu has panicked.
Up == boot = "up" /\ \A p \in Ops : pc[p] # "panic"
At(p, pt) == Up /\ pc[p] = pt
Goto(p, pt) == pc' = [pc EXCEPT ![p] = pt]

\* wakeup(&log), while process p moves on to pt.
WakeupAnd(p, pt) ==
  pc' = [q \in Ops |-> IF q = p THEN pt ELSE IF pc[q] = "asleep" THEN "begin" ELSE pc[q]]
-----------------------------------------------------------------------------
call(p) ==
  /\ At(p, "idle")
  /\ Goto(p, "begin")
  /\ UNCHANGED <<diskVars, cache, dirty, lh, outstanding, committing, tail, wrote, buf, boot>>

\* Faulty: the operation that begins has no space reserved.
begin_op_unreserved(p) ==
  /\ At(p, "begin")
  /\ IF committing \/ Len(lh) + outstanding * MAXOPBLOCKS > LOGSIZE
     THEN Goto(p, "asleep") /\ UNCHANGED <<outstanding, wrote>>
     ELSE /\ Goto(p, "op")
          /\ outstanding' = outstanding + 1
          /\ wrote' = [wrote EXCEPT ![p] = {}]
  /\ UNCHANGED <<diskVars, cache, dirty, lh, committing, tail, buf, boot>>

\* begin_op(): wait for a commit to end and for space, or join the transaction.
begin_op(p) ==
  /\ At(p, "begin")
  /\ IF committing \/ Len(lh) + (outstanding + 1) * MAXOPBLOCKS > LOGSIZE
     THEN Goto(p, "asleep") /\ UNCHANGED <<outstanding, wrote>>
     ELSE /\ Goto(p, "op")
          /\ outstanding' = outstanding + 1
          /\ wrote' = [wrote EXCEPT ![p] = {}]
  /\ UNCHANGED <<diskVars, cache, dirty, lh, committing, tail, buf, boot>>

(* An operation changes block b: it holds the buffer from bread() on, and  *)
(* log_write() tests the limits before it takes the lock.                  *)
log_write_check(p, b) ==
  /\ At(p, "op")
  /\ b \notin Held
  /\ Cardinality(wrote[p] \cup {b}) <= OPBLOCKS
  /\ cache' = [cache EXCEPT ![b] = Contents(b)]
  /\ buf' = [buf EXCEPT ![p] = b]
  /\ Goto(p, IF Len(lh) >= LOGSIZE \/ Len(lh) >= NLOG - 1 \/ outstanding < 1
             THEN "panic" ELSE "write")
  /\ UNCHANGED <<diskVars, dirty, lh, outstanding, committing, tail, wrote, boot>>

\* The rest of log_write(): enter the block once and keep the buffer cached.
log_write(p, v) ==
  LET b == buf[p]
  IN /\ At(p, "write")
     /\ cache' = [cache EXCEPT ![b] = v]
     /\ lh' = IF b \in Listed(lh) THEN lh ELSE Append(lh, b)
     /\ dirty' = dirty \cup {b}
     /\ wrote' = [wrote EXCEPT ![p] = @ \cup {b}]
     /\ buf' = [buf EXCEPT ![p] = NoBlock]
     /\ Goto(p, "op")
     /\ UNCHANGED <<diskVars, outstanding, committing, tail, boot>>

(* end_op(): the last operation commits; another one gives its reservation *)
(* back and wakes those who wait for space.                                *)
end_op(p) ==
  /\ At(p, "op")
  /\ outstanding' = outstanding - 1
  /\ IF committing
     THEN Goto(p, "panic") /\ UNCHANGED committing
     ELSE IF outstanding = 1
          THEN Goto(p, "commit") /\ committing' = TRUE
          ELSE WakeupAnd(p, "idle") /\ UNCHANGED committing
  /\ UNCHANGED <<diskVars, cache, dirty, lh, tail, wrote, buf, boot>>
-----------------------------------------------------------------------------
commitRest == <<cache, dirty, lh, outstanding, committing, wrote, buf, boot>>

\* Faulty: a transaction of one block is taken for an empty one.
commit_more_than_one(p) ==
  /\ At(p, "commit")
  /\ Goto(p, IF Len(lh) <= 1 THEN "committed" ELSE "write_log")
  /\ tail' = 1
  /\ UNCHANGED <<diskVars, commitRest>>
\* commit(): an empty transaction needs no disk write.
commit(p) ==
  /\ At(p, "commit")
  /\ Goto(p, IF lh = << >> THEN "committed" ELSE "write_log")
  /\ tail' = 1
  /\ UNCHANGED <<diskVars, commitRest>>

\* Faulty: the loop counter does not move.
write_log_stuck(p) ==
  /\ At(p, "write_log")
  /\ logd' = [logd EXCEPT ![tail] = Contents(lh[tail])]
  /\ Goto(p, IF tail = Len(lh) THEN "write_head" ELSE "write_log")
  /\ UNCHANGED <<home, head, tail, commitRest>>
\* write_log(): one block from the cache to the log.
write_log(p) ==
  /\ At(p, "write_log")
  /\ logd' = [logd EXCEPT ![tail] = Contents(lh[tail])]
  /\ tail' = tail + 1
  /\ Goto(p, IF tail = Len(lh) THEN "write_head" ELSE "write_log")
  /\ UNCHANGED <<home, head, commitRest>>

write_head(p) ==
  /\ At(p, "write_head")
  /\ head' = lh
  /\ tail' = 1
  /\ Goto(p, "install")
  /\ UNCHANGED <<home, logd, commitRest>>

\* One round of install_trans(): copy a log block to its home.
InstallOne ==
  /\ home' = [home EXCEPT ![lh[tail]] = logd[tail]]
  /\ cache' = [cache EXCEPT ![lh[tail]] = logd[tail]]
  /\ dirty' = dirty \ {lh[tail]}
  /\ tail' = tail + 1
  /\ UNCHANGED <<logd, head, lh, outstanding, committing, wrote, buf>>

install_trans(p) ==
  /\ At(p, "install")
  /\ InstallOne
  /\ Goto(p, IF tail = Len(lh) THEN "clear" ELSE "install")
  /\ UNCHANGED boot

\* Erase the transaction: log.lh.n = 0 and write_head() again.
ClearHead ==
  /\ lh' = << >>
  /\ head' = << >>
  /\ tail' = 1
  /\ UNCHANGED <<home, logd, cache, dirty, outstanding, committing, wrote, buf>>

clear(p) == At(p, "clear") /\ ClearHead /\ Goto(p, "committed") /\ UNCHANGED boot

\* Faulty: the sleepers in begin_op() are not woken.
end_commit_silent(p) ==
  /\ At(p, "committed")
  /\ committing' = FALSE
  /\ Goto(p, "idle")
  /\ UNCHANGED <<diskVars, cache, dirty, lh, outstanding, tail, wrote, buf, boot>>
\* The end of end_op().
end_commit(p) ==
  /\ At(p, "committed")
  /\ committing' = FALSE
  /\ WakeupAnd(p, "idle")
  /\ UNCHANGED <<diskVars, cache, dirty, lh, outstanding, tail, wrote, buf, boot>>
-----------------------------------------------------------------------------
\* recover_from_log(), run by initlog() before the first operation.
read_head ==
  /\ boot = "read"
  /\ lh' = head
  /\ tail' = 1
  /\ boot' = IF head = << >> THEN "clear" ELSE "install"
  /\ UNCHANGED <<diskVars, cache, dirty, outstanding, committing, pc, wrote, buf>>

recover_install ==
  /\ boot = "install"
  /\ InstallOne
  /\ boot' = IF tail = Len(lh) THEN "clear" ELSE "install"
  /\ UNCHANGED pc

recover_clear == boot = "clear" /\ ClearHead /\ boot' = "up" /\ UNCHANGED pc

\* The buffer cache: bread() of a block, and bget() recycling its buffer.
bread(b) ==
  /\ Up
  /\ cache[b] = NoVal
  /\ cache' = [cache EXCEPT ![b] = home[b]]
  /\ UNCHANGED <<diskVars, dirty, lh, outstanding, committing, pc, tail, wrote, buf, boot>>

\* Faulty: a buffer that the log pins is recycled.
recycle_dirty(b) ==
  /\ Up
  /\ cache[b] # NoVal /\ b \notin Held
  /\ cache' = [cache EXCEPT ![b] = NoVal]
  /\ UNCHANGED <<diskVars, dirty, lh, outstanding, committing, pc, tail, wrote, buf, boot>>
recycle(b) ==
  /\ Up
  /\ cache[b] # NoVal /\ b \notin dirty /\ b \notin Held
  /\ cache' = [cache EXCEPT ![b] = NoVal]
  /\ UNCHANGED <<diskVars, dirty, lh, outstanding, committing, pc, tail, wrote, buf, boot>>

crash ==
  /\ FreshMemory(cache', dirty', lh', outstanding', committing', pc', tail', wrote', buf')
  /\ boot' = "read"
  /\ UNCHANGED diskVars
-----------------------------------------------------------------------------
Step(p) ==
  \/ begin_op(p) \/ end_op(p) \/ commit(p) \/ write_log(p)
  \/ write_head(p) \/ install_trans(p) \/ clear(p) \/ end_commit(p)

Next ==
  \/ \E p \in Ops : \/ call(p) \/ Step(p)
                    \/ \E b \in Blocks : log_write_check(p, b)
                    \/ \E v \in Vals : log_write(p, v)
  \/ read_head \/ recover_install \/ recover_clear
  \/ \E b \in Blocks : bread(b) \/ recycle(b)
  \/ crash

Spec == Init /\ [][Next]_vars

(* A process that is not asleep gets on with its system call: it finishes  *)
(* a write it has begun and, after finitely many, ends its operation.      *)
Fairness ==
  \A p \in Ops : /\ WF_vars(Step(p)) /\ SF_vars(end_op(p))
                 /\ WF_vars(\E v \in Vals : log_write(p, v))

LiveSpec == Spec /\ Fairness
-----------------------------------------------------------------------------
Places == {"idle", "begin", "asleep", "op", "write", "panic", "commit", "write_log",
           "write_head", "install", "clear", "committed"}

\* Every variable has its type, and the loop counter stays within the log.
TypeOK ==
  /\ home \in [Blocks -> Vals]
  /\ logd \in [1..LOGSIZE -> Vals]
  /\ head \in Seq(Blocks) /\ lh \in Seq(Blocks)
  /\ cache \in [Blocks -> Vals \cup {NoVal}]
  /\ dirty \in SUBSET Blocks
  /\ outstanding \in Nat
  /\ committing \in BOOLEAN
  /\ pc \in [Ops -> Places]
  /\ tail \in 1..(LOGSIZE + 1)
  /\ wrote \in [Ops -> SUBSET Blocks]
  /\ buf \in [Ops -> Blocks \cup {NoBlock}]
  /\ boot \in {"read", "install", "clear", "up"}

(* What a reboot would find: the home blocks, overlaid by the log blocks   *)
(* of a committed transaction.                                             *)
Recovered ==
  [b \in Blocks |-> IF b \in Listed(head)
                    THEN logd[CHOOSE i \in DOMAIN head : head[i] = b] ELSE home[b]]

\* What the system sees; nobody looks before recovery is over.
Current == IF boot = "up" THEN [b \in Blocks |-> Contents(b)] ELSE Recovered

Active == {p \in Ops : pc[p] \in {"op", "write", "panic"}}

(* The log implements AtomicDisk: writing the header is the commit point,  *)
(* commits happen only between operations, and a crash at any moment, in   *)
(* commit() or in recovery included, loses or keeps whole operations.      *)
Atomic == INSTANCE AtomicDisk
            WITH stable <- Recovered,
                 current <- Current,
                 active <- Active
AtomicSpec == Atomic!Spec

(* The reservation of begin_op() is enough: log_write() never finds the    *)
(* log full, and end_op() never finds a commit going on.                   *)
NoPanic == \A p \in Ops : pc[p] # "panic"

(* Whoever sleeps in begin_op() will be woken: a commit is going on or an  *)
(* operation is in progress, and both end in wakeup(&log).                 *)
SleepersWoken ==
  (\E p \in Ops : pc[p] = "asleep") => committing \/ outstanding > 0

(* When the last operation has ended and its commit is over, everything it *)
(* wrote is in its home place and the log is empty.                        *)
QuietIsDurable ==
  boot = "up" /\ outstanding = 0 /\ ~committing =>
    head = << >> /\ lh = << >> /\ \A b \in Blocks : Contents(b) = home[b]

\* A system call that waits in begin_op() is woken up again.
EventuallyAwake == \A p \in Ops : pc[p] = "asleep" ~> pc[p] # "asleep"
=============================================================================
