------------------------------ MODULE UThread -------------------------------
(***************************************************************************)
(* The thread library of uthread.c over the futexes of proc.c: mutexes and *)
(* condition variables, driven by the bounded buffer of threadtest.c, and  *)
(* the table of threads with the main thread that creates and joins them.  *)
(*                                                                         *)
(* A futex is keyed on the physical address of its word.  A page that is   *)
(* still shared with a forked child gets a new frame at the first store.   *)
(***************************************************************************)
EXTENDS Integers, FiniteSets, FiniteSetsExt

CONSTANTS NTHREAD,      \* threads of the process, in the order of ptable
          Producers,
          NITEMS, BUFSZ,
          MAXTHREADS    \* slots of the library

Threads == 1..NTHREAD
Conds == {"notempty", "notfull"}
Words == Conds \cup {"qlock"}

Consumers == Threads \ Producers

ASSUME ThreadsAssumption == NTHREAD \in Nat \ {0} /\ Producers \subseteq Threads
ASSUME ItemsAssumption == NITEMS \in Nat /\ BUFSZ \in Nat \ {0}
ASSUME SlotsAssumption == MAXTHREADS \in Nat \ {0}

Slots == 1..MAXTHREADS
NoThread == 0

VARIABLES
  val,              \* the words: mutex.locked and cond.seq
  frame,            \* the frame of the page of each word; "old" is shared with a child
  pc,
  word, expected,   \* arguments of futex_wait
  chan,             \* the channel a thread sleeps on
  seq,              \* c->seq as cond_signal has read it
  all,              \* cond_broadcast instead of cond_signal
  qcount, count,    \* the buffer's count, and a thread's copy in a register
  todo,             \* items that a thread has still to move
  slots,            \* whose stack a slot holds
  main, new         \* where the main thread is, and the thread it is creating

futexVars == <<val, frame, chan>>
waitVars == <<word, expected>>
signalVars == <<seq, all>>
queueVars == <<qcount, count, todo>>
mainVars == <<slots, main, new>>
vars == <<futexVars, pc, waitVars, signalVars, queueVars, mainVars>>

NoChan == <<"none", "none">>
Channel(w) == <<w, frame[w]>>   \* uva2pa()

\* Every producer makes NITEMS items, and the consumers share them.
Share(t) == IF t \in Producers THEN NITEMS
            ELSE (NITEMS * Cardinality(Producers)) \div Cardinality(Consumers)

Init ==
  /\ val = [w \in Words |-> 0]
  /\ frame \in [Words -> {"old", "own"}]
  /\ pc = [t \in Threads |-> "none"]
  /\ word = [t \in Threads |-> "qlock"] /\ expected = [t \in Threads |-> 1]
  /\ chan = [t \in Threads |-> NoChan]
  /\ seq = [t \in Threads |-> 0] /\ all = [t \in Threads |-> FALSE]
  /\ qcount = 0 /\ count = [t \in Threads |-> 0]
  /\ todo = [t \in Threads |-> Share(t)]
  /\ slots = [s \in Slots |-> NoThread] /\ main = "create" /\ new = NoThread

Goto(t, place) == pc' = [pc EXCEPT ![t] = place]
Store(w, x) == val' = [val EXCEPT ![w] = x] /\ frame' = [frame EXCEPT ![w] = "own"]

\* What a thread of the test waits for, and whom it wakes when it is done.
Ready(t) == IF t \in Producers THEN qcount # BUFSZ ELSE qcount # 0
Waits(t) == IF t \in Producers THEN "notfull" ELSE "notempty"
Wakes(t) == IF t \in Producers THEN "notempty" ELSE "notfull"
-----------------------------------------------------------------------------
\* futex_wait(): a first look at the word without the lock of the process table ...
futex_wait(t) ==
  /\ pc[t] = "futex_wait"
  /\ Goto(t, IF val[word[t]] = expected[t] THEN "futex_sleep" ELSE "mutex_lock")
  /\ chan' = [chan EXCEPT ![t] = IF val[word[t]] = expected[t] THEN Channel(word[t]) ELSE NoChan]
  /\ UNCHANGED <<val, frame, waitVars, signalVars, queueVars>>

\* Faulty: the word is not looked at again.
futex_sleep_unchecked(t) ==
  /\ pc[t] = "futex_sleep"
  /\ Goto(t, "asleep")
  /\ UNCHANGED <<futexVars, waitVars, signalVars, queueVars>>

(* ... and a second one with the lock.  The channel is the physical        *)
(* address found in between.  Whoever sleeps has a mutex to take next, in  *)
(* mutex_lock() and in cond_wait() alike.                                  *)
futex_sleep(t) ==
  /\ pc[t] = "futex_sleep"
  /\ IF val[word[t]] = expected[t]
     THEN Goto(t, "asleep") /\ UNCHANGED chan
     ELSE Goto(t, "mutex_lock") /\ chan' = [chan EXCEPT ![t] = NoChan]
  /\ UNCHANGED <<val, frame, waitVars, signalVars, queueVars>>

Sleepers(w) == {u \in Threads : pc[u] = "asleep" /\ chan[u] = Channel(w)}

(* futex_wake(): the first sleeper in the order of the table, or all of    *)
(* them; the caller goes on at next.                                       *)
futex_wake(t, w, every, next) ==
  LET woken == IF every \/ Sleepers(w) = {} THEN Sleepers(w) ELSE {Min(Sleepers(w))} IN
  /\ pc' = [u \in Threads |-> IF u = t THEN next ELSE IF u \in woken THEN "mutex_lock" ELSE pc[u]]
  /\ chan' = [u \in Threads |-> IF u \in woken THEN NoChan ELSE chan[u]]
-----------------------------------------------------------------------------
mutex_lock(t) ==
  /\ pc[t] = "mutex_lock"
  /\ Store("qlock", 1)
  /\ Goto(t, IF val["qlock"] = 0 THEN "locked" ELSE "futex_wait")
  /\ word' = [word EXCEPT ![t] = "qlock"] /\ expected' = [expected EXCEPT ![t] = 1]
  /\ UNCHANGED <<chan, signalVars, queueVars>>

\* Faulty: the old value of the word is not looked at.
mutex_trylock_any(t) ==
  /\ pc[t] = "start" /\ todo[t] > 0
  /\ Store("qlock", 1)
  /\ Goto(t, "locked")
  /\ UNCHANGED <<chan, waitVars, signalVars, queueVars>>
\* A thread that does not get the mutex at once falls back to mutex_lock().
mutex_trylock(t) ==
  /\ pc[t] = "start" /\ todo[t] > 0
  /\ Store("qlock", 1)
  /\ Goto(t, IF val["qlock"] = 0 THEN "locked" ELSE "mutex_lock")
  /\ UNCHANGED <<chan, waitVars, signalVars, queueVars>>

(* mutex_unlock() frees the mutex and then wakes one waiter.  The caller   *)
(* goes on with the rest of cond_wait() or of its loop.                    *)
mutex_unlock(t) ==
  /\ pc[t] \in {"unlock", "wait_unlock"}
  /\ Store("qlock", 0)
  /\ Goto(t, IF pc[t] = "unlock" THEN "unlock_wake" ELSE "wait_wake")
  /\ UNCHANGED <<chan, waitVars, signalVars, queueVars>>

unlock_wake(t) ==
  /\ pc[t] \in {"unlock_wake", "wait_wake"}
  /\ futex_wake(t, "qlock", FALSE,
        IF pc[t] = "wait_wake" THEN "futex_wait" ELSE "start")
  /\ UNCHANGED <<val, frame, waitVars, signalVars, queueVars>>

cond_wait(t) ==
  /\ pc[t] = "locked" /\ ~Ready(t)
  /\ Goto(t, "wait_unlock")
  /\ word' = [word EXCEPT ![t] = Waits(t)]
  /\ expected' = [expected EXCEPT ![t] = val[Waits(t)]]
  /\ UNCHANGED <<futexVars, signalVars, queueVars>>

(* cond_signal() and cond_broadcast(): c->seq is read, one more is stored, *)
(* and then one sleeper, or every one, is woken.                           *)
cond_signal(t) ==
  /\ pc[t] = "signal"
  /\ seq' = [seq EXCEPT ![t] = val[Wakes(t)]]
  /\ \E b \in BOOLEAN : all' = [all EXCEPT ![t] = b]
  /\ Goto(t, "bump")
  /\ UNCHANGED <<futexVars, waitVars, queueVars>>

\* Faulty: the sequence number stays.
signal_bump_forgotten(t) ==
  /\ pc[t] = "bump"
  /\ Goto(t, "signal_wake")
  /\ UNCHANGED <<futexVars, waitVars, signalVars, queueVars>>
signal_bump(t) ==
  /\ pc[t] = "bump"
  /\ Store(Wakes(t), seq[t] + 1)
  /\ Goto(t, "signal_wake")
  /\ UNCHANGED <<chan, waitVars, signalVars, queueVars>>

signal_wake(t) ==
  /\ pc[t] = "signal_wake"
  /\ futex_wake(t, Wakes(t), all[t], "unlock")
  /\ seq' = [seq EXCEPT ![t] = 0] /\ all' = [all EXCEPT ![t] = FALSE]   \* dead
  /\ UNCHANGED <<val, frame, waitVars, queueVars>>
-----------------------------------------------------------------------------
\* The loops of producer() and consumer() in threadtest.c.
start(t) ==
  /\ pc[t] = "start"
  /\ Goto(t, IF todo[t] = 0 THEN "done" ELSE "mutex_lock")
  /\ UNCHANGED <<futexVars, waitVars, signalVars, queueVars>>

\* qcount++ and qcount-- are a load and a store.
move(t) ==
  /\ pc[t] = "locked" /\ Ready(t)
  /\ count' = [count EXCEPT ![t] = qcount]
  /\ Goto(t, "moving")
  /\ UNCHANGED <<futexVars, waitVars, signalVars, qcount, todo>>

\* Faulty: the consumer takes an item and leaves the count.
moved_uncounted(t) ==
  /\ pc[t] = "moving"
  /\ qcount' = IF t \in Producers THEN count[t] + 1 ELSE count[t]
  /\ todo' = [todo EXCEPT ![t] = @ - 1]
  /\ count' = [count EXCEPT ![t] = 0]
  /\ Goto(t, "signal")
  /\ UNCHANGED <<futexVars, waitVars, signalVars>>
moved(t) ==
  /\ pc[t] = "moving"
  /\ qcount' = IF t \in Producers THEN count[t] + 1 ELSE count[t] - 1
  /\ todo' = [todo EXCEPT ![t] = @ - 1]
  /\ count' = [count EXCEPT ![t] = 0]   \* dead
  /\ Goto(t, "signal")
  /\ UNCHANGED <<futexVars, waitVars, signalVars>>

-----------------------------------------------------------------------------
Unborn == {t \in Threads : pc[t] = "none"}
FreeSlots == {s \in Slots : slots[s] = NoThread}
Released(t) == [s \in Slots |-> IF slots[s] = t THEN NoThread ELSE slots[s]]

(* thread_create() takes the first free slot for the stack of the new      *)
(* thread.  When there is none, main() first joins a thread.               *)
thread_create ==
  /\ main = "create"
  /\ IF FreeSlots = {} THEN main' = "join" /\ UNCHANGED <<slots, new>>
     ELSE /\ new' = Min(Unborn)
          /\ slots' = [slots EXCEPT ![Min(FreeSlots)] = new']
          /\ main' = "clone"
  /\ UNCHANGED <<futexVars, pc, waitVars, signalVars, queueVars>>

clone ==
  /\ main = "clone"
  /\ pc' = [pc EXCEPT ![new] = "start"]
  /\ new' = NoThread
  /\ main' = IF Unborn = {new} THEN "join" ELSE "create"
  /\ UNCHANGED <<futexVars, waitVars, signalVars, queueVars, slots>>

\* Faulty: the slot of a thread that was not created stays taken.
clone_fails_taken ==
  /\ main = "clone"
  /\ new' = NoThread /\ main' = "create"
  /\ UNCHANGED <<futexVars, pc, waitVars, signalVars, queueVars, slots>>
\* clone() finds the process table full: the slot is given back, and main() tries again.
clone_fails ==
  /\ main = "clone"
  /\ slots' = Released(new)
  /\ new' = NoThread /\ main' = "create"
  /\ UNCHANGED <<futexVars, pc, waitVars, signalVars, queueVars>>

\* join() finds a thread that has exited, the first in the table; its slot is free again.
thread_join ==
  /\ main = "join"
  /\ LET exited == {t \in Threads : pc[t] = "done"}
         t == Min(exited)
     IN /\ exited # {}
        /\ pc' = [pc EXCEPT ![t] = "joined"]
        /\ slots' = Released(t)
        /\ main' = IF Unborn # {} THEN "create"
                   ELSE IF \A u \in Threads \ {t} : pc[u] = "joined" THEN "exit" ELSE "join"
  /\ UNCHANGED <<futexVars, waitVars, signalVars, queueVars, new>>

Main == thread_create \/ clone \/ clone_fails \/ thread_join

Step(t) ==
  \/ start(t) \/ mutex_trylock(t) \/ mutex_lock(t) \/ mutex_unlock(t) \/ unlock_wake(t)
  \/ futex_wait(t) \/ futex_sleep(t)
  \/ cond_wait(t) \/ cond_signal(t) \/ signal_bump(t) \/ signal_wake(t)
  \/ move(t) \/ moved(t)

\* A thread that sleeps on a frame the word has left, where futex_wake() does not look.
Stranded == \E t \in Threads : pc[t] = "asleep" /\ chan[t] # Channel(word[t])

Next == Main \/ \E t \in Threads : Step(t) /\ UNCHANGED mainVars

Spec == Init /\ [][Next]_vars
(* The scheduler runs every runnable thread again and again, and clone()   *)
(* does not fail for ever.                                                 *)
LiveSpec ==
  /\ Spec
  /\ WF_vars(Main) /\ SF_vars(clone)
  /\ \A t \in Threads : WF_vars(Step(t) /\ UNCHANGED mainVars)
-----------------------------------------------------------------------------
Places == {"start", "mutex_lock", "futex_wait", "futex_sleep", "asleep", "locked", "moving",
           "wait_unlock", "wait_wake", "unlock", "unlock_wake", "signal", "bump", "signal_wake", "done",
           "none", "joined"}

\* Every word has its type; the mutex is 0 or 1 and the buffer never over- or underflows.
TypeOK ==
  /\ val \in [Words -> Nat] /\ val["qlock"] \in {0, 1}
  /\ frame \in [Words -> {"old", "own"}]
  /\ pc \in [Threads -> Places]
  /\ word \in [Threads -> Words] /\ expected \in [Threads -> Nat]
  /\ chan \in [Threads -> (Words \X {"old", "own"}) \cup {NoChan}]
  /\ seq \in [Threads -> Nat] /\ all \in [Threads -> BOOLEAN]
  /\ qcount \in 0..BUFSZ /\ count \in [Threads -> 0..BUFSZ]
  /\ todo \in [Threads -> Nat]
  /\ slots \in [Slots -> Threads \cup {NoThread}]
  /\ main \in {"create", "clone", "join", "exit"} /\ new \in Threads \cup {NoThread}

Holds(t) ==
  pc[t] \in {"locked", "moving", "signal", "bump", "signal_wake", "unlock", "wait_unlock"}

(* The mutex has one owner exactly when its word is 1: a failed            *)
(* mutex_trylock() or mutex_lock(), which store 1 too, take nothing.       *)
MutexInv ==
  /\ \A t, u \in Threads : Holds(t) /\ Holds(u) => t = u
  /\ val["qlock"] = 1 <=> \E t \in Threads : Holds(t)

(* No wakeup is lost: while a thread sleeps on the mutex, its owner has    *)
(* still to unlock it, or a thread is about to wake one, or to try.  It    *)
(* sleeps on the frame of now, for mutex_lock() has stored to the word.    *)
NoLostWakeup ==
  \A t \in Threads : pc[t] = "asleep" /\ word[t] = "qlock" =>
    /\ chan[t] = Channel("qlock")
    /\ \E u \in Threads : Holds(u) \/ pc[u] \in {"mutex_lock", "unlock_wake", "wait_wake"}

\* The items that the threads of S have moved, each thread's counted down from its share.
Items(S) == UNION {{t} \X ((todo[t] + 1)..Share(t)) : t \in S}
Moved(S) == Cardinality(Items(S))

(* A slot is taken exactly as long as a thread may use its stack, from     *)
(* before clone() until after join(), whether or not clone() succeeds.     *)
SlotInv ==
  \A t \in Threads : Cardinality({s \in Slots : slots[s] = t})
                        = IF t = new \/ pc[t] \notin {"none", "joined"} THEN 1 ELSE 0

(* "a mutex makes concurrent increments exact" (threadtest.c): the count   *)
(* of the buffer is what was put in less what was taken out, and stays     *)
(* within its size.                                                        *)
ExactCount == TypeOK /\ qcount = Moved(Producers) - Moved(Consumers)

(* The bounded buffer moves every item, every thread ends and is joined,   *)
(* because no signal is lost, with one exception: a thread that was in     *)
(* cond_wait() when the first signal after a fork() moved the page.        *)
EveryItemMoves == <>(main = "exit" \/ Stranded)
=============================================================================
