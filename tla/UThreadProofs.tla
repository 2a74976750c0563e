--------------------------- MODULE UThreadProofs ---------------------------
(***************************************************************************)
(* Invariance proofs for UThread, for any number of threads, producers,    *)
(* items and slots and every size of the buffer.                           *)
(***************************************************************************)
EXTENDS UThread, TLAPS, WellFoundedInduction, FiniteSetTheorems

(* What a thread on its way to sleep carries: mutex_lock() has stored to   *)
(* the word, so its frame is final, and expects the 1 that it stored;      *)
(* cond_wait() waits for another word.                                     *)
WaitInv ==
  \A t \in Threads :
    /\ word[t] = "qlock" /\ pc[t] \in {"futex_wait", "futex_sleep", "asleep"} =>
         frame["qlock"] = "own" /\ expected[t] = 1
    /\ word[t] = "qlock" /\ pc[t] \in {"futex_sleep", "asleep"} => chan[t] = <<"qlock", "own">>
    /\ pc[t] \in {"wait_unlock", "wait_wake"} => word[t] # "qlock"

\* Where a thread has an item to move.
Wanting == {"mutex_lock", "futex_wait", "futex_sleep", "asleep", "locked", "moving",
            "wait_unlock", "wait_wake"}

\* A thread between the load and the store of the count has the count of now in its register.
CountInv ==
  /\ \A t \in Threads :
       /\ todo[t] <= Share(t)
       /\ pc[t] \in Wanting => todo[t] > 0
       /\ pc[t] = "moving" => count[t] = qcount /\ Ready(t)
  /\ qcount = Moved(Producers) - Moved(Consumers)

\* The main thread creates a thread only while one is left to create.
MainInv ==
  /\ main = "clone" <=> new # NoThread
  /\ new # NoThread => pc[new] = "none"
  /\ main = "create" => Unborn # {}

UThreadInv ==
  /\ TypeOK /\ MutexInv /\ WaitInv /\ NoLostWakeup
  /\ CountInv /\ MainInv /\ SlotInv
-----------------------------------------------------------------------------
\* Every non-empty set of naturals has a least element.
LEMMA MinInSet ==
  ASSUME NEW T \in SUBSET Nat, T # {}
  PROVE  Min(T) \in T
<1> DEFINE R == OpToRel(<, Nat)
<1>1. IsWellFoundedOn(R, Nat)
  BY Zenon, NatLessThanWellFounded
<1>2. \A x, y \in Nat : x < y => <<x, y>> \in R
  BY Zenon DEF OpToRel
<1> HIDE DEF R
<1>3. PICK x \in T : \A y \in T : ~ (<<y, x>> \in R)
  BY Zenon, <1>1, WFMin
<1>4. ASSUME NEW y \in T PROVE x <= y
  <2>1. x \in Nat /\ y \in Nat
    OBVIOUS
  <2>2. ~ (y < x)
    BY Zenon, <1>2, <1>3, <2>1
  <2> QED BY <2>1, <2>2
<1> QED BY Zenon, <1>4 DEF Min

LEMMA ThreadsFinite == IsFiniteSet(Threads) /\ Threads \subseteq Nat \ {0} /\ NoThread \notin Threads
BY ThreadsAssumption, FS_Interval DEF Threads, NoThread

\* A thread's share is a number of items, and no thread moves more than all of them.
LEMMA ShareNat ==
  /\ Cardinality(Producers) \in Nat
  /\ \A t \in Threads : /\ Share(t) \in Nat
                        /\ Share(t) <= NITEMS + NITEMS * Cardinality(Producers)
<1>1. Cardinality(Producers) \in Nat
  BY Zenon, ThreadsFinite, ThreadsAssumption, FS_Subset, FS_CardinalityType
<1>2. ASSUME NEW t \in Threads PROVE Share(t) \in Nat /\ Share(t) <= NITEMS + NITEMS * Cardinality(Producers)
  <2>1. NITEMS * Cardinality(Producers) \in Nat
    BY <1>1, ItemsAssumption
  <2>2. CASE t \in Producers
    BY <2>1, <2>2, ItemsAssumption DEF Share
  <2>3. CASE t \notin Producers
    <3>1. IsFiniteSet(Consumers) /\ Consumers # {}
      BY Zenon, <2>3, ThreadsFinite, FS_Subset DEF Consumers
    <3>2. Cardinality(Consumers) \in Nat \ {0}
      BY Zenon, <3>1, FS_EmptySet, FS_CardinalityType
    <3>3. \A a \in Nat, b \in Nat \ {0} : a \div b \in Nat /\ a \div b <= a
      OBVIOUS
    <3>4. Share(t) \in Nat /\ Share(t) <= NITEMS * Cardinality(Producers)
      BY Zenon, <2>1, <2>3, <3>2, <3>3 DEF Share
    <3> QED BY <2>1, <3>4, ItemsAssumption
  <2> QED BY Zenon, <2>2, <2>3
<1> QED BY Zenon, <1>1, <1>2

\* What is an item that some threads have moved.
LEMMA InItems ==
  ASSUME NEW S, NEW x
  PROVE  x \in Items(S) <=> \E t \in S : \E k \in (todo[t] + 1)..Share(t) : x = <<t, k>>
<1>1. x \in Items(S) <=> \E t \in S : x \in {t} \X ((todo[t] + 1)..Share(t))
  BY Zenon DEF Items
<1>2. \A t, K : x \in {t} \X K <=> \E k \in K : x = <<t, k>>
  OBVIOUS
<1> QED BY Zenon, <1>1, <1>2

\* The same in the next state.
LEMMA InItemsNext ==
  ASSUME NEW S, NEW x
  PROVE  x \in Items(S)' <=> \E t \in S : \E k \in (todo'[t] + 1)..Share(t) : x = <<t, k>>
<1>1. x \in Items(S)' <=> \E t \in S : x \in {t} \X ((todo'[t] + 1)..Share(t))
  BY Zenon DEF Items
<1>2. \A t, K : x \in {t} \X K <=> \E k \in K : x = <<t, k>>
  OBVIOUS
<1> QED BY Zenon, <1>1, <1>2

\* The items that some threads have moved are finitely many.
LEMMA ItemsFinite ==
  ASSUME NEW S \in SUBSET Threads, todo \in [Threads -> Nat]
  PROVE  IsFiniteSet(Items(S)) /\ Moved(S) \in Nat
<1> DEFINE B == NITEMS + NITEMS * Cardinality(Producers)
<1>1. B \in Nat
  BY ShareNat, ItemsAssumption
<1>2. \A t \in Threads : Share(t) \in Nat /\ Share(t) <= B
  BY Zenon, ShareNat
<1> HIDE DEF B
<1>3. \A t \in S : ((todo[t] + 1)..Share(t)) \subseteq 1..B
  BY <1>1, <1>2
<1>4. Items(S) \subseteq S \X (1..B)
  BY <1>3, InItems
<1>5. IsFiniteSet(S) /\ IsFiniteSet(1..B)
  <2>1. IsFiniteSet(S)
    BY Zenon, ThreadsFinite, FS_Subset
  <2>2. 0 \in Int /\ 1 \in Int /\ B \in Int
    BY <1>1
  <2> QED BY Zenon, <2>1, <2>2, FS_Interval
<1>6. IsFiniteSet(S \X (1..B))
  BY Zenon, <1>5, FS_Product
<1>7. IsFiniteSet(Items(S))
  BY Zenon, <1>4, <1>6, FS_Subset
<1> QED BY Zenon, <1>7, FS_CardinalityType DEF Moved

\* A thread that moves an item adds one to what its kind has moved, and nothing to the other's.
LEMMA OneMoved ==
  ASSUME NEW S \in SUBSET Threads, NEW t \in Threads, TypeOK, todo[t] > 0, todo[t] <= Share(t),
         todo' = [todo EXCEPT ![t] = @ - 1]
  PROVE  Moved(S)' = Moved(S) + (IF t \in S THEN 1 ELSE 0)
<1> DEFINE i == <<t, todo[t]>>
<1>1. todo \in [Threads -> Nat]
  BY Zenon DEF TypeOK
<1>2. todo[t] \in Nat /\ Share(t) \in Nat /\ todo'[t] = todo[t] - 1
  BY Zenon, <1>1, ShareNat
<1>3. ((todo'[t] + 1)..Share(t)) = ((todo[t] + 1)..Share(t)) \cup {todo[t]}
  BY <1>2
<1>4. \A u \in S : u # t => todo'[u] = todo[u]
  BY Zenon, <1>1
<1>5. \A u \in S : u # t => ((todo'[u] + 1)..Share(u)) = ((todo[u] + 1)..Share(u))
  BY Zenon, <1>4
<1>6. CASE t \in S
  <2>1. Items(S)' = Items(S) \cup {i}
    <3>1. ASSUME NEW x PROVE x \in Items(S)' <=> x \in Items(S) \/ x = i
      BY <1>3, <1>5, <1>6, InItems, InItemsNext
    <3> QED BY Zenon, <3>1
  <2>2. todo[t] \notin (todo[t] + 1)..Share(t)
    BY <1>2
  <2>3. i \notin Items(S)
    BY <2>2, InItems
  <2> QED BY Zenon, <1>1, <1>6, <2>1, <2>3, ItemsFinite, FS_AddElement DEF Moved
<1>7. CASE t \notin S
  <2>1. Items(S)' = Items(S)
    BY Zenon, <1>5, <1>7 DEF Items
  <2> QED BY <1>1, <1>7, <2>1, ItemsFinite DEF Moved
<1> QED BY Zenon, <1>6, <1>7
-----------------------------------------------------------------------------
\* Whom a sleeper on the mutex may rely on.
Rouser(u) == Holds(u) \/ pc[u] \in {"mutex_lock", "unlock_wake", "wait_wake"}

\* With the frame known to be final, only the existence of a rouser is left to show.
LEMMA WakeupFromRouser ==
  ASSUME WaitInv',
         (\E t \in Threads : pc'[t] = "asleep" /\ word'[t] = "qlock") => \E u \in Threads : Rouser(u)'
  PROVE  NoLostWakeup'
BY Zenon DEF WaitInv, NoLostWakeup, Rouser, Channel

\* The mutex keeps its owner as long as nobody takes it or lets it go.
LEMMA MutexFrame ==
  ASSUME MutexInv, val'["qlock"] = val["qlock"], \A u \in Threads : Holds(u)' <=> Holds(u)
  PROVE  MutexInv'
BY Zenon DEF MutexInv

\* The count is exact as long as nothing is moved.
LEMMA CountFrame ==
  ASSUME CountInv, UNCHANGED queueVars,
         \A u \in Threads : \/ pc'[u] = pc[u]
                            \/ pc'[u] # "moving" /\ (pc'[u] \in Wanting => todo[u] > 0)
  PROVE  CountInv'
<1>1. \A S : Moved(S)' = Moved(S)
  BY Zenon DEF Moved, Items, queueVars
<1>2. qcount' = qcount /\ count' = count /\ todo' = todo
  BY Zenon DEF queueVars
<1>3. \A u \in Threads : Ready(u)' <=> Ready(u)
  BY Zenon, <1>2 DEF Ready
<1>4. qcount' = Moved(Producers)' - Moved(Consumers)'
  BY Zenon, <1>1, <1>2 DEF CountInv
<1>5. ASSUME NEW u \in Threads
      PROVE  /\ todo'[u] <= Share(u) /\ (pc'[u] \in Wanting => todo'[u] > 0)
             /\ pc'[u] = "moving" => count'[u] = qcount' /\ Ready(u)'
  BY Zenon, <1>2, <1>3 DEF CountInv
<1> QED BY Zenon, <1>4, <1>5 DEF CountInv

\* Where a thread runs or has ended and not been joined.
Born == {"start", "mutex_lock", "futex_wait", "futex_sleep", "asleep", "locked", "moving",
         "wait_unlock", "wait_wake", "unlock", "unlock_wake", "signal", "bump", "signal_wake", "done"}

\* The steps of the threads themselves leave the table of threads as it is.
LEMMA MainFrame ==
  ASSUME TypeOK, MainInv, SlotInv, UNCHANGED mainVars,
         \A u \in Threads : pc'[u] = pc[u] \/ (pc[u] \in Born /\ pc'[u] \in Born)
  PROVE  MainInv' /\ SlotInv'
<1>1. slots' = slots /\ main' = main /\ new' = new
  BY Zenon DEF mainVars
<1>2. \A u \in Threads : /\ pc'[u] = "none" <=> pc[u] = "none"
                         /\ pc'[u] = "joined" <=> pc[u] = "joined"
  BY Zenon DEF Born
<1>3. Unborn' = Unborn
  BY Zenon, <1>2 DEF Unborn
<1>4. new \in Threads \cup {NoThread}
  BY Zenon DEF TypeOK
<1>5. MainInv'
  BY Zenon, <1>1, <1>2, <1>3, <1>4 DEF MainInv
<1>6. \A u \in Threads : pc'[u] \in {"none", "joined"} <=> pc[u] \in {"none", "joined"}
  BY Zenon, <1>2
<1>7. SlotInv'
  BY Zenon, <1>1, <1>6 DEF SlotInv
<1> QED BY Zenon, <1>5, <1>7

LEMMA Goes ==
  ASSUME TypeOK, NEW t \in Threads, NEW place, Goto(t, place)
  PROVE  /\ pc'[t] = place
         /\ \A u \in Threads : u # t => pc'[u] = pc[u]
         /\ place \in Places => pc' \in [Threads -> Places]
BY Zenon DEF TypeOK, Goto

\* The loop of a thread goes round, or ends.
LEMMA StartStep ==
  ASSUME UThreadInv, NEW t \in Threads, start(t), UNCHANGED mainVars
  PROVE  UThreadInv'
<1> DEFINE place == IF todo[t] = 0 THEN "done" ELSE "mutex_lock"
<1>1. /\ pc[t] = "start" /\ Goto(t, place)
      /\ UNCHANGED <<futexVars, waitVars, signalVars, queueVars>>
  BY Zenon DEF start
<1>2. TypeOK /\ MutexInv /\ WaitInv /\ NoLostWakeup /\ CountInv /\ MainInv /\ SlotInv
  BY Zenon DEF UThreadInv
<1>3. /\ pc'[t] = place /\ \A u \in Threads : u # t => pc'[u] = pc[u]
      /\ pc' \in [Threads -> Places]
  BY <1>1, <1>2, Goes DEF Places
<1>4. todo[t] # 0 => todo[t] > 0
  BY <1>2 DEF TypeOK
<1>5. TypeOK'
  BY Zenon, <1>1, <1>2, <1>3 DEF TypeOK, futexVars, waitVars, signalVars, queueVars, mainVars
<1>6. MutexInv'
  BY Zenon, <1>1, <1>2, <1>3, MutexFrame DEF Holds, futexVars
<1>7. WaitInv'
  BY Zenon, <1>1, <1>2, <1>3 DEF WaitInv, futexVars, waitVars
<1>8. NoLostWakeup'
  <2>1. \A u \in Threads : Rouser(u) => Rouser(u)'
    BY Zenon, <1>1, <1>3 DEF Rouser, Holds
  <2>2. \A u \in Threads : pc'[u] = "asleep" /\ word'[u] = "qlock" => pc[u] = "asleep" /\ word[u] = "qlock"
    BY Zenon, <1>1, <1>3 DEF waitVars
  <2> QED BY Zenon, <1>2, <1>7, <2>1, <2>2, WakeupFromRouser DEF NoLostWakeup, Rouser
<1>9. CountInv'
  BY Zenon, <1>1, <1>2, <1>3, <1>4, CountFrame DEF Wanting
<1>10. MainInv' /\ SlotInv'
  BY Zenon, <1>1, <1>2, <1>3, MainFrame DEF Born
<1> QED BY Zenon, <1>5, <1>6, <1>7, <1>8, <1>9, <1>10 DEF UThreadInv

\* A store to the mutex leaves the other words alone and makes its frame final.
LEMMA StoreFacts ==
  ASSUME TypeOK, NEW x \in {0, 1}, Store("qlock", x)
  PROVE  /\ val' \in [Words -> Nat] /\ val'["qlock"] = x
         /\ frame' \in [Words -> {"old", "own"}] /\ frame'["qlock"] = "own"
BY DEF TypeOK, Store, Words

\* mutex_trylock() takes a free mutex, and stores 1 to a taken one in vain.
LEMMA TrylockStep ==
  ASSUME UThreadInv, NEW t \in Threads, mutex_trylock(t), UNCHANGED mainVars
  PROVE  UThreadInv'
<1> DEFINE place == IF val["qlock"] = 0 THEN "locked" ELSE "mutex_lock"
<1>1. /\ pc[t] = "start" /\ todo[t] > 0 /\ Store("qlock", 1) /\ Goto(t, place)
      /\ UNCHANGED <<chan, waitVars, signalVars, queueVars>>
  BY Zenon DEF mutex_trylock
<1>2. TypeOK /\ MutexInv /\ WaitInv /\ NoLostWakeup /\ CountInv /\ MainInv /\ SlotInv
  BY Zenon DEF UThreadInv
<1>3. /\ pc'[t] = place /\ \A u \in Threads : u # t => pc'[u] = pc[u]
      /\ pc' \in [Threads -> Places]
  BY <1>1, <1>2, Goes DEF Places
<1>4. /\ val' \in [Words -> Nat] /\ val'["qlock"] = 1
      /\ frame' \in [Words -> {"old", "own"}] /\ frame'["qlock"] = "own"
  BY Zenon, <1>1, <1>2, StoreFacts
<1>5. TypeOK'
  BY Zenon, <1>1, <1>2, <1>3, <1>4 DEF TypeOK, waitVars, signalVars, queueVars, mainVars
<1>6. MutexInv'
  <2>1. CASE val["qlock"] = 0
    <3>1. \A u \in Threads : ~ Holds(u)
      BY <1>2, <2>1 DEF MutexInv
    <3>2. \A u \in Threads : Holds(u)' <=> u = t
      BY Zenon, <1>3, <2>1, <3>1 DEF Holds
    <3> QED BY Zenon, <1>4, <3>2 DEF MutexInv
  <2>2. CASE val["qlock"] # 0
    BY Zenon, <1>1, <1>2, <1>3, <1>4, <2>2, MutexFrame DEF Holds, TypeOK
  <2> QED BY Zenon, <2>1, <2>2
<1>7. WaitInv'
  BY Zenon, <1>1, <1>2, <1>3, <1>4 DEF WaitInv, waitVars
<1>8. NoLostWakeup'
  <2>1. Rouser(t)'
    BY Zenon, <1>3 DEF Rouser, Holds
  <2> QED BY Zenon, <1>7, <2>1, WakeupFromRouser
<1>9. CountInv'
  BY Zenon, <1>1, <1>2, <1>3, CountFrame DEF Wanting
<1>10. MainInv' /\ SlotInv'
  BY Zenon, <1>1, <1>2, <1>3, MainFrame DEF Born
<1> QED BY Zenon, <1>5, <1>6, <1>7, <1>8, <1>9, <1>10 DEF UThreadInv

\* mutex_lock() takes a free mutex or goes to sleep on the frame that it has stored to.
LEMMA LockStep ==
  ASSUME UThreadInv, NEW t \in Threads, mutex_lock(t), UNCHANGED mainVars
  PROVE  UThreadInv'
<1> DEFINE place == IF val["qlock"] = 0 THEN "locked" ELSE "futex_wait"
<1>1. /\ pc[t] = "mutex_lock" /\ Store("qlock", 1) /\ Goto(t, place)
      /\ word' = [word EXCEPT ![t] = "qlock"] /\ expected' = [expected EXCEPT ![t] = 1]
      /\ UNCHANGED <<chan, signalVars, queueVars>>
  BY Zenon DEF mutex_lock
<1>2. TypeOK /\ MutexInv /\ WaitInv /\ NoLostWakeup /\ CountInv /\ MainInv /\ SlotInv
  BY Zenon DEF UThreadInv
<1>3. /\ pc'[t] = place /\ \A u \in Threads : u # t => pc'[u] = pc[u]
      /\ pc' \in [Threads -> Places]
  BY <1>1, <1>2, Goes DEF Places
<1>4. /\ val' \in [Words -> Nat] /\ val'["qlock"] = 1
      /\ frame' \in [Words -> {"old", "own"}] /\ frame'["qlock"] = "own"
  BY Zenon, <1>1, <1>2, StoreFacts
<1>5. /\ word' \in [Threads -> Words] /\ expected' \in [Threads -> Nat]
      /\ word'[t] = "qlock" /\ expected'[t] = 1
      /\ \A u \in Threads : u # t => word'[u] = word[u] /\ expected'[u] = expected[u]
  BY Zenon, <1>1, <1>2 DEF TypeOK, Words
<1>6. TypeOK'
  BY Zenon, <1>1, <1>2, <1>3, <1>4, <1>5 DEF TypeOK, signalVars, queueVars, mainVars
<1>7. MutexInv'
  <2>1. CASE val["qlock"] = 0
    <3>1. \A u \in Threads : ~ Holds(u)
      BY <1>2, <2>1 DEF MutexInv
    <3>2. \A u \in Threads : Holds(u)' <=> u = t
      BY Zenon, <1>3, <2>1, <3>1 DEF Holds
    <3> QED BY Zenon, <1>4, <3>2 DEF MutexInv
  <2>2. CASE val["qlock"] # 0
    BY Zenon, <1>1, <1>2, <1>3, <1>4, <2>2, MutexFrame DEF Holds, TypeOK
  <2> QED BY Zenon, <2>1, <2>2
<1>8. WaitInv'
  BY Zenon, <1>1, <1>2, <1>3, <1>4, <1>5 DEF WaitInv
<1>9. NoLostWakeup'
  <2>1. \E u \in Threads : Holds(u)'
    BY Zenon, <1>4, <1>7 DEF MutexInv
  <2>2. \E u \in Threads : Rouser(u)'
    BY Zenon, <2>1 DEF Rouser
  <2> QED BY Zenon, <1>8, <2>2, WakeupFromRouser
<1>10. CountInv'
  <2>1. todo[t] > 0
    BY Zenon, <1>1, <1>2 DEF CountInv, Wanting
  <2> QED BY Zenon, <1>1, <1>2, <1>3, <2>1, CountFrame DEF Wanting
<1>11. MainInv' /\ SlotInv'
  BY Zenon, <1>1, <1>2, <1>3, MainFrame DEF Born
<1> QED BY Zenon, <1>6, <1>7, <1>8, <1>9, <1>10, <1>11 DEF UThreadInv

\* mutex_unlock() frees the mutex; its caller is about to wake a waiter.
LEMMA UnlockStep ==
  ASSUME UThreadInv, NEW t \in Threads, mutex_unlock(t), UNCHANGED mainVars
  PROVE  UThreadInv'
<1> DEFINE place == IF pc[t] = "unlock" THEN "unlock_wake" ELSE "wait_wake"
<1>1. /\ pc[t] \in {"unlock", "wait_unlock"} /\ Store("qlock", 0) /\ Goto(t, place)
      /\ UNCHANGED <<chan, waitVars, signalVars, queueVars>>
  BY Zenon DEF mutex_unlock
<1>2. TypeOK /\ MutexInv /\ WaitInv /\ NoLostWakeup /\ CountInv /\ MainInv /\ SlotInv
  BY Zenon DEF UThreadInv
<1>3. /\ pc'[t] = place /\ \A u \in Threads : u # t => pc'[u] = pc[u]
      /\ pc' \in [Threads -> Places]
  BY <1>1, <1>2, Goes DEF Places
<1>4. /\ val' \in [Words -> Nat] /\ val'["qlock"] = 0
      /\ frame' \in [Words -> {"old", "own"}] /\ frame'["qlock"] = "own"
  BY Zenon, <1>1, <1>2, StoreFacts
<1>5. TypeOK'
  BY Zenon, <1>1, <1>2, <1>3, <1>4 DEF TypeOK, waitVars, signalVars, queueVars, mainVars
<1>6. MutexInv'
  <2>1. \A u \in Threads : u # t => ~ Holds(u)
    BY Zenon, <1>1, <1>2 DEF MutexInv, Holds
  <2>2. \A u \in Threads : ~ Holds(u)'
    BY Zenon, <1>1, <1>3, <2>1 DEF Holds
  <2> QED BY <1>4, <2>2 DEF MutexInv
<1>7. WaitInv'
  BY Zenon, <1>1, <1>2, <1>3, <1>4 DEF WaitInv, waitVars
<1>8. NoLostWakeup'
  <2>1. Rouser(t)'
    BY Zenon, <1>1, <1>3 DEF Rouser
  <2> QED BY Zenon, <1>7, <2>1, WakeupFromRouser
<1>9. CountInv'
  <2>1. pc[t] = "wait_unlock" => todo[t] > 0
    BY Zenon, <1>2 DEF CountInv, Wanting
  <2> QED BY Zenon, <1>1, <1>2, <1>3, <2>1, CountFrame DEF Wanting
<1>10. MainInv' /\ SlotInv'
  BY Zenon, <1>1, <1>2, <1>3, MainFrame DEF Born
<1> QED BY Zenon, <1>5, <1>6, <1>7, <1>8, <1>9, <1>10 DEF UThreadInv

\* The first look of futex_wait() fixes the channel, which for the mutex is its final frame.
LEMMA FutexWaitStep ==
  ASSUME UThreadInv, NEW t \in Threads, futex_wait(t), UNCHANGED mainVars
  PROVE  UThreadInv'
<1> DEFINE place == IF val[word[t]] = expected[t] THEN "futex_sleep" ELSE "mutex_lock"
<1>1. /\ pc[t] = "futex_wait" /\ Goto(t, place)
      /\ chan' = [chan EXCEPT ![t] = IF val[word[t]] = expected[t] THEN Channel(word[t]) ELSE NoChan]
      /\ UNCHANGED <<val, frame, waitVars, signalVars, queueVars>>
  BY Zenon DEF futex_wait
<1>2. TypeOK /\ MutexInv /\ WaitInv /\ NoLostWakeup /\ CountInv /\ MainInv /\ SlotInv
  BY Zenon DEF UThreadInv
<1>3. /\ pc'[t] = place /\ \A u \in Threads : u # t => pc'[u] = pc[u]
      /\ pc' \in [Threads -> Places]
  BY Zenon, <1>1, <1>2, Goes DEF Places
<1>4. /\ chan' \in [Threads -> (Words \X {"old", "own"}) \cup {NoChan}]
      /\ pc'[t] = "futex_sleep" => chan'[t] = Channel(word[t])
      /\ \A u \in Threads : u # t => chan'[u] = chan[u]
  <2>1. Channel(word[t]) \in Words \X {"old", "own"}
    BY Zenon, <1>2 DEF TypeOK, Channel
  <2>2. chan \in [Threads -> (Words \X {"old", "own"}) \cup {NoChan}]
    BY Zenon, <1>2 DEF TypeOK
  <2> QED BY Zenon, <1>1, <1>3, <2>1, <2>2
<1>5. TypeOK'
  BY Zenon, <1>1, <1>2, <1>3, <1>4 DEF TypeOK, waitVars, signalVars, queueVars, mainVars
<1>6. MutexInv'
  BY Zenon, <1>1, <1>2, <1>3, MutexFrame DEF Holds
<1>7. WaitInv'
  BY Zenon, <1>1, <1>2, <1>3, <1>4 DEF WaitInv, waitVars, Channel
<1>8. NoLostWakeup'
  <2>1. \A u \in Threads : Rouser(u) => Rouser(u)'
    BY Zenon, <1>1, <1>3 DEF Rouser, Holds
  <2>2. \A u \in Threads : pc'[u] = "asleep" /\ word'[u] = "qlock" => pc[u] = "asleep" /\ word[u] = "qlock"
    BY Zenon, <1>1, <1>3 DEF waitVars
  <2> QED BY Zenon, <1>2, <1>7, <2>1, <2>2, WakeupFromRouser DEF NoLostWakeup, Rouser
<1>9. CountInv'
  <2>1. todo[t] > 0
    BY Zenon, <1>1, <1>2 DEF CountInv, Wanting
  <2> QED BY Zenon, <1>1, <1>2, <1>3, <2>1, CountFrame DEF Wanting
<1>10. MainInv' /\ SlotInv'
  BY Zenon, <1>1, <1>2, <1>3, MainFrame DEF Born
<1> QED BY Zenon, <1>5, <1>6, <1>7, <1>8, <1>9, <1>10 DEF UThreadInv

\* The second look, under the lock: whoever sleeps on the mutex has seen that it has an owner.
LEMMA FutexSleepStep ==
  ASSUME UThreadInv, NEW t \in Threads, futex_sleep(t), UNCHANGED mainVars
  PROVE  UThreadInv'
<1> DEFINE place == IF val[word[t]] = expected[t] THEN "asleep" ELSE "mutex_lock"
<1>1. /\ pc[t] = "futex_sleep" /\ Goto(t, place)
      /\ chan' = chan \/ (place # "asleep" /\ chan' = [chan EXCEPT ![t] = NoChan])
      /\ UNCHANGED <<val, frame, waitVars, signalVars, queueVars>>
  BY Zenon DEF futex_sleep
<1>2. TypeOK /\ MutexInv /\ WaitInv /\ NoLostWakeup /\ CountInv /\ MainInv /\ SlotInv
  BY Zenon DEF UThreadInv
<1>3. /\ pc'[t] = place /\ \A u \in Threads : u # t => pc'[u] = pc[u]
      /\ pc' \in [Threads -> Places]
  BY Zenon, <1>1, <1>2, Goes DEF Places
<1>4. /\ chan' \in [Threads -> (Words \X {"old", "own"}) \cup {NoChan}]
      /\ pc'[t] = "asleep" => chan'[t] = chan[t]
      /\ \A u \in Threads : u # t => chan'[u] = chan[u]
  BY Zenon, <1>1, <1>2, <1>3 DEF TypeOK
<1>5. TypeOK'
  BY Zenon, <1>1, <1>2, <1>3, <1>4 DEF TypeOK, waitVars, signalVars, queueVars, mainVars
<1>6. MutexInv'
  BY Zenon, <1>1, <1>2, <1>3, MutexFrame DEF Holds
<1>7. WaitInv'
  BY Zenon, <1>1, <1>2, <1>3, <1>4 DEF WaitInv, waitVars
<1>8. NoLostWakeup'
  <2>1. \A u \in Threads : Rouser(u) => Rouser(u)'
    BY Zenon, <1>1, <1>3 DEF Rouser, Holds
  <2>2. ASSUME pc'[t] = "asleep", word'[t] = "qlock" PROVE \E u \in Threads : Rouser(u)
    <3>1. val["qlock"] = 1
      BY Zenon, <1>1, <1>2, <1>3, <2>2 DEF WaitInv, waitVars
    <3> QED BY Zenon, <1>2, <3>1 DEF MutexInv, Rouser
  <2>3. \A u \in Threads : u # t /\ pc'[u] = "asleep" /\ word'[u] = "qlock"
                             => pc[u] = "asleep" /\ word[u] = "qlock"
    BY Zenon, <1>1, <1>3 DEF waitVars
  <2> QED BY Zenon, <1>2, <1>7, <2>1, <2>2, <2>3, WakeupFromRouser DEF NoLostWakeup, Rouser
<1>9. CountInv'
  <2>1. todo[t] > 0
    BY Zenon, <1>1, <1>2 DEF CountInv, Wanting
  <2> QED BY Zenon, <1>1, <1>2, <1>3, <2>1, CountFrame DEF Wanting
<1>10. MainInv' /\ SlotInv'
  BY Zenon, <1>1, <1>2, <1>3, MainFrame DEF Born
<1> QED BY Zenon, <1>5, <1>6, <1>7, <1>8, <1>9, <1>10 DEF UThreadInv

\* futex_wake() sends at least one sleeper of the word, if there is any, back to the mutex.
LEMMA WakeFacts ==
  ASSUME TypeOK, NEW t \in Threads, NEW w \in Words, NEW every \in BOOLEAN, NEW next \in Places,
         pc[t] # "asleep", futex_wake(t, w, every, next)
  PROVE  /\ pc' \in [Threads -> Places]
         /\ chan' \in [Threads -> (Words \X {"old", "own"}) \cup {NoChan}]
         /\ pc'[t] = next
         /\ \A u \in Threads : u # t => \/ pc'[u] = pc[u] /\ chan'[u] = chan[u]
                                        \/ pc[u] = "asleep" /\ pc'[u] = "mutex_lock"
         /\ Sleepers(w) # {} => \E u \in Threads : pc[u] = "asleep" /\ pc'[u] = "mutex_lock"
<1> DEFINE woken == IF every \/ Sleepers(w) = {} THEN Sleepers(w) ELSE {Min(Sleepers(w))}
<1>1. /\ pc' = [u \in Threads |-> IF u = t THEN next ELSE IF u \in woken THEN "mutex_lock" ELSE pc[u]]
      /\ chan' = [u \in Threads |-> IF u \in woken THEN NoChan ELSE chan[u]]
  BY Zenon DEF futex_wake
<1>2. Sleepers(w) \in SUBSET Nat /\ Sleepers(w) \subseteq Threads
  BY Zenon, ThreadsFinite DEF Sleepers
<1>3. Sleepers(w) # {} => Min(Sleepers(w)) \in Sleepers(w)
  BY Zenon, <1>2, MinInSet
<1>4. woken \subseteq Sleepers(w) /\ (Sleepers(w) # {} => woken # {})
  BY Zenon, <1>3
<1> HIDE DEF woken
<1>5. \A u \in woken : u \in Threads /\ pc[u] = "asleep" /\ u # t
  BY Zenon, <1>4 DEF Sleepers
<1>6. "mutex_lock" \in Places
  BY Zenon DEF Places
<1>7. pc \in [Threads -> Places] /\ chan \in [Threads -> (Words \X {"old", "own"}) \cup {NoChan}]
  BY Zenon DEF TypeOK
<1>8. \A u \in Threads : pc'[u] \in Places /\ chan'[u] \in (Words \X {"old", "own"}) \cup {NoChan}
  BY Zenon, <1>1, <1>6, <1>7
<1>9. pc' \in [Threads -> Places] /\ chan' \in [Threads -> (Words \X {"old", "own"}) \cup {NoChan}]
  BY Zenon, <1>1, <1>8
<1> QED BY Zenon, <1>1, <1>4, <1>5, <1>9

\* mutex_unlock() ends by waking one sleeper; if it finds none, nobody sleeps on the mutex.
LEMMA UnlockWakeStep ==
  ASSUME UThreadInv, NEW t \in Threads, unlock_wake(t), UNCHANGED mainVars
  PROVE  UThreadInv'
<1> DEFINE next == IF pc[t] = "wait_wake" THEN "futex_wait" ELSE "start"
<1>1. /\ pc[t] \in {"unlock_wake", "wait_wake"} /\ futex_wake(t, "qlock", FALSE, next)
      /\ UNCHANGED <<val, frame, waitVars, signalVars, queueVars>>
  BY Zenon DEF unlock_wake
<1>2. TypeOK /\ MutexInv /\ WaitInv /\ NoLostWakeup /\ CountInv /\ MainInv /\ SlotInv
  BY Zenon DEF UThreadInv
<1>3. /\ pc' \in [Threads -> Places]
      /\ chan' \in [Threads -> (Words \X {"old", "own"}) \cup {NoChan}]
      /\ pc'[t] = next
      /\ \A u \in Threads : u # t => \/ pc'[u] = pc[u] /\ chan'[u] = chan[u]
                                     \/ pc[u] = "asleep" /\ pc'[u] = "mutex_lock"
      /\ Sleepers("qlock") # {} => \E u \in Threads : pc[u] = "asleep" /\ pc'[u] = "mutex_lock"
  <2>1. "qlock" \in Words /\ FALSE \in BOOLEAN /\ next \in Places /\ pc[t] # "asleep"
    BY Zenon, <1>1 DEF Words, Places
  <2> HIDE DEF next
  <2> QED BY Zenon, <1>1, <1>2, <2>1, WakeFacts
<1>4. TypeOK'
  BY Zenon, <1>1, <1>2, <1>3 DEF TypeOK, waitVars, signalVars, queueVars, mainVars
<1>5. MutexInv'
  <2>1. \A u \in Threads : Holds(u)' <=> Holds(u)
    BY Zenon, <1>1, <1>3 DEF Holds
  <2> QED BY Zenon, <1>1, <1>2, <2>1, MutexFrame
<1>6. WaitInv'
  BY Zenon, <1>1, <1>2, <1>3 DEF WaitInv, waitVars
<1>7. NoLostWakeup'
  <2>1. CASE Sleepers("qlock") # {}
    <3>1. \E u \in Threads : Rouser(u)'
      BY Zenon, <1>3, <2>1 DEF Rouser
    <3> QED BY Zenon, <1>6, <3>1, WakeupFromRouser
  <2>2. CASE Sleepers("qlock") = {}
    <3>1. \A u \in Threads : ~ (pc[u] = "asleep" /\ word[u] = "qlock")
      BY Zenon, <1>2, <2>2 DEF NoLostWakeup, Sleepers
    <3>2. \A u \in Threads : ~ (pc'[u] = "asleep" /\ word'[u] = "qlock")
      BY Zenon, <1>1, <1>3, <3>1 DEF waitVars
    <3> QED BY Zenon, <3>2 DEF NoLostWakeup
  <2> QED BY Zenon, <2>1, <2>2
<1>8. CountInv'
  <2>1. \A u \in Threads : pc[u] \in {"asleep", "wait_wake"} => todo[u] > 0
    BY Zenon, <1>2 DEF CountInv, Wanting
  <2>2. \A u \in Threads : \/ pc'[u] = pc[u]
                           \/ pc'[u] # "moving" /\ (pc'[u] \in Wanting => todo[u] > 0)
    BY Zenon, <1>1, <1>3, <2>1 DEF Wanting
  <2> QED BY Zenon, <1>1, <1>2, <2>2, CountFrame
<1>9. MainInv' /\ SlotInv'
  <2>1. \A u \in Threads : pc'[u] = pc[u] \/ (pc[u] \in Born /\ pc'[u] \in Born)
    BY Zenon, <1>1, <1>3 DEF Born
  <2> QED BY Zenon, <1>2, <2>1, MainFrame
<1> QED BY Zenon, <1>4, <1>5, <1>6, <1>7, <1>8, <1>9 DEF UThreadInv

\* cond_signal() wakes sleepers of a condition while its caller holds the mutex.
LEMMA SignalWakeStep ==
  ASSUME UThreadInv, NEW t \in Threads, signal_wake(t), UNCHANGED mainVars
  PROVE  UThreadInv'
<1>1. /\ pc[t] = "signal_wake" /\ futex_wake(t, Wakes(t), all[t], "unlock")
      /\ seq' = [seq EXCEPT ![t] = 0] /\ all' = [all EXCEPT ![t] = FALSE]
      /\ UNCHANGED <<val, frame, waitVars, queueVars>>
  BY Zenon DEF signal_wake
<1>2. TypeOK /\ MutexInv /\ WaitInv /\ NoLostWakeup /\ CountInv /\ MainInv /\ SlotInv
  BY Zenon DEF UThreadInv
<1>3. /\ pc' \in [Threads -> Places]
      /\ chan' \in [Threads -> (Words \X {"old", "own"}) \cup {NoChan}]
      /\ pc'[t] = "unlock"
      /\ \A u \in Threads : u # t => \/ pc'[u] = pc[u] /\ chan'[u] = chan[u]
                                     \/ pc[u] = "asleep" /\ pc'[u] = "mutex_lock"
  <2>1. Wakes(t) \in Words /\ all[t] \in BOOLEAN /\ "unlock" \in Places /\ pc[t] # "asleep"
    BY Zenon, <1>1, <1>2 DEF Wakes, Words, Conds, Places, TypeOK
  <2> QED BY Zenon, <1>1, <1>2, <2>1, WakeFacts
<1>4. TypeOK'
  <2>1. seq' \in [Threads -> Nat] /\ all' \in [Threads -> BOOLEAN]
    BY Zenon, <1>1, <1>2 DEF TypeOK
  <2> QED BY Zenon, <1>1, <1>2, <1>3, <2>1 DEF TypeOK, waitVars, queueVars, mainVars
<1>5. MutexInv'
  <2>1. \A u \in Threads : Holds(u)' <=> Holds(u)
    BY Zenon, <1>1, <1>3 DEF Holds
  <2> QED BY Zenon, <1>1, <1>2, <2>1, MutexFrame
<1>6. WaitInv'
  BY Zenon, <1>1, <1>2, <1>3 DEF WaitInv, waitVars
<1>7. NoLostWakeup'
  <2>1. Rouser(t)'
    BY Zenon, <1>3 DEF Rouser, Holds
  <2> QED BY Zenon, <1>6, <2>1, WakeupFromRouser
<1>8. CountInv'
  <2>1. \A u \in Threads : pc[u] = "asleep" => todo[u] > 0
    BY Zenon, <1>2 DEF CountInv, Wanting
  <2>2. \A u \in Threads : \/ pc'[u] = pc[u]
                           \/ pc'[u] # "moving" /\ (pc'[u] \in Wanting => todo[u] > 0)
    BY Zenon, <1>1, <1>3, <2>1 DEF Wanting
  <2> QED BY Zenon, <1>1, <1>2, <2>2, CountFrame
<1>9. MainInv' /\ SlotInv'
  <2>1. \A u \in Threads : pc'[u] = pc[u] \/ (pc[u] \in Born /\ pc'[u] \in Born)
    BY Zenon, <1>1, <1>3 DEF Born
  <2> QED BY Zenon, <1>2, <2>1, MainFrame
<1> QED BY Zenon, <1>4, <1>5, <1>6, <1>7, <1>8, <1>9 DEF UThreadInv

\* cond_wait() notes the sequence number of its condition while it holds the mutex.
LEMMA CondWaitStep ==
  ASSUME UThreadInv, NEW t \in Threads, cond_wait(t), UNCHANGED mainVars
  PROVE  UThreadInv'
<1>1. /\ pc[t] = "locked" /\ Goto(t, "wait_unlock")
      /\ word' = [word EXCEPT ![t] = Waits(t)] /\ expected' = [expected EXCEPT ![t] = val[Waits(t)]]
      /\ UNCHANGED <<futexVars, signalVars, queueVars>>
  BY Zenon DEF cond_wait
<1>2. TypeOK /\ MutexInv /\ WaitInv /\ NoLostWakeup /\ CountInv /\ MainInv /\ SlotInv
  BY Zenon DEF UThreadInv
<1>3. /\ pc'[t] = "wait_unlock" /\ \A u \in Threads : u # t => pc'[u] = pc[u]
      /\ pc' \in [Threads -> Places]
  BY Zenon, <1>1, <1>2, Goes DEF Places
<1>4. /\ word' \in [Threads -> Words] /\ expected' \in [Threads -> Nat] /\ word'[t] # "qlock"
      /\ \A u \in Threads : u # t => word'[u] = word[u] /\ expected'[u] = expected[u]
  <2>1. Waits(t) \in Words /\ Waits(t) # "qlock"
    BY Zenon DEF Waits, Words, Conds
  <2>2. val[Waits(t)] \in Nat
    BY Zenon, <1>2, <2>1 DEF TypeOK
  <2> QED BY Zenon, <1>1, <1>2, <2>1, <2>2 DEF TypeOK
<1>5. TypeOK'
  BY Zenon, <1>1, <1>2, <1>3, <1>4 DEF TypeOK, futexVars, signalVars, queueVars, mainVars
<1>6. MutexInv'
  BY Zenon, <1>1, <1>2, <1>3, MutexFrame DEF Holds, futexVars
<1>7. WaitInv'
  BY Zenon, <1>1, <1>2, <1>3, <1>4 DEF WaitInv, futexVars
<1>8. NoLostWakeup'
  <2>1. Rouser(t)'
    BY Zenon, <1>3 DEF Rouser, Holds
  <2> QED BY Zenon, <1>7, <2>1, WakeupFromRouser
<1>9. CountInv'
  <2>1. todo[t] > 0
    BY Zenon, <1>1, <1>2 DEF CountInv, Wanting
  <2> QED BY Zenon, <1>1, <1>2, <1>3, <2>1, CountFrame DEF Wanting
<1>10. MainInv' /\ SlotInv'
  BY Zenon, <1>1, <1>2, <1>3, MainFrame DEF Born
<1> QED BY Zenon, <1>5, <1>6, <1>7, <1>8, <1>9, <1>10 DEF UThreadInv

\* cond_signal() reads the sequence number, and stores one more, of a word that is not the mutex.
LEMMA SignalSteps ==
  ASSUME UThreadInv, NEW t \in Threads, cond_signal(t) \/ signal_bump(t), UNCHANGED mainVars
  PROVE  UThreadInv'
<1> DEFINE place == IF pc[t] = "signal" THEN "bump" ELSE "signal_wake"
<1>1. /\ pc[t] \in {"signal", "bump"} /\ Goto(t, place)
      /\ UNCHANGED <<chan, waitVars, queueVars>>
  BY Zenon DEF cond_signal, signal_bump, futexVars
<1>2. TypeOK /\ MutexInv /\ WaitInv /\ NoLostWakeup /\ CountInv /\ MainInv /\ SlotInv
  BY Zenon DEF UThreadInv
<1>3. /\ pc'[t] = place /\ \A u \in Threads : u # t => pc'[u] = pc[u]
      /\ pc' \in [Threads -> Places]
  BY Zenon, <1>1, <1>2, Goes DEF Places
<1>4. /\ val' \in [Words -> Nat] /\ val'["qlock"] = val["qlock"]
      /\ frame' \in [Words -> {"old", "own"}] /\ frame'["qlock"] = frame["qlock"]
      /\ seq' \in [Threads -> Nat] /\ all' \in [Threads -> BOOLEAN]
  <2>1. Wakes(t) \in Words /\ Wakes(t) # "qlock" /\ "qlock" \in Words
    BY Zenon DEF Wakes, Words, Conds
  <2>2. /\ val \in [Words -> Nat] /\ frame \in [Words -> {"old", "own"}]
        /\ seq \in [Threads -> Nat] /\ all \in [Threads -> BOOLEAN]
    BY Zenon, <1>2 DEF TypeOK
  <2>3. CASE cond_signal(t)
    <3>1. UNCHANGED <<val, frame>> /\ seq' = [seq EXCEPT ![t] = val[Wakes(t)]]
      BY Zenon, <2>3 DEF cond_signal, futexVars
    <3>2. \E b \in BOOLEAN : all' = [all EXCEPT ![t] = b]
      BY Zenon, <2>3 DEF cond_signal
    <3>3. all' \in [Threads -> BOOLEAN]
      BY Zenon, <2>2, <3>2
    <3> QED BY Zenon, <2>1, <2>2, <3>1, <3>3
  <2>4. CASE signal_bump(t)
    BY <2>1, <2>2, <2>4 DEF signal_bump, Store, signalVars
  <2> QED BY Zenon, <2>3, <2>4
<1>5. TypeOK'
  BY Zenon, <1>1, <1>2, <1>3, <1>4 DEF TypeOK, waitVars, queueVars, mainVars
<1>6. MutexInv'
  BY Zenon, <1>1, <1>2, <1>3, <1>4, MutexFrame DEF Holds
<1>7. WaitInv'
  BY Zenon, <1>1, <1>2, <1>3, <1>4 DEF WaitInv, waitVars
<1>8. NoLostWakeup'
  <2>1. Rouser(t)'
    BY Zenon, <1>3 DEF Rouser, Holds
  <2> QED BY Zenon, <1>7, <2>1, WakeupFromRouser
<1>9. CountInv'
  BY Zenon, <1>1, <1>2, <1>3, CountFrame DEF Wanting
<1>10. MainInv' /\ SlotInv'
  BY Zenon, <1>1, <1>2, <1>3, MainFrame DEF Born
<1> QED BY Zenon, <1>5, <1>6, <1>7, <1>8, <1>9, <1>10 DEF UThreadInv

\* The owner of the mutex loads the count; nobody else can be between a load and a store.
LEMMA MoveStep ==
  ASSUME UThreadInv, NEW t \in Threads, move(t), UNCHANGED mainVars
  PROVE  UThreadInv'
<1>1. /\ pc[t] = "locked" /\ Ready(t) /\ count' = [count EXCEPT ![t] = qcount] /\ Goto(t, "moving")
      /\ UNCHANGED <<futexVars, waitVars, signalVars, qcount, todo>>
  BY Zenon DEF move
<1>2. TypeOK /\ MutexInv /\ WaitInv /\ NoLostWakeup /\ CountInv /\ MainInv /\ SlotInv
  BY Zenon DEF UThreadInv
<1>3. /\ pc'[t] = "moving" /\ \A u \in Threads : u # t => pc'[u] = pc[u]
      /\ pc' \in [Threads -> Places]
  BY Zenon, <1>1, <1>2, Goes DEF Places
<1>4. /\ count' \in [Threads -> 0..BUFSZ] /\ count'[t] = qcount
      /\ \A u \in Threads : u # t => count'[u] = count[u]
  BY Zenon, <1>1, <1>2 DEF TypeOK
<1>5. TypeOK'
  BY Zenon, <1>1, <1>2, <1>3, <1>4 DEF TypeOK, futexVars, waitVars, signalVars, mainVars
<1>6. MutexInv'
  BY Zenon, <1>1, <1>2, <1>3, MutexFrame DEF Holds, futexVars
<1>7. WaitInv'
  BY Zenon, <1>1, <1>2, <1>3 DEF WaitInv, futexVars, waitVars
<1>8. NoLostWakeup'
  <2>1. Rouser(t)'
    BY Zenon, <1>3 DEF Rouser, Holds
  <2> QED BY Zenon, <1>7, <2>1, WakeupFromRouser
<1>9. CountInv'
  <2>1. \A S : Moved(S)' = Moved(S)
    BY Zenon, <1>1 DEF Moved, Items
  <2>2. qcount' = Moved(Producers)' - Moved(Consumers)'
    BY Zenon, <1>1, <1>2, <2>1 DEF CountInv
  <2>3. \A u \in Threads : Ready(u)' <=> Ready(u)
    BY Zenon, <1>1 DEF Ready
  <2>4. ASSUME NEW u \in Threads
        PROVE  /\ todo'[u] <= Share(u) /\ (pc'[u] \in Wanting => todo'[u] > 0)
               /\ pc'[u] = "moving" => count'[u] = qcount' /\ Ready(u)'
    BY Zenon, <1>1, <1>2, <1>3, <1>4, <2>3 DEF CountInv, Wanting
  <2> QED BY Zenon, <2>2, <2>4 DEF CountInv
<1>10. MainInv' /\ SlotInv'
  BY Zenon, <1>1, <1>2, <1>3, MainFrame DEF Born
<1> QED BY Zenon, <1>5, <1>6, <1>7, <1>8, <1>9, <1>10 DEF UThreadInv

\* ... and stores it, one more or one less, for the one item that it has moved.
LEMMA MovedStep ==
  ASSUME UThreadInv, NEW t \in Threads, moved(t), UNCHANGED mainVars
  PROVE  UThreadInv'
<1>1. /\ pc[t] = "moving"
      /\ qcount' = IF t \in Producers THEN count[t] + 1 ELSE count[t] - 1
      /\ todo' = [todo EXCEPT ![t] = @ - 1] /\ count' = [count EXCEPT ![t] = 0]
      /\ Goto(t, "signal") /\ UNCHANGED <<futexVars, waitVars, signalVars>>
  BY Zenon DEF moved
<1>2. TypeOK /\ MutexInv /\ WaitInv /\ NoLostWakeup /\ CountInv /\ MainInv /\ SlotInv
  BY Zenon DEF UThreadInv
<1>3. /\ pc'[t] = "signal" /\ \A u \in Threads : u # t => pc'[u] = pc[u]
      /\ pc' \in [Threads -> Places]
  BY Zenon, <1>1, <1>2, Goes DEF Places
<1>4. /\ todo[t] > 0 /\ todo[t] <= Share(t) /\ count[t] = qcount /\ Ready(t)
      /\ qcount = Moved(Producers) - Moved(Consumers)
  BY Zenon, <1>1, <1>2 DEF CountInv, Wanting
<1>5. /\ todo \in [Threads -> Nat] /\ qcount \in 0..BUFSZ /\ count \in [Threads -> 0..BUFSZ]
  BY Zenon, <1>2 DEF TypeOK
<1>6. /\ todo' \in [Threads -> Nat] /\ todo'[t] = todo[t] - 1
      /\ \A u \in Threads : u # t => todo'[u] = todo[u] /\ count'[u] = count[u]
      /\ count' \in [Threads -> 0..BUFSZ]
  BY <1>1, <1>4, <1>5, ItemsAssumption
<1>7. qcount' \in 0..BUFSZ
  BY <1>1, <1>4, <1>5, ItemsAssumption DEF Ready
<1>8. TypeOK'
  BY Zenon, <1>1, <1>2, <1>3, <1>6, <1>7 DEF TypeOK, futexVars, waitVars, signalVars, mainVars
<1>9. MutexInv'
  BY Zenon, <1>1, <1>2, <1>3, MutexFrame DEF Holds, futexVars
<1>10. WaitInv'
  BY Zenon, <1>1, <1>2, <1>3 DEF WaitInv, futexVars, waitVars
<1>11. NoLostWakeup'
  <2>1. Rouser(t)'
    BY Zenon, <1>3 DEF Rouser, Holds
  <2> QED BY Zenon, <1>10, <2>1, WakeupFromRouser
<1>12. CountInv'
  <2>1. Producers \in SUBSET Threads /\ Consumers \in SUBSET Threads /\ (t \in Consumers <=> t \notin Producers)
    BY Zenon, ThreadsAssumption DEF Consumers
  <2>2. /\ Moved(Producers)' = Moved(Producers) + (IF t \in Producers THEN 1 ELSE 0)
        /\ Moved(Consumers)' = Moved(Consumers) + (IF t \in Consumers THEN 1 ELSE 0)
    BY Zenon, <1>1, <1>2, <1>4, <2>1, OneMoved
  <2>3. Moved(Producers) \in Nat /\ Moved(Consumers) \in Nat
    BY Zenon, <1>5, <2>1, ItemsFinite
  <2>4. qcount' = Moved(Producers)' - Moved(Consumers)'
    BY <1>1, <1>4, <2>1, <2>2, <2>3
  <2>5. \A u \in Threads : pc'[u] # "moving"
    BY Zenon, <1>1, <1>2, <1>3 DEF MutexInv, Holds
  <2>6. Share(t) \in Nat
    BY Zenon, ShareNat
  <2>7. ASSUME NEW u \in Threads
        PROVE  todo'[u] <= Share(u) /\ (pc'[u] \in Wanting => todo'[u] > 0)
    <3>1. CASE u = t
      BY <1>3, <1>4, <1>5, <1>6, <2>6, <3>1 DEF Wanting
    <3>2. CASE u # t
      BY Zenon, <1>2, <1>3, <1>6, <3>2 DEF CountInv
    <3> QED BY Zenon, <3>1, <3>2
  <2> QED BY Zenon, <2>4, <2>5, <2>7 DEF CountInv
<1>13. MainInv' /\ SlotInv'
  BY Zenon, <1>1, <1>2, <1>3, MainFrame DEF Born
<1> QED BY Zenon, <1>8, <1>9, <1>10, <1>11, <1>12, <1>13 DEF UThreadInv

\* The main thread starts and joins threads that have no part in the mutex.
LEMMA ThreadsFrame ==
  ASSUME UThreadInv, UNCHANGED <<futexVars, waitVars, signalVars, queueVars>>,
         pc' \in [Threads -> Places],
         \A u \in Threads : pc'[u] = pc[u] \/ (pc[u] \in {"none", "done"} /\ pc'[u] \in {"start", "joined"}),
         slots' \in [Slots -> Threads \cup {NoThread}],
         main' \in {"create", "clone", "join", "exit"}, new' \in Threads \cup {NoThread},
         MainInv', SlotInv'
  PROVE  UThreadInv'
<1>1. TypeOK /\ MutexInv /\ WaitInv /\ NoLostWakeup /\ CountInv
  BY Zenon DEF UThreadInv
<1>2. TypeOK'
  BY Zenon, <1>1 DEF TypeOK, futexVars, waitVars, signalVars, queueVars
<1>3. MutexInv'
  <2>1. \A u \in Threads : Holds(u)' <=> Holds(u)
    BY Zenon DEF Holds
  <2> QED BY Zenon, <1>1, <2>1, MutexFrame DEF futexVars
<1>4. WaitInv'
  BY Zenon, <1>1 DEF WaitInv, futexVars, waitVars
<1>5. NoLostWakeup'
  <2>1. \A u \in Threads : Rouser(u) => Rouser(u)'
    BY Zenon DEF Rouser, Holds
  <2>2. \A u \in Threads : pc'[u] = "asleep" /\ word'[u] = "qlock" => pc[u] = "asleep" /\ word[u] = "qlock"
    BY Zenon DEF waitVars
  <2> QED BY Zenon, <1>1, <1>4, <2>1, <2>2, WakeupFromRouser DEF NoLostWakeup, Rouser
<1>6. CountInv'
  BY Zenon, <1>1, CountFrame DEF Wanting
<1> QED BY Zenon, <1>2, <1>3, <1>4, <1>5, <1>6 DEF UThreadInv

\* The slots that hold the stack of thread t.
SlotsOf(t) == {s \in Slots : slots[s] = t}

LEMMA SlotFacts ==
  ASSUME NEW t
  PROVE  /\ IsFiniteSet(SlotsOf(t)) /\ IsFiniteSet(SlotsOf(t)')
         /\ Cardinality(SlotsOf(t)) = 0 <=> SlotsOf(t) = {}
         /\ Cardinality({}) = 0 /\ \A s : Cardinality({s}) = 1
<1>1. IsFiniteSet(Slots)
  BY SlotsAssumption, FS_Interval DEF Slots
<1>2. SlotsOf(t) \subseteq Slots /\ SlotsOf(t)' \subseteq Slots
  BY Zenon DEF SlotsOf
<1>3. IsFiniteSet(SlotsOf(t)) /\ IsFiniteSet(SlotsOf(t)')
  BY Zenon, <1>1, <1>2, FS_Subset
<1> QED BY Zenon, <1>3, FS_EmptySet, FS_Singleton

\* thread_create() gives a free slot to a thread that has none.
LEMMA ThreadCreateStep ==
  ASSUME UThreadInv, thread_create
  PROVE  UThreadInv'
<1>1. /\ main = "create"
      /\ UNCHANGED <<futexVars, pc, waitVars, signalVars, queueVars>>
  BY Zenon DEF thread_create
<1>2. TypeOK /\ MainInv /\ SlotInv
  BY Zenon DEF UThreadInv
<1>3. new = NoThread /\ Unborn # {} /\ pc' \in [Threads -> Places]
  BY Zenon, <1>1, <1>2 DEF MainInv, TypeOK
<1>4. Unborn' = Unborn
  BY Zenon, <1>1 DEF Unborn
<1>5. CASE FreeSlots = {}
  <2>1. main' = "join" /\ UNCHANGED <<slots, new>>
    BY Zenon, <1>5 DEF thread_create
  <2>2. MainInv'
    BY Zenon, <1>1, <1>3, <2>1 DEF MainInv
  <2>3. SlotInv'
    BY Zenon, <1>1, <1>2, <2>1 DEF SlotInv
  <2> QED BY Zenon, <1>1, <1>2, <1>3, <2>1, <2>2, <2>3, ThreadsFrame DEF TypeOK
<1>6. CASE FreeSlots # {}
  <2> DEFINE n == Min(Unborn)
             f == Min(FreeSlots)
  <2>1. new' = n /\ slots' = [slots EXCEPT ![f] = n] /\ main' = "clone"
    BY Zenon, <1>6 DEF thread_create
  <2>2. n \in Threads /\ pc[n] = "none" /\ n # NoThread
    <3>1. Unborn \in SUBSET Nat
      BY Zenon, ThreadsFinite DEF Unborn
    <3>2. n \in Unborn
      BY Zenon, <1>3, <3>1, MinInSet
    <3> QED BY Zenon, <3>2, ThreadsFinite DEF Unborn
  <2>3. f \in Slots /\ slots[f] = NoThread
    <3>1. FreeSlots \in SUBSET Nat
      BY SlotsAssumption DEF FreeSlots, Slots
    <3>2. f \in FreeSlots
      BY Zenon, <1>6, <3>1, MinInSet
    <3> QED BY Zenon, <3>2 DEF FreeSlots
  <2> HIDE DEF n, f
  <2>4. slots \in [Slots -> Threads \cup {NoThread}]
    BY Zenon, <1>2 DEF TypeOK
  <2>5. slots' \in [Slots -> Threads \cup {NoThread}]
    BY Zenon, <2>1, <2>2, <2>3, <2>4
  <2>6. MainInv'
    BY Zenon, <1>1, <2>1, <2>2 DEF MainInv
  <2>7. SlotInv'
    <3>1. ASSUME NEW u \in Threads
          PROVE  Cardinality(SlotsOf(u)') = IF u = new' \/ pc'[u] \notin {"none", "joined"} THEN 1 ELSE 0
      <4>1. Cardinality(SlotsOf(u)) = IF u = new \/ pc[u] \notin {"none", "joined"} THEN 1 ELSE 0
        BY Zenon, <1>2 DEF SlotInv, SlotsOf
      <4>2. u # NoThread
        BY Zenon, ThreadsFinite
      <4>3. CASE u = n
        <5>1. SlotsOf(u) = {}
          BY Zenon, <1>3, <2>2, <4>1, <4>2, <4>3, SlotFacts
        <5>2. SlotsOf(u)' = {f}
          BY Zenon, <2>1, <2>3, <2>4, <4>3, <5>1 DEF SlotsOf
        <5> QED BY Zenon, <2>1, <4>3, <5>2, SlotFacts
      <4>4. CASE u # n
        <5>1. SlotsOf(u)' = SlotsOf(u)
          BY Zenon, <2>1, <2>3, <2>4, <4>2, <4>4 DEF SlotsOf
        <5> QED BY Zenon, <1>1, <1>3, <2>1, <4>1, <4>2, <4>4, <5>1
      <4> QED BY Zenon, <4>3, <4>4
    <3> QED BY Zenon, <3>1 DEF SlotInv, SlotsOf
  <2> QED BY Zenon, <1>1, <1>3, <2>1, <2>2, <2>5, <2>6, <2>7, ThreadsFrame
<1> QED BY Zenon, <1>5, <1>6

\* clone() starts the thread that has been given a slot.
LEMMA CloneStep ==
  ASSUME UThreadInv, clone
  PROVE  UThreadInv'
<1>1. /\ main = "clone" /\ pc' = [pc EXCEPT ![new] = "start"] /\ new' = NoThread
      /\ main' = IF Unborn = {new} THEN "join" ELSE "create"
      /\ UNCHANGED <<futexVars, waitVars, signalVars, queueVars, slots>>
  BY Zenon DEF clone
<1>2. TypeOK /\ MainInv /\ SlotInv
  BY Zenon DEF UThreadInv
<1>3. new \in Threads /\ pc[new] = "none" /\ new # NoThread
  BY Zenon, <1>1, <1>2 DEF MainInv, TypeOK
<1>4. /\ pc' \in [Threads -> Places] /\ pc'[new] = "start"
      /\ \A u \in Threads : u # new => pc'[u] = pc[u]
  BY Zenon, <1>1, <1>2, <1>3 DEF TypeOK, Places
<1>5. MainInv'
  <2>1. Unborn # {new} => Unborn' # {}
    <3>1. new \in Unborn
      BY Zenon, <1>3 DEF Unborn
    <3>2. Unborn # {new} => \E u \in Unborn : u # new
      BY Zenon, <3>1
    <3> QED BY Zenon, <1>4, <3>2 DEF Unborn
  <2> QED BY Zenon, <1>1, <2>1 DEF MainInv
<1>6. SlotInv'
  <2>1. ASSUME NEW u \in Threads
        PROVE  (u = new' \/ pc'[u] \notin {"none", "joined"}) <=> (u = new \/ pc[u] \notin {"none", "joined"})
    BY Zenon, <1>1, <1>3, <1>4, ThreadsFinite
  <2> QED BY Zenon, <1>1, <1>2, <2>1 DEF SlotInv
<1>7. slots' \in [Slots -> Threads \cup {NoThread}] /\ new' \in Threads \cup {NoThread}
  BY Zenon, <1>1, <1>2 DEF TypeOK
<1> QED BY Zenon, <1>1, <1>3, <1>4, <1>5, <1>6, <1>7, ThreadsFrame

\* The slots of a thread are free when they have been released, and no others.
LEMMA ReleasedFacts ==
  ASSUME TypeOK, NEW t \in Threads, slots' = Released(t)
  PROVE  /\ slots' \in [Slots -> Threads \cup {NoThread}]
         /\ SlotsOf(t)' = {}
         /\ \A u \in Threads : u # t => SlotsOf(u)' = SlotsOf(u)
<1>1. slots \in [Slots -> Threads \cup {NoThread}] /\ NoThread \notin Threads
  BY Zenon, ThreadsFinite DEF TypeOK
<1> QED BY <1>1 DEF Released, SlotsOf

\* When clone() fails the new thread has no slot any more.
LEMMA CloneFailsStep ==
  ASSUME UThreadInv, clone_fails
  PROVE  UThreadInv'
<1>1. /\ main = "clone" /\ slots' = Released(new) /\ new' = NoThread /\ main' = "create"
      /\ UNCHANGED <<futexVars, pc, waitVars, signalVars, queueVars>>
  BY Zenon DEF clone_fails
<1>2. TypeOK /\ MainInv /\ SlotInv
  BY Zenon DEF UThreadInv
<1>3. new \in Threads /\ pc[new] = "none" /\ new # NoThread /\ pc' \in [Threads -> Places]
  BY Zenon, <1>1, <1>2 DEF MainInv, TypeOK
<1>4. MainInv'
  <2>1. new \in Unborn'
    BY Zenon, <1>1, <1>3 DEF Unborn
  <2> QED BY Zenon, <1>1, <2>1 DEF MainInv
<1>5. /\ slots' \in [Slots -> Threads \cup {NoThread}]
      /\ \A u \in Threads : SlotsOf(u)' = IF u = new THEN {} ELSE SlotsOf(u)
  <2>1. PICK n \in Threads : n = new
    BY Zenon, <1>3
  <2>2. slots' = Released(n)
    BY Zenon, <1>1, <2>1
  <2> QED BY Zenon, <1>2, <2>1, <2>2, ReleasedFacts
<1>6. SlotInv'
  <2>1. ASSUME NEW u \in Threads
        PROVE  Cardinality(SlotsOf(u)') = IF u = new' \/ pc'[u] \notin {"none", "joined"} THEN 1 ELSE 0
    <3>1. Cardinality(SlotsOf(u)) = IF u = new \/ pc[u] \notin {"none", "joined"} THEN 1 ELSE 0
      BY Zenon, <1>2 DEF SlotInv, SlotsOf
    <3>2. u # NoThread
      BY Zenon, ThreadsFinite
    <3>3. CASE u = new
      <4>1. SlotsOf(u)' = {}
        BY Zenon, <1>5, <3>3
      <4> QED BY Zenon, <1>1, <1>3, <3>2, <3>3, <4>1, SlotFacts
    <3>4. CASE u # new
      BY Zenon, <1>1, <1>5, <3>1, <3>2, <3>4
    <3> QED BY Zenon, <3>3, <3>4
  <2> QED BY Zenon, <2>1 DEF SlotInv, SlotsOf
<1> QED BY Zenon, <1>1, <1>3, <1>4, <1>5, <1>6, ThreadsFrame

\* join() frees the slots of a thread that has ended.
LEMMA ThreadJoinStep ==
  ASSUME UThreadInv, thread_join
  PROVE  UThreadInv'
<1> DEFINE exited == {u \in Threads : pc[u] = "done"}
           t == Min(exited)
<1>1. /\ main = "join" /\ exited # {} /\ pc' = [pc EXCEPT ![t] = "joined"] /\ slots' = Released(t)
      /\ main' = IF Unborn # {} THEN "create"
                 ELSE IF \A u \in Threads \ {t} : pc[u] = "joined" THEN "exit" ELSE "join"
      /\ UNCHANGED <<futexVars, waitVars, signalVars, queueVars, new>>
  BY Zenon DEF thread_join
<1>2. TypeOK /\ MainInv /\ SlotInv
  BY Zenon DEF UThreadInv
<1>3. t \in Threads /\ pc[t] = "done"
  <2>1. exited \in SUBSET Nat
    BY Zenon, ThreadsFinite
  <2>2. t \in exited
    BY Zenon, <1>1, <2>1, MinInSet
  <2> QED BY Zenon, <2>2
<1> HIDE DEF t, exited
<1>4. new = NoThread
  BY Zenon, <1>1, <1>2 DEF MainInv
<1>5. /\ pc' \in [Threads -> Places] /\ pc'[t] = "joined"
      /\ \A u \in Threads : u # t => pc'[u] = pc[u]
  BY Zenon, <1>1, <1>2, <1>3 DEF TypeOK, Places
<1>6. Unborn' = Unborn
  BY Zenon, <1>3, <1>5 DEF Unborn
<1>7. main' \in {"create", "join", "exit"} /\ (main' = "create" => Unborn # {})
  BY Zenon, <1>1
<1>8. MainInv'
  BY Zenon, <1>1, <1>4, <1>6, <1>7 DEF MainInv
<1>9. /\ slots' \in [Slots -> Threads \cup {NoThread}]
      /\ \A u \in Threads : SlotsOf(u)' = IF u = t THEN {} ELSE SlotsOf(u)
  <2>1. PICK n \in Threads : n = t
    BY Zenon, <1>3
  <2>2. slots' = Released(n)
    BY Zenon, <1>1, <2>1
  <2> QED BY Zenon, <1>2, <2>1, <2>2, ReleasedFacts
<1>10. SlotInv'
  <2>1. ASSUME NEW u \in Threads
        PROVE  Cardinality(SlotsOf(u)') = IF u = new' \/ pc'[u] \notin {"none", "joined"} THEN 1 ELSE 0
    <3>1. Cardinality(SlotsOf(u)) = IF u = new \/ pc[u] \notin {"none", "joined"} THEN 1 ELSE 0
      BY Zenon, <1>2 DEF SlotInv, SlotsOf
    <3>2. u # NoThread
      BY Zenon, ThreadsFinite
    <3>3. CASE u = t
      <4>1. SlotsOf(u)' = {}
        BY Zenon, <1>9, <3>3
      <4> QED BY Zenon, <1>1, <1>4, <1>5, <3>2, <3>3, <4>1, SlotFacts
    <3>4. CASE u # t
      BY Zenon, <1>1, <1>4, <1>5, <1>9, <3>1, <3>2, <3>4
    <3> QED BY Zenon, <3>3, <3>4
  <2> QED BY Zenon, <2>1 DEF SlotInv, SlotsOf
<1> QED BY Zenon, <1>1, <1>3, <1>4, <1>5, <1>7, <1>8, <1>9, <1>10, ThreadsFrame
-----------------------------------------------------------------------------
\* Before the first thread is created everything is at rest.
LEMMA UThreadInvInit == Init => UThreadInv
<1> SUFFICES ASSUME Init PROVE UThreadInv
  OBVIOUS
<1>1. \A t \in Threads : pc[t] = "none" /\ todo[t] = Share(t)
  BY Zenon DEF Init
<1>2. TypeOK
  <2>1. val \in [Words -> Nat] /\ val["qlock"] \in {0, 1} /\ frame \in [Words -> {"old", "own"}]
    BY Zenon DEF Init, Words
  <2>2. pc \in [Threads -> Places] /\ word \in [Threads -> Words]
    BY Zenon DEF Init, Places, Words
  <2>3. /\ expected \in [Threads -> Nat] /\ chan \in [Threads -> (Words \X {"old", "own"}) \cup {NoChan}]
        /\ seq \in [Threads -> Nat] /\ all \in [Threads -> BOOLEAN]
    BY Zenon DEF Init
  <2>4. qcount \in 0..BUFSZ /\ count \in [Threads -> 0..BUFSZ] /\ todo \in [Threads -> Nat]
    BY ItemsAssumption, ShareNat DEF Init
  <2>5. /\ slots \in [Slots -> Threads \cup {NoThread}]
        /\ main \in {"create", "clone", "join", "exit"} /\ new \in Threads \cup {NoThread}
    BY Zenon DEF Init
  <2> QED BY Zenon, <2>1, <2>2, <2>3, <2>4, <2>5 DEF TypeOK
<1>3. MutexInv
  BY <1>1 DEF MutexInv, Holds, Init, Words
<1>4. WaitInv /\ NoLostWakeup
  BY Zenon, <1>1 DEF WaitInv, NoLostWakeup
<1>5. CountInv
  <2>1. \A t \in Threads : (todo[t] + 1)..Share(t) = {}
    BY <1>1, ShareNat
  <2>2. \A S \in SUBSET Threads : Items(S) = {}
    <3>1. ASSUME NEW S \in SUBSET Threads, NEW x PROVE x \notin Items(S)
      BY <2>1, InItems
    <3> QED BY Zenon, <3>1
  <2>3. Moved(Producers) = 0 /\ Moved(Consumers) = 0
    BY Zenon, <2>2, ThreadsAssumption, FS_EmptySet DEF Moved, Consumers
  <2>4. qcount = 0
    BY Zenon DEF Init
  <2> QED BY <1>1, <2>3, <2>4, ShareNat DEF CountInv, Wanting
<1>6. MainInv
  <2>1. Unborn = Threads
    BY Zenon, <1>1 DEF Unborn
  <2>2. 1 \in Threads
    BY ThreadsAssumption DEF Threads
  <2> QED BY Zenon, <2>1, <2>2 DEF MainInv, Init
<1>7. SlotInv
  <2>1. ASSUME NEW t \in Threads PROVE {s \in Slots : slots[s] = t} = {}
    BY Zenon, ThreadsFinite DEF Init
  <2>2. new = NoThread /\ NoThread \notin Threads
    BY Zenon, ThreadsFinite DEF Init
  <2> QED BY Zenon, <1>1, <2>1, <2>2, FS_EmptySet DEF SlotInv
<1> QED BY Zenon, <1>2, <1>3, <1>4, <1>5, <1>6, <1>7 DEF UThreadInv

\* Every step keeps the inductive invariant.
LEMMA UThreadInvStep == UThreadInv /\ [Next]_vars => UThreadInv'
<1> SUFFICES ASSUME UThreadInv, [Next]_vars PROVE UThreadInv'
  OBVIOUS
<1>1. CASE Main
  BY Zenon, <1>1, ThreadCreateStep, CloneStep, CloneFailsStep, ThreadJoinStep DEF Main
<1>2. ASSUME NEW t \in Threads, Step(t), UNCHANGED mainVars PROVE UThreadInv'
  <2>1. CASE start(t) \/ mutex_trylock(t) \/ mutex_lock(t) \/ mutex_unlock(t) \/ unlock_wake(t)
    BY Zenon, <1>2, <2>1, StartStep, TrylockStep, LockStep, UnlockStep, UnlockWakeStep
  <2>2. CASE futex_wait(t) \/ futex_sleep(t) \/ cond_wait(t)
    BY Zenon, <1>2, <2>2, FutexWaitStep, FutexSleepStep, CondWaitStep
  <2>3. CASE cond_signal(t) \/ signal_bump(t) \/ signal_wake(t) \/ move(t) \/ moved(t)
    BY Zenon, <1>2, <2>3, SignalSteps, SignalWakeStep, MoveStep, MovedStep
  <2> QED BY Zenon, <1>2, <2>1, <2>2, <2>3 DEF Step
<1>3. CASE UNCHANGED vars
  <2>1. UNCHANGED <<futexVars, pc, waitVars, signalVars, queueVars, mainVars>>
    BY Zenon, <1>3 DEF vars
  <2>2. TypeOK /\ MainInv /\ SlotInv
    BY Zenon DEF UThreadInv
  <2>3. MainInv' /\ SlotInv'
    BY Zenon, <2>1, <2>2, MainFrame
  <2> QED BY Zenon, <2>1, <2>2, <2>3, ThreadsFrame DEF TypeOK, mainVars
<1> QED BY Zenon, <1>1, <1>2, <1>3 DEF Next

(* mutex_lock(), mutex_trylock() and mutex_unlock() give mutual exclusion, *)
(* and the word of the mutex is 1 exactly while some thread holds it, for  *)
(* any number of threads.                                                  *)
THEOREM MutualExclusion == Spec => []MutexInv
<1>1. UThreadInv => MutexInv
  BY Zenon DEF UThreadInv
<1> QED BY <1>1, UThreadInvInit, UThreadInvStep, PTL DEF Spec

(* futex_wait() and futex_wake() lose no wakeup of the mutex: whoever      *)
(* sleeps on it sleeps where it will be looked for, and another thread     *)
(* holds it, is about to wake a sleeper, or is about to try.               *)
THEOREM MutexWakeups == Spec => []NoLostWakeup
<1>1. UThreadInv => NoLostWakeup
  BY Zenon DEF UThreadInv
<1> QED BY <1>1, UThreadInvInit, UThreadInvStep, PTL DEF Spec

(* The count of the bounded buffer is exact and stays within its size,     *)
(* although qcount++ and qcount-- are a load and a store.                  *)
THEOREM BufferIsExact == Spec => []ExactCount
<1>1. UThreadInv => ExactCount
  BY Zenon DEF UThreadInv, CountInv, ExactCount
<1> QED BY <1>1, UThreadInvInit, UThreadInvStep, PTL DEF Spec

(* thread_create() and thread_join() keep one slot for every thread that   *)
(* may still use its stack, and none for any other.                        *)
THEOREM OneSlotPerThread == Spec => []SlotInv
<1>1. UThreadInv => SlotInv
  BY Zenon DEF UThreadInv
<1> QED BY <1>1, UThreadInvInit, UThreadInvStep, PTL DEF Spec
=============================================================================
