-------------------------- MODULE RunQueueProofs --------------------------
(***************************************************************************)
(* What the run-queue operators of RunQueue return, for every number of    *)
(* processes, processors and levels.                                       *)
(***************************************************************************)
EXTENDS RunQueue, TLAPS, WellFoundedInduction, FiniteSetTheorems

\* Every non-empty set of naturals has a least element.
LEMMA NatMin ==
  ASSUME NEW T \in SUBSET Nat, T # {}
  PROVE  \E x \in T : \A y \in T : x <= y
<1> DEFINE R == OpToRel(<, Nat)
<1>1. IsWellFoundedOn(R, Nat)
  BY Zenon, NatLessThanWellFounded
<1>2. \A x, y \in Nat : x < y => <<x, y>> \in R
  BY Zenon DEF OpToRel
<1> HIDE DEF R
<1>3. PICK x \in T : \A y \in T : ~ (<<y, x>> \in R)
  BY Zenon, <1>1, WFMin
<1>4. ASSUME NEW y \in T PROVE x <= y
  <2>1. x \in Nat /\ y \in Nat
    OBVIOUS
  <2>2. ~ (y < x)
    BY Zenon, <1>2, <1>3, <2>1
  <2> QED BY <2>1, <2>2
<1> QED BY Zenon, <1>4

\* Induction on the naturals, for a set instead of a predicate.
LEMMA NatInduct ==
  ASSUME NEW T \in SUBSET Nat, 0 \in T, \A n \in T : n + 1 \in T
  PROVE  T = Nat
<1> SUFFICES ASSUME T # Nat PROVE FALSE
  OBVIOUS
<1> DEFINE U == Nat \ T
<1>1. U # {}
  OBVIOUS
<1>2. PICK x \in U : \A y \in U : x <= y
  BY Zenon, <1>1, NatMin
<1>3. x # 0 /\ x \in Nat
  OBVIOUS
<1>4. x - 1 \in T
  BY <1>2, <1>3
<1> QED BY <1>2, <1>3, <1>4

\* One step of SelectIn's recursion over s, given its values so far.
SelStep(s, S, f, i) ==
  IF i = 0 THEN << >> ELSE IF s[i] \in S THEN Append(f[i - 1], s[i]) ELSE f[i - 1]

\* SelectIn's recursion has a solution on every prefix of s.
LEMMA SelExists ==
  ASSUME NEW s, NEW S, NEW n \in Nat
  PROVE  \E f : f = [i \in 0..n |-> SelStep(s, S, f, i)]
<1> DEFINE T == {m \in Nat : \E f : f = [i \in 0..m |-> SelStep(s, S, f, i)]}
<1>1. 0 \in T
  <2> DEFINE f == [i \in 0..0 |-> << >>]
  <2>1. f = [i \in 0..0 |-> SelStep(s, S, f, i)]
    BY DEF SelStep
  <2> QED BY Zenon, <2>1
<1>2. ASSUME NEW m \in T PROVE m + 1 \in T
  <2>1. PICK f : f = [i \in 0..m |-> SelStep(s, S, f, i)]
    OBVIOUS
  <2> DEFINE g == [i \in 0..(m + 1) |-> IF i <= m THEN f[i] ELSE SelStep(s, S, f, i)]
  <2>2. ASSUME NEW i \in 0..(m + 1) PROVE g[i] = SelStep(s, S, g, i)
    <3>1. CASE i = 0
      BY <2>1, <3>1 DEF SelStep
    <3>2. CASE i # 0
      <4>1. g[i - 1] = f[i - 1]
        BY <3>2
      <4>2. SelStep(s, S, g, i) = SelStep(s, S, f, i)
        BY <4>1, <3>2 DEF SelStep
      <4>3. g[i] = SelStep(s, S, f, i)
        BY <2>1, <3>2
      <4> QED BY Zenon, <4>2, <4>3
    <3> QED BY Zenon, <3>1, <3>2
  <2>3. g = [i \in 0..(m + 1) |-> SelStep(s, S, g, i)]
    BY Zenon, <2>2
  <2> HIDE DEF g
  <2>4. m + 1 \in Nat
    OBVIOUS
  <2> QED BY Zenon, <2>3, <2>4
<1>3. T = Nat
  <2> HIDE DEF T
  <2> QED BY Zenon, <1>1, <1>2, NatInduct DEF T
<1> QED BY Zenon, <1>3

(* The elements of SelectIn(s, S) are the members of s that are in S, each *)
(* one as often as in s: here, once when s has no duplicates.              *)
LEMMA SelectInProps ==
  ASSUME NEW A, NEW s \in Seq(A), NEW S
  PROVE  /\ SelectIn(s, S) \in Seq(A)
         /\ Queued(SelectIn(s, S)) = Queued(s) \cap S
         /\ Distinct(s) => Distinct(SelectIn(s, S))
<1> DEFINE L == Len(s)
           f == CHOOSE g : g = [i \in 0..L |-> SelStep(s, S, g, i)]
<1>1. L \in Nat
  OBVIOUS
<1>2. f = [i \in 0..L |-> SelStep(s, S, f, i)]
  BY Zenon, <1>1, SelExists
<1>9. \A i \in 0..L : f[i] = SelStep(s, S, f, i)
  <2> HIDE DEF f
  <2> QED BY Zenon, <1>2
<1>3. SelectIn(s, S) = f[L]
  BY Zenon DEF SelectIn, SelStep
<1> DEFINE Good(i) == /\ f[i] \in Seq(A)
                      /\ Queued(f[i]) = {s[j] : j \in 1..i} \cap S
                      /\ (\A k, j \in 1..L : s[k] = s[j] => k = j) =>
                           \A k, j \in DOMAIN f[i] : f[i][k] = f[i][j] => k = j
           T == {i \in Nat : i <= L => Good(i)}
<1> HIDE DEF f
<1>4. 0 \in T
  <2>1. f[0] = << >>
    BY <1>1, <1>9 DEF SelStep
  <2>2. f[0] \in Seq(A) /\ DOMAIN f[0] = {}
    BY <2>1
  <2>3. Queued(f[0]) = {} /\ {s[j] : j \in 1..0} = {}
    BY <2>2 DEF Queued
  <2>4. Good(0)
    BY Zenon, <2>2, <2>3
  <2> QED BY Zenon, <2>4
<1>5. ASSUME NEW i \in T PROVE i + 1 \in T
  <2> SUFFICES ASSUME i + 1 <= L PROVE Good(i + 1)
    OBVIOUS
  <2>1. i \in Nat /\ i + 1 \in 1..L /\ i + 1 # 0 /\ (i + 1) - 1 = i /\ s[i + 1] \in A
    BY <1>1
  <2>2. Good(i)
    BY <1>1, <2>1
  <2>3. f[i + 1] = IF s[i + 1] \in S THEN Append(f[i], s[i + 1]) ELSE f[i]
    <3>1. f[i + 1] = SelStep(s, S, f, i + 1)
      BY <1>9, <2>1
    <3> QED BY Zenon, <2>1, <3>1 DEF SelStep
  <2>4. {s[j] : j \in 1..(i + 1)} = {s[j] : j \in 1..i} \cup {s[i + 1]}
    BY <2>1
  <2>5. CASE s[i + 1] \notin S
    <3>1. f[i + 1] = f[i]
      BY Zenon, <2>3, <2>5
    <3> QED BY Zenon, <2>2, <2>4, <2>5, <3>1
  <2>6. CASE s[i + 1] \in S
    <3>1. f[i + 1] = Append(f[i], s[i + 1]) /\ f[i] \in Seq(A)
      BY Zenon, <2>2, <2>3, <2>6
    <3>2. /\ f[i + 1] \in Seq(A)
          /\ DOMAIN f[i + 1] = DOMAIN f[i] \cup {Len(f[i]) + 1}
          /\ \A j \in DOMAIN f[i] : f[i + 1][j] = f[i][j]
          /\ f[i + 1][Len(f[i]) + 1] = s[i + 1]
          /\ Len(f[i]) + 1 \notin DOMAIN f[i]
      BY <2>1, <3>1
    <3>3. Queued(f[i + 1]) = Queued(f[i]) \cup {s[i + 1]}
      BY <3>2 DEF Queued
    <3>4. Queued(f[i + 1]) = {s[j] : j \in 1..(i + 1)} \cap S
      BY Zenon, <2>2, <2>4, <2>6, <3>3
    <3>5. ASSUME \A k, j \in 1..L : s[k] = s[j] => k = j,
                 NEW k \in DOMAIN f[i + 1], NEW j \in DOMAIN f[i + 1],
                 f[i + 1][k] = f[i + 1][j]
          PROVE  k = j
      <4>1. \A m \in DOMAIN f[i] : f[i][m] # s[i + 1]
        <5>1. \A m \in DOMAIN f[i] : f[i][m] \in {s[n] : n \in 1..i}
          BY Zenon, <2>2 DEF Queued
        <5>2. \A n \in 1..i : n \in 1..L /\ n # i + 1
          BY <1>1, <2>1
        <5>3. \A n \in 1..i : s[n] # s[i + 1]
          BY Zenon, <2>1, <3>5, <5>2
        <5> QED BY Zenon, <5>1, <5>3
      <4> QED BY Zenon, <2>2, <3>2, <3>5, <4>1
    <3> QED BY Zenon, <3>2, <3>4, <3>5
  <2> QED BY Zenon, <2>5, <2>6
<1>6. T = Nat
  <2> HIDE DEF T
  <2>1. T \subseteq Nat
    BY Zenon DEF T
  <2> QED BY Zenon, <1>4, <1>5, <2>1, NatInduct
<1>7. Good(L)
  <2>1. L \in T
    <3> HIDE DEF T
    <3> QED BY Zenon, <1>1, <1>6
  <2> HIDE DEF Good
  <2> QED BY <1>1, <2>1
<1>8. DOMAIN s = 1..L
  OBVIOUS
<1> QED BY Zenon, <1>3, <1>7, <1>8 DEF Queued, Distinct

\* A scan of the process table meets each member of S once.
LEMMA InTableOrderProps ==
  ASSUME NEW S
  PROVE  /\ InTableOrder(S) \in Seq(Procs)
         /\ Queued(InTableOrder(S)) = Procs \cap S
         /\ Distinct(InTableOrder(S))
<1> DEFINE t == [i \in Procs |-> i]
<1>1. t \in Seq(Procs) /\ DOMAIN t = Procs
  BY NProcAssumption DEF Procs
<1>2. Queued(t) = Procs /\ Distinct(t)
  BY Zenon, <1>1 DEF Queued, Distinct
<1> HIDE DEF t
<1>3. InTableOrder(S) = SelectIn(t, S)
  BY Zenon DEF InTableOrder, t
<1> QED BY <1>1, <1>2, <1>3, SelectInProps

\* Appending to a list adds exactly the new elements.
LEMMA ConcatProps ==
  ASSUME NEW A, NEW s \in Seq(A), NEW t \in Seq(A)
  PROVE  /\ s \o t \in Seq(A)
         /\ Queued(s \o t) = Queued(s) \cup Queued(t)
         /\ Distinct(s) /\ Distinct(t) /\ Queued(s) \cap Queued(t) = {} => Distinct(s \o t)
<1> DEFINE u == s \o t
<1>1. /\ u \in Seq(A)
      /\ DOMAIN u = 1..(Len(s) + Len(t)) /\ DOMAIN s = 1..Len(s) /\ DOMAIN t = 1..Len(t)
      /\ Len(s) \in Nat /\ Len(t) \in Nat
      /\ \A i \in DOMAIN u : u[i] = IF i <= Len(s) THEN s[i] ELSE t[i - Len(s)]
  OBVIOUS
<1> HIDE DEF u
<1>2. ASSUME NEW i \in DOMAIN u
      PROVE  \/ i \in DOMAIN s /\ u[i] = s[i]
             \/ i - Len(s) \in DOMAIN t /\ u[i] = t[i - Len(s)] /\ i > Len(s)
  BY <1>1
<1>3. Queued(u) \subseteq Queued(s) \cup Queued(t)
  BY Zenon, <1>2 DEF Queued
<1>4. ASSUME NEW i \in DOMAIN s PROVE i \in DOMAIN u /\ u[i] = s[i]
  BY <1>1
<1>5. ASSUME NEW i \in DOMAIN t
      PROVE  i + Len(s) \in DOMAIN u /\ u[i + Len(s)] = t[i]
  BY <1>1
<1>6. Queued(s) \cup Queued(t) \subseteq Queued(u)
  BY Zenon, <1>4, <1>5 DEF Queued
<1>7. ASSUME Distinct(s), Distinct(t), Queued(s) \cap Queued(t) = {},
             NEW i \in DOMAIN u, NEW j \in DOMAIN u, u[i] = u[j]
      PROVE  i = j
  <2>1. CASE i \in DOMAIN s /\ j \in DOMAIN s
    BY Zenon, <1>4, <1>7, <2>1 DEF Distinct
  <2>2. CASE i \in DOMAIN s /\ j \notin DOMAIN s
    BY <1>2, <1>4, <1>7, <2>2 DEF Queued
  <2>3. CASE i \notin DOMAIN s /\ j \in DOMAIN s
    BY <1>2, <1>4, <1>7, <2>3 DEF Queued
  <2>4. CASE i \notin DOMAIN s /\ j \notin DOMAIN s
    <3>1. i - Len(s) = j - Len(s)
      BY Zenon, <1>2, <1>7, <2>4 DEF Distinct
    <3> QED BY <1>1, <3>1
  <2> QED BY Zenon, <2>1, <2>2, <2>3, <2>4
<1> QED BY Zenon, <1>1, <1>3, <1>6, <1>7 DEF Distinct, u

QueueType == [Cpus -> [Levels -> Seq(Procs)]]

(* rq_push: pushing processes that wait nowhere, each one once, adds them  *)
(* at the place their rqcpu and prio name and moves nobody else.           *)
LEMMA PushHolds ==
  ASSUME NEW rq \in QueueType, NEW R, NEW cpuOf, NEW prioOf,
         NEW cpuNew \in [Procs -> Cpus], NEW prioNew \in [Procs -> Levels],
         NEW s \in Seq(Procs), Distinct(s), Queued(s) \cap R = {},
         \A p \in Procs \cap R : cpuNew[p] = cpuOf[p] /\ prioNew[p] = prioOf[p],
         Holds(rq, R, cpuOf, prioOf)
  PROVE  /\ rq_push(rq, s, cpuNew, prioNew) \in QueueType
         /\ Holds(rq_push(rq, s, cpuNew, prioNew), R \cup Queued(s), cpuNew, prioNew)
<1> DEFINE new == rq_push(rq, s, cpuNew, prioNew)
<1>1. ASSUME NEW c \in Cpus, NEW l \in Levels
      PROVE  /\ new[c][l] \in Seq(Procs)
             /\ Distinct(new[c][l])
             /\ \A p \in Procs : p \in Queued(new[c][l]) <=>
                  p \in R \cup Queued(s) /\ cpuNew[p] = c /\ prioNew[p] = l
  <2> DEFINE S == {p \in Procs : cpuNew[p] = c /\ prioNew[p] = l}
             old == rq[c][l]
             add == SelectIn(s, S)
  <2>1. new[c][l] = old \o add
    BY Zenon DEF rq_push
  <2>2. old \in Seq(Procs) /\ Distinct(old)
    BY DEF QueueType, Holds
  <2>3. add \in Seq(Procs) /\ Distinct(add) /\ Queued(add) = Queued(s) \cap S
    BY Zenon, SelectInProps
  <2>4. \A p \in Procs : p \in Queued(old) <=> p \in R /\ cpuOf[p] = c /\ prioOf[p] = l
    BY Zenon DEF Holds
  <2>5. Queued(old) \subseteq Procs
    BY <2>2 DEF Queued
  <2>6. Queued(old) \cap Queued(add) = {}
    BY Zenon, <2>3, <2>4, <2>5
  <2> HIDE DEF old, add
  <2>7. /\ old \o add \in Seq(Procs)
        /\ Queued(old \o add) = Queued(old) \cup Queued(add)
        /\ Distinct(old \o add)
    BY <2>2, <2>3, <2>6, ConcatProps
  <2>8. ASSUME NEW p \in Procs
        PROVE  p \in Queued(old \o add) <=>
                 p \in R \cup Queued(s) /\ cpuNew[p] = c /\ prioNew[p] = l
    BY Zenon, <2>3, <2>4, <2>7
  <2> QED BY Zenon, <2>1, <2>7, <2>8
<1>2. new \in QueueType
  BY <1>1 DEF QueueType, rq_push
<1> QED BY Zenon, <1>1, <1>2 DEF Holds

\* rq_pop looks at the highest level that holds a process.
LEMMA TopLevelProps ==
  ASSUME NEW rq \in QueueType, NEW c \in Cpus, Occupied(rq, c) # {}
  PROVE  /\ TopLevel(rq, c) \in Levels
         /\ rq[c][TopLevel(rq, c)] # << >>
         /\ \A k \in Levels : k < TopLevel(rq, c) => rq[c][k] = << >>
<1>1. Occupied(rq, c) \in SUBSET Nat
  BY NPrioAssumption DEF Occupied, Levels
<1>2. \E l \in Occupied(rq, c) : \A k \in Occupied(rq, c) : l <= k
  BY Zenon, <1>1, NatMin
<1>3. /\ TopLevel(rq, c) \in Occupied(rq, c)
      /\ \A k \in Occupied(rq, c) : TopLevel(rq, c) <= k
  BY Zenon, <1>2 DEF TopLevel
<1>4. ASSUME NEW k \in Levels, k < TopLevel(rq, c) PROVE rq[c][k] = << >>
  <2>1. k \notin Occupied(rq, c)
    BY <1>1, <1>3, <1>4, NPrioAssumption DEF Levels
  <2> QED BY Zenon, <2>1 DEF Occupied
<1> QED BY Zenon, <1>3, <1>4 DEF Occupied

\* Taking the head off a list without duplicates removes one element.
LEMMA TailProps ==
  ASSUME NEW A, NEW s \in Seq(A), s # << >>
  PROVE  /\ Head(s) \in A /\ Head(s) \in Queued(s)
         /\ Tail(s) \in Seq(A)
         /\ Distinct(s) => Distinct(Tail(s)) /\ Queued(Tail(s)) = Queued(s) \ {Head(s)}
<1>1. /\ Len(s) \in Nat /\ Len(s) > 0 /\ DOMAIN s = 1..Len(s)
      /\ Tail(s) \in Seq(A) /\ DOMAIN Tail(s) = 1..(Len(s) - 1)
      /\ \A i \in 1..(Len(s) - 1) : Tail(s)[i] = s[i + 1]
      /\ Head(s) = s[1] /\ s[1] \in A
  OBVIOUS
<1>2. ASSUME Distinct(s) PROVE Distinct(Tail(s))
  BY <1>1, <1>2 DEF Distinct
<1>3. ASSUME Distinct(s) PROVE Queued(Tail(s)) \subseteq Queued(s) \ {Head(s)}
  BY <1>1, <1>3 DEF Distinct, Queued
<1>4. ASSUME NEW x \in Queued(s) \ {Head(s)} PROVE x \in Queued(Tail(s))
  <2>1. PICK i \in DOMAIN s : x = s[i]
    BY Zenon DEF Queued
  <2>2. i - 1 \in DOMAIN Tail(s) /\ Tail(s)[i - 1] = x
    BY <1>1, <2>1
  <2> QED BY Zenon, <2>2 DEF Queued
<1> QED BY <1>1, <1>2, <1>3, <1>4 DEF Queued

(* rq_pop hands out a process that was waiting on the queue, and every     *)
(* other one keeps its place.                                              *)
LEMMA PopHolds ==
  ASSUME NEW rq \in QueueType, NEW R, NEW cpuOf, NEW prioOf,
         NEW c \in Cpus, Occupied(rq, c) # {}, Holds(rq, R, cpuOf, prioOf)
  PROVE  /\ rq_head(rq, c) \in Procs \cap R
         /\ cpuOf[rq_head(rq, c)] = c
         /\ rq_pop(rq, c) \in QueueType
         /\ Holds(rq_pop(rq, c), R \ {rq_head(rq, c)}, cpuOf, prioOf)
<1> DEFINE t == TopLevel(rq, c)
           h == rq_head(rq, c)
           new == rq_pop(rq, c)
<1>1. t \in Levels /\ rq[c][t] # << >> /\ rq[c][t] \in Seq(Procs) /\ h = Head(rq[c][t])
  BY Zenon, TopLevelProps DEF QueueType, rq_head
<1>2. \A d \in Cpus, l \in Levels :
        new[d][l] = IF d = c /\ l = t THEN Tail(rq[c][t]) ELSE rq[d][l]
  BY Zenon, <1>1 DEF rq_pop, QueueType
<1>3. new \in [Cpus -> [Levels -> Seq(Procs)]]
  BY <1>1 DEF rq_pop, QueueType
<1> HIDE DEF t, h, new
<1>4. /\ Distinct(rq[c][t])
      /\ \A p \in Procs : p \in Queued(rq[c][t]) <=> p \in R /\ cpuOf[p] = c /\ prioOf[p] = t
  BY Zenon, <1>1 DEF Holds
<1>5. /\ h \in Procs /\ h \in Queued(rq[c][t])
      /\ Distinct(Tail(rq[c][t])) /\ Queued(Tail(rq[c][t])) = Queued(rq[c][t]) \ {h}
  BY Zenon, <1>1, <1>4, TailProps
<1>6. h \in R /\ cpuOf[h] = c /\ prioOf[h] = t
  BY Zenon, <1>4, <1>5
<1>7. ASSUME NEW d \in Cpus, NEW l \in Levels
      PROVE  /\ Distinct(new[d][l])
             /\ \A p \in Procs : p \in Queued(new[d][l]) <=>
                  p \in R \ {h} /\ cpuOf[p] = d /\ prioOf[p] = l
  <2>2. CASE d = c /\ l = t
    BY Zenon, <1>2, <1>4, <1>5, <2>2
  <2>3. CASE ~ (d = c /\ l = t)
    <3>1. new[d][l] = rq[d][l]
      BY Zenon, <1>2, <2>3
    <3>2. /\ Distinct(rq[d][l])
          /\ \A p \in Procs : p \in Queued(rq[d][l]) <=>
               p \in R /\ cpuOf[p] = d /\ prioOf[p] = l
      BY Zenon DEF Holds
    <3>3. h \notin Queued(rq[d][l])
      BY Zenon, <1>5, <1>6, <2>3, <3>2
    <3> QED BY Zenon, <3>1, <3>2, <3>3
  <2> QED BY Zenon, <2>2, <2>3
<1> QED BY Zenon, <1>3, <1>5, <1>6, <1>7 DEF Holds, QueueType, h, new

(* rq_age moves the boosted processes one level up and loses or duplicates *)
(* nobody.                                                                 *)
LEMMA AgeHolds ==
  ASSUME NEW rq \in QueueType, NEW R, NEW cpuOf, NEW prioOf \in [Procs -> Levels],
         NEW B, \A p \in B : p \in Procs /\ p \in R /\ prioOf[p] > 0,
         Holds(rq, R, cpuOf, prioOf)
  PROVE  LET prioNew == [p \in Procs |-> IF p \in B THEN prioOf[p] - 1 ELSE prioOf[p]]
         IN /\ rq_age(rq, B) \in QueueType
            /\ Holds(rq_age(rq, B), R, cpuOf, prioNew)
<1> DEFINE new == rq_age(rq, B)
           prioNew == [p \in Procs |-> IF p \in B THEN prioOf[p] - 1 ELSE prioOf[p]]
<1>0. Levels \subseteq Nat /\ \A p \in Procs : prioOf[p] \in Nat
  BY NPrioAssumption DEF Levels
<1>1. ASSUME NEW c \in Cpus, NEW l \in Levels
      PROVE  /\ new[c][l] \in Seq(Procs)
             /\ Distinct(new[c][l])
             /\ \A p \in Procs : p \in Queued(new[c][l]) <=>
                  p \in R /\ cpuOf[p] = c /\ prioNew[p] = l
  <2> DEFINE keep == SelectIn(rq[c][l], Procs \ B)
             up == IF l + 1 \in Levels THEN SelectIn(rq[c][l + 1], B) ELSE << >>
  <2>1. new[c][l] = keep \o up
    BY Zenon DEF rq_age
  <2>2. ASSUME NEW k \in Levels
        PROVE  /\ rq[c][k] \in Seq(Procs) /\ Distinct(rq[c][k])
               /\ \A p \in Procs : p \in Queued(rq[c][k]) <=>
                    p \in R /\ cpuOf[p] = c /\ prioOf[p] = k
    BY DEF QueueType, Holds
  <2>3. /\ keep \in Seq(Procs) /\ Distinct(keep)
        /\ Queued(keep) = Queued(rq[c][l]) \cap (Procs \ B)
    BY Zenon, <2>2, SelectInProps
  <2>4. /\ up \in Seq(Procs) /\ Distinct(up)
        /\ \A p \in Procs : p \in Queued(up) <=>
             p \in B /\ p \in R /\ cpuOf[p] = c /\ prioOf[p] = l + 1
    <3>1. CASE l + 1 \in Levels
      <4>1. /\ up \in Seq(Procs) /\ Distinct(up)
            /\ Queued(up) = Queued(rq[c][l + 1]) \cap B
        BY <2>2, <3>1, SelectInProps
      <4> HIDE DEF up
      <4> QED BY Zenon, <2>2, <3>1, <4>1
    <3>2. CASE l + 1 \notin Levels
      <4>1. up = << >>
        BY Zenon, <3>2
      <4>2. \A p \in Procs : prioOf[p] # l + 1
        BY Zenon, <3>2
      <4> HIDE DEF up
      <4>3. up \in Seq(Procs) /\ DOMAIN up = {}
        BY <4>1
      <4> QED BY Zenon, <4>2, <4>3 DEF Queued, Distinct
    <3> QED BY Zenon, <3>1, <3>2
  <2> HIDE DEF keep, up
  <2>5. Queued(keep) \cap Queued(up) = {}
    BY Zenon, <2>3, <2>4
  <2>6. /\ keep \o up \in Seq(Procs) /\ Distinct(keep \o up)
        /\ Queued(keep \o up) = Queued(keep) \cup Queued(up)
    BY <2>3, <2>4, <2>5, ConcatProps
  <2>7. ASSUME NEW p \in Procs
        PROVE  p \in Queued(keep \o up) <=> p \in R /\ cpuOf[p] = c /\ prioNew[p] = l
    <3>1. CASE p \in B
      <4>1. prioNew[p] = prioOf[p] - 1 /\ (prioOf[p] - 1 = l <=> prioOf[p] = l + 1)
        BY <1>0, <3>1
      <4> QED BY Zenon, <2>3, <2>4, <2>6, <3>1, <4>1
    <3>2. CASE p \notin B
      <4>1. prioNew[p] = prioOf[p]
        BY Zenon, <3>2
      <4> QED BY Zenon, <2>2, <2>3, <2>4, <2>6, <3>2, <4>1
    <3> QED BY Zenon, <3>1, <3>2
  <2> QED BY Zenon, <2>1, <2>6, <2>7
<1>2. new \in QueueType
  BY Zenon, <1>1 DEF QueueType, rq_age
<1> QED BY <1>1, <1>2 DEF Holds

\* least_loaded_cpu finds a cpu.
LEMMA LeastLoadedProps ==
  ASSUME NEW n \in [Cpus -> Nat]
  PROVE  least_loaded_cpu(n) \in Cpus
<1> DEFINE V == {n[d] : d \in Cpus}
<1>1. V \in SUBSET Nat /\ V # {}
  BY NCpuAssumption DEF Cpus
<1>2. PICK m \in V : \A v \in V : m <= v
  BY Zenon, <1>1, NatMin
<1> DEFINE D == {d \in Cpus : n[d] = m}
<1>3. D \in SUBSET Nat /\ D # {}
  BY <1>2 DEF Cpus
<1>4. PICK c \in D : \A d \in D : c <= d
  BY Zenon, <1>3, NatMin
<1>5. \A d \in Cpus : n[c] < n[d] \/ (n[c] = n[d] /\ c <= d)
  BY <1>1, <1>2, <1>4
<1> QED BY Zenon, <1>4, <1>5 DEF least_loaded_cpu

\* rq_steal finds a victim whenever there is one.
LEMMA StealProps ==
  ASSUME NEW K \in Nat, NEW n \in [Cpus -> 0..K], NEW c \in Cpus, Victims(n, c) # {}
  PROVE  rq_steal(n, c) \in Victims(n, c)
<1> DEFINE W == Victims(n, c)
           V == {K - n[d] : d \in W}
<1>1. W \subseteq Cpus
  BY Zenon DEF Victims
<1>2. V \in SUBSET Nat /\ V # {}
  BY <1>1
<1>3. PICK m \in V : \A v \in V : m <= v
  BY Zenon, <1>2, NatMin
<1> DEFINE D == {d \in W : K - n[d] = m}
<1>4. D \in SUBSET Nat /\ D # {}
  BY <1>1, <1>3 DEF Cpus
<1>5. PICK b \in D : \A d \in D : b <= d
  BY Zenon, <1>4, NatMin
<1>6. \A d \in W : n[b] > n[d] \/ (n[b] = n[d] /\ b <= d)
  <2> TAKE d \in W
  <2>1. n[b] \in Nat /\ n[d] \in Nat /\ K - n[b] <= K - n[d]
    BY <1>1, <1>3, <1>5
  <2>2. CASE n[b] = n[d]
    BY Zenon, <1>5, <2>2
  <2> QED BY <2>1, <2>2
<1> QED BY Zenon, <1>5, <1>6 DEF rq_steal

\* The number of members of R on cpu c, for a finite table.
CountOn(R, cpuOf, c) == Cardinality({p \in R : cpuOf[p] = c})

\* The process table is finite, and so is every part of it.
LEMMA FiniteTable ==
  ASSUME NEW R \in SUBSET Procs
  PROVE  IsFiniteSet(R) /\ Cardinality(R) \in Nat /\ Cardinality(R) <= NPROC
<1>1. IsFiniteSet(Procs) /\ Cardinality(Procs) = NPROC
  BY NProcAssumption, FS_Interval DEF Procs
<1>2. IsFiniteSet(R) /\ Cardinality(R) <= Cardinality(Procs)
  BY Zenon, <1>1, FS_Subset
<1> QED BY Zenon, <1>1, <1>2, FS_CardinalityType

(* nready counts what is pushed: S joins R, and nobody already in R moves  *)
(* to another queue.                                                       *)
LEMMA CountPush ==
  ASSUME NEW R \in SUBSET Procs, NEW S \in SUBSET Procs, S \cap R = {},
         NEW cpuOf, NEW cpuNew, \A p \in R : cpuNew[p] = cpuOf[p], NEW c
  PROVE  CountOn(R \cup S, cpuNew, c) = CountOn(R, cpuOf, c) + CountOn(S, cpuNew, c)
<1> DEFINE A == {p \in R : cpuOf[p] = c}
           B == {p \in S : cpuNew[p] = c}
<1>1. {p \in R \cup S : cpuNew[p] = c} = A \cup B /\ A \cap B = {}
  OBVIOUS
<1>2. IsFiniteSet(A) /\ IsFiniteSet(B)
  BY Zenon, FiniteTable
<1>3. Cardinality(A \cup B) = Cardinality(A) + Cardinality(B)
  <2> HIDE DEF A, B
  <2>1. Cardinality(A) \in Nat /\ Cardinality(B) \in Nat
    BY Zenon, <1>2, FS_CardinalityType
  <2>2. Cardinality(A \cup B) = Cardinality(A) + Cardinality(B) - Cardinality(A \cap B)
    BY Zenon, <1>2, FS_Union
  <2>3. Cardinality(A \cap B) = 0
    BY Zenon, <1>1, FS_EmptySet
  <2> QED BY <2>1, <2>2, <2>3
<1> QED BY Zenon, <1>1, <1>3 DEF CountOn

\* Taking one process off the queue of cpu q.
LEMMA CountPop ==
  ASSUME NEW R \in SUBSET Procs, NEW h \in R, NEW cpuOf, NEW cpuNew,
         \A p \in R : p # h => cpuNew[p] = cpuOf[p], NEW c
  PROVE  CountOn(R \ {h}, cpuNew, c) =
           IF cpuOf[h] = c THEN CountOn(R, cpuOf, c) - 1 ELSE CountOn(R, cpuOf, c)
<1> DEFINE A == {p \in R : cpuOf[p] = c}
<1>1. {p \in R \ {h} : cpuNew[p] = c} = A \ {h}
  OBVIOUS
<1>2. IsFiniteSet(A)
  BY Zenon, FiniteTable
<1>3. Cardinality(A \ {h}) = IF h \in A THEN Cardinality(A) - 1 ELSE Cardinality(A)
  BY Zenon, <1>2, FS_RemoveElement
<1> QED BY Zenon, <1>1, <1>3 DEF CountOn

\* A queue with a positive count has an occupied level.
LEMMA CountOccupied ==
  ASSUME NEW rq \in QueueType, NEW R \in SUBSET Procs, NEW cpuOf,
         NEW prioOf \in [Procs -> Levels], Holds(rq, R, cpuOf, prioOf),
         NEW c \in Cpus, CountOn(R, cpuOf, c) > 0
  PROVE  Occupied(rq, c) # {}
<1> DEFINE A == {p \in R : cpuOf[p] = c}
<1>1. A # {}
  BY FS_EmptySet DEF CountOn
<1>2. PICK p \in R : cpuOf[p] = c
  BY Zenon, <1>1
<1>3. p \in Queued(rq[c][prioOf[p]]) /\ prioOf[p] \in Levels
  BY Zenon, <1>2 DEF Holds
<1>4. rq[c][prioOf[p]] # << >>
  BY <1>3 DEF Queued
<1> QED BY Zenon, <1>3, <1>4 DEF Occupied
=============================================================================
