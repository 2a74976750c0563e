------------------------------- MODULE LogInv --------------------------------
(***************************************************************************)
(* The inductive invariant behind the theorems about the log, and what the *)
(* proofs take from the theory of finite sets.                             *)
(***************************************************************************)
EXTENDS Log

InCommit(p) == pc[p] \in {"commit", "write_log", "write_head", "install", "clear", "committed"}

\* Who is in an operation, who commits, and that the two exclude each other.
ControlInv ==
  /\ outstanding = Cardinality(Active)
  /\ committing <=> \E p \in Ops : InCommit(p)
  /\ \A p, q \in Ops : InCommit(p) /\ InCommit(q) => p = q
  /\ committing => Active = {}
  /\ boot # "up" => \A p \in Ops : pc[p] = "idle"
  /\ \A p \in Ops : pc[p] = "write" => buf[p] \in Blocks

\* The log blocks before i hold what the transaction wrote.
Logged(i) == \A j \in 1..(i - 1) : logd[j] = Contents(lh[j])
\* The home blocks before i have been installed.
Installed(i) == \A j \in 1..(i - 1) : home[lh[j]] = logd[j]

NoDup(s) == \A i, j \in DOMAIN s : s[i] = s[j] => i = j

\* The buffers that are not dirty agree with the disk.
CacheInv ==
  /\ \A b \in Blocks : b \notin dirty => cache[b] \in {NoVal, home[b]}
  /\ \A b \in dirty : cache[b] # NoVal

\* The committed transaction that is being installed.
Installing ==
  /\ head = lh
  /\ Installed(tail)
  /\ \A i \in 1..Len(lh) : i >= tail <=> lh[i] \in dirty
  /\ dirty \subseteq Listed(lh)

DataInv ==
  /\ NoDup(lh) /\ NoDup(head) /\ CacheInv
  /\ Len(lh) <= LOGSIZE /\ Len(head) <= LOGSIZE
  /\ boot = "up" /\ (\A p \in Ops : pc[p] \notin {"install", "clear"})
       => head = << >> /\ dirty = Listed(lh)
  /\ boot = "up" /\ outstanding = 0 /\ ~committing => lh = << >>
  /\ \A p \in Ops :
       /\ pc[p] = "write_log" => Logged(tail) /\ tail <= Len(lh)
       /\ pc[p] = "write_head" => Logged(Len(lh) + 1) /\ 1 <= Len(lh)
       /\ pc[p] = "install" => Logged(Len(lh) + 1) /\ Installing /\ tail <= Len(lh)
       /\ pc[p] = "clear" => Installing /\ tail = Len(lh) + 1
       /\ pc[p] = "committed" => lh = << >>
  /\ boot # "up" => dirty = {}
  /\ boot = "install" => head = lh /\ Installed(tail) /\ tail <= Len(lh)
  /\ boot = "clear" => head = lh /\ Installed(Len(lh) + 1)

(* The writes that the operations in progress may still make.              *)
Tokens == {t \in Active \X (1..OPBLOCKS) : t[2] > Cardinality(wrote[t[1]])}

WroteInv ==
  \A p \in Active : /\ wrote[p] \subseteq Listed(lh)
                    /\ IsFiniteSet(wrote[p]) /\ Cardinality(wrote[p]) <= OPBLOCKS
                    /\ pc[p] = "write" => Cardinality(wrote[p] \cup {buf[p]}) <= OPBLOCKS

\* The transaction and what may still be added to it fit below the bound.
Fits(bound) == Len(lh) + Cardinality(Tokens) <= bound

LogInv == TypeOK /\ ControlInv /\ DataInv /\ WroteInv /\ Fits(LOGSIZE)

\* log_write() has room for the block it is about to enter.
SpaceInv == boot = "up" => Fits(LOGSIZE - 2)

\* The places of a process that commits.
CommitPlaces == {"commit", "write_log", "write_head", "install", "clear", "committed"}

(* The sizes under which the log cannot fill up: operations stay below     *)
(* MAXOPBLOCKS, and two of them fit.                                       *)
Roomy == OPBLOCKS < MAXOPBLOCKS /\ 2 * MAXOPBLOCKS <= LOGSIZE /\ LOGSIZE <= NLOG

AtomicStep == [Atomic!Next]_<<Recovered, Current, Active>>
-----------------------------------------------------------------------------
\* Facts about finite sets, which the step lemmas take as a hypothesis.
EmptySize ==
  /\ IsFiniteSet({}) /\ Cardinality({}) = 0
  /\ \A S : IsFiniteSet(S) => Cardinality(S) \in Nat /\ (Cardinality(S) = 0 <=> S = {})
SubsetSize ==
  \A S : IsFiniteSet(S) =>
    \A T \in SUBSET S : IsFiniteSet(T) /\ Cardinality(T) <= Cardinality(S)
AddSize ==
  \A S, x : IsFiniteSet(S) =>
    /\ IsFiniteSet(S \cup {x})
    /\ Cardinality(S \cup {x}) = IF x \in S THEN Cardinality(S) ELSE Cardinality(S) + 1
RemoveSize ==
  \A S, x : IsFiniteSet(S) =>
    /\ IsFiniteSet(S \ {x})
    /\ Cardinality(S \ {x}) = IF x \in S THEN Cardinality(S) - 1 ELSE Cardinality(S)
ProductSize ==
  \A A \in SUBSET Ops : \A T \in SUBSET (A \X (1..OPBLOCKS)) :
    /\ IsFiniteSet(A) /\ Cardinality(A) \in Nat
    /\ IsFiniteSet(T) /\ Cardinality(T) \in Nat
    /\ Cardinality(T) <= Cardinality(A) * OPBLOCKS
SizeFacts == EmptySize /\ SubsetSize /\ AddSize /\ RemoveSize /\ ProductSize
=============================================================================
