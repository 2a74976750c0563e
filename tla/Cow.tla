-------------------------------- MODULE Cow ---------------------------------
(***************************************************************************)
(* User memory: the frame allocator of kalloc.c with its reference counts, *)
(* copy-on-write fork, lazy allocation and the page fault handler of vm.c, *)
(* and the system calls of proc.c and sysproc.c that change a page table.  *)
(*                                                                         *)
(* Every process runs on a cpu of its own, with that cpu's TLB; losing the *)
(* cpu and getting one back is a flush.  Page table pages are not counted: *)
(* an allocation of one may fail at any time.                              *)
(***************************************************************************)
EXTENDS Integers, FiniteSets

CONSTANTS Procs, PgDirs, Frames,
          initproc,
          NPAGES,      \* bound: user pages of an address space
          Vals, Zero,  \* contents of a page
          Junk,        \* what kfree() fills a page with
          TEXT,        \* bound: pages that exec() loads from a file
          MINBRK,      \* bound: the smallest size that sbrk() is asked for
          MAXUSERS     \* bound: processes that share an address space

ASSUME NamesAssumption == 0 \notin Procs \cup PgDirs \cup Frames
ASSUME InitprocAssumption == initproc \in Procs
ASSUME ValsAssumption == Zero \in Vals /\ Junk \notin Vals
ASSUME SizesAssumption == /\ NPAGES \in Nat \ {0} /\ MINBRK \in Nat /\ MAXUSERS \in Nat \ {0}
                          /\ TEXT \in Nat /\ TEXT + 2 <= NPAGES
ASSUME FiniteAssumption == IsFiniteSet(Procs) /\ IsFiniteSet(PgDirs) /\ IsFiniteSet(Frames)

Pages == 0..(NPAGES - 1)
NoProc == 0
NoDir == 0
NoFrame == 0

VARIABLES
  ref, free, mem,   \* kmem.ref, the free list, the contents of the frames
  pt,               \* page tables
  pg, sz,           \* p->pgdir and p->sz
  tlb,              \* translations cached by the cpu of p
  pc,               \* where p is
  va, wr,           \* the page p faults on or has reached in a loop; a write?
  pa,               \* the frame p is working with
  old, to,          \* the sizes from and to which p shrinks
  np, dir,          \* the slot p sets up in fork, and a page directory that
                    \* fork or exec sets up, or that exec has still to free
  vmlock

kmemVars == <<ref, free, mem>>
procVars == <<pg, sz, np, dir>>
regVars  == <<va, wr, pa, old, to>>
vars == <<kmemVars, pt, procVars, tlb, pc, regVars, vmlock>>

\* An entry with the bits PTE_W, PTE_COW and PTE_U.
Pte(f, w, c, u) == [frame |-> f, w |-> w, cow |-> c, u |-> u]
NoPte == Pte(NoFrame, FALSE, FALSE, FALSE)
Empty == [v \in Pages |-> NoPte]
Present(e) == e.frame # NoFrame

pgdir_users(a) == {p \in Procs : pg[p] = a}
UnusedDirs == {a \in PgDirs : pgdir_users(a) = {} /\ \A p \in Procs : dir[p] # a}

\* userinit(): one process with one page.
Init ==
  \E a \in PgDirs, f \in Frames :
    /\ ref = [g \in Frames |-> IF g = f THEN 1 ELSE 0]
    /\ free = Frames \ {f}
    /\ mem = [g \in Frames |-> IF g = f THEN Zero ELSE Junk]
    /\ pt = [b \in PgDirs |-> IF b = a THEN [Empty EXCEPT ![0] = Pte(f, TRUE, FALSE, TRUE)] ELSE Empty]
    /\ pg = [q \in Procs |-> IF q = initproc THEN a ELSE NoDir]
    /\ sz = [q \in Procs |-> IF q = initproc THEN 1 ELSE 0]
    /\ tlb = [q \in Procs |-> Empty]
    /\ pc = [q \in Procs |-> IF q = initproc THEN "user" ELSE "none"]
    /\ va = [q \in Procs |-> 0] /\ wr = [q \in Procs |-> FALSE]
    /\ pa = [q \in Procs |-> NoFrame] 
    /\ old = [q \in Procs |-> 0] /\ to = [q \in Procs |-> 0]
    /\ np = [q \in Procs |-> NoProc] /\ dir = [q \in Procs |-> NoDir]
    /\ vmlock = NoProc
-----------------------------------------------------------------------------
Places == {"none", "embryo", "user", "fault", "lazyalloc", "lazymap", "cowfault", "cowsole",
           "cowcopy", "cowdrop", "cowuvm", "cowmap", "cowbad", "exec", "execbad", "execfree",
           "syncsize", "dealloc", "unmap", "shrunk", "exit", "zombie", "panic"}

(* kfree(), incref() and mappages() find every frame and every entry as    *)
(* they expect it: none of their panics is reached.                        *)
NoPanic == \A p \in Procs : pc[p] # "panic"

At(p, places) == pc[p] \in places /\ NoPanic   \* a panic stops every cpu
Goto(p, pt2) == pc' = [pc EXCEPT ![p] = pt2]
Clear(p) == va' = [va EXCEPT ![p] = 0] /\ wr' = [wr EXCEPT ![p] = FALSE]   \* dead locals
Flush(p) == tlb' = [tlb EXCEPT ![p] = Empty]
invlpg(p, v) == tlb' = [tlb EXCEPT ![p][v] = NoPte]

\* kalloc(): some frame of the free list gets its first reference.
kalloc(f) ==
  /\ f \in free
  /\ free' = free \ {f}
  /\ ref' = [ref EXCEPT ![f] = 1]

(* kfree(): one reference less.  The last one puts the frame, filled with  *)
(* junk, on the free list; nobody can see it between the two halves.       *)
kfree(f) ==
  /\ ref' = [ref EXCEPT ![f] = @ - 1]
  /\ free' = IF ref[f] = 1 THEN free \cup {f} ELSE free
  /\ mem' = IF ref[f] = 1 THEN [mem EXCEPT ![f] = Junk] ELSE mem

\* The translation that the cpu of p uses for page v.
Translation(p, v) == IF Present(tlb[p][v]) THEN tlb[p][v] ELSE pt[pg[p]][v]

Fault(p, v, write) ==
  /\ Goto(p, "fault")
  /\ va' = [va EXCEPT ![p] = v]
  /\ wr' = [wr EXCEPT ![p] = write]
  /\ invlpg(p, v)

\* A user instruction reads or writes page v.  Without PTE_U it may do neither.
Readable(p, v) == Translation(p, v).u
Writable(p, v) == Translation(p, v).u /\ Translation(p, v).w

load(p, v) ==
  /\ At(p, {"user"})
  /\ IF Readable(p, v)
     THEN /\ tlb' = [tlb EXCEPT ![p][v] = Translation(p, v)]
          /\ UNCHANGED <<pc, va, wr>>
     ELSE Fault(p, v, FALSE)
  /\ UNCHANGED <<kmemVars, pt, procVars, pa, old, to, vmlock>>

store(p, v, x) ==
  /\ At(p, {"user"})
  /\ IF Writable(p, v)
     THEN /\ tlb' = [tlb EXCEPT ![p][v] = Translation(p, v)]
          /\ mem' = [mem EXCEPT ![Translation(p, v).frame] = x]
          /\ UNCHANGED <<pc, va, wr>>
     ELSE Fault(p, v, TRUE) /\ UNCHANGED mem
  /\ UNCHANGED <<ref, free, pt, procVars, pa, old, to, vmlock>>

\* The timer takes the cpu away; switchuvm() loads cr3 when p runs again.
switchuvm(p) ==
  /\ At(p, Places \ {"none", "embryo", "zombie"}) /\ vmlock # p
  /\ Flush(p)
  /\ UNCHANGED <<kmemVars, pt, procVars, pc, regVars, vmlock>>
-----------------------------------------------------------------------------
\* Faulty: the lock is not waited for.
pagefault_unlocked(p) ==
  LET e == pt[pg[p]][va[p]]
      next == IF ~Present(e) THEN IF va[p] >= sz[p] THEN "exit" ELSE "lazyalloc"
              ELSE IF wr[p] /\ e.cow THEN "cowfault"
              ELSE IF wr[p] /\ e.w THEN "user" ELSE "exit"
  IN /\ At(p, {"fault"})
     /\ Goto(p, next)
     /\ UNCHANGED <<kmemVars, pt, procVars, tlb, regVars, vmlock>>

\* Faulty: a fault that another thread has resolved is an error.
pagefault_strict(p) ==
  LET e == pt[pg[p]][va[p]]
      next == IF ~Present(e) /\ va[p] < sz[p] THEN "lazyalloc"
              ELSE IF wr[p] /\ e.cow THEN "cowfault" ELSE "exit"
  IN /\ At(p, {"fault"}) /\ vmlock = NoProc
     /\ Goto(p, next)
     /\ vmlock' = IF next = "exit" THEN NoProc ELSE p
     /\ UNCHANGED <<kmemVars, pt, procVars, tlb, regVars>>

(* pagefault() with its lock: a page below the break is allocated, a       *)
(* shared page is copied, a fault that another thread has resolved is      *)
(* done, and any other one ends the process.                               *)
pagefault(p) ==
  LET e == pt[pg[p]][va[p]]
      next == IF ~Present(e) THEN IF va[p] >= sz[p] THEN "exit" ELSE "lazyalloc"
              ELSE IF wr[p] /\ e.cow THEN "cowfault"
              ELSE IF wr[p] /\ e.w THEN "user" ELSE "exit"
  IN /\ At(p, {"fault"}) /\ vmlock = NoProc
     /\ Goto(p, next)
     /\ IF next \in {"lazyalloc", "cowfault"}
        THEN vmlock' = p /\ UNCHANGED <<va, wr>>
        ELSE Clear(p) /\ UNCHANGED vmlock
     /\ UNCHANGED <<kmemVars, pt, procVars, tlb, pa, old, to>>

\* Leave pagefault(): back to user code, or to exit() on an error.
Resolve(p, pt2) == Goto(p, pt2) /\ vmlock' = NoProc /\ Clear(p)

lazyalloc(p) ==
  /\ At(p, {"lazyalloc"})
  /\ \/ \E f \in free :
          /\ kalloc(f)
          /\ mem' = [mem EXCEPT ![f] = Zero]
          /\ pa' = [pa EXCEPT ![p] = f]
          /\ Goto(p, "lazymap") /\ UNCHANGED <<vmlock, va, wr>>
     \/ free = {} /\ Resolve(p, "exit") /\ UNCHANGED <<kmemVars, pa>>
  /\ UNCHANGED <<pt, procVars, tlb, old, to>>

\* Faulty: the frame is not given back when it cannot be mapped.
lazymap_leak(p) ==
  /\ At(p, {"lazymap"})
  /\ Resolve(p, "exit")
  /\ pa' = [pa EXCEPT ![p] = NoFrame]
  /\ UNCHANGED <<kmemVars, pt, tlb, procVars, old, to>>

lazymap(p) ==
  /\ At(p, {"lazymap"})
  /\ IF Present(pt[pg[p]][va[p]])
     THEN Goto(p, "panic") /\ UNCHANGED <<kmemVars, pt, tlb, vmlock, va, wr>>
     ELSE \/ /\ pt' = [pt EXCEPT ![pg[p]][va[p]] = Pte(pa[p], TRUE, FALSE, TRUE)]
             /\ invlpg(p, va[p])
             /\ Resolve(p, "user")
             /\ UNCHANGED kmemVars
          \/ kfree(pa[p]) /\ Resolve(p, "exit") /\ UNCHANGED <<pt, tlb>>
  /\ pa' = [pa EXCEPT ![p] = NoFrame]
  /\ UNCHANGED <<procVars, old, to>>

(* cowfault() looks at the entry and at the reference count, without the   *)
(* lock of fork(): the only reference makes the page writable in place, of *)
(* any other one a copy is made.                                           *)
cowfault(p) ==
  LET e == pt[pg[p]][va[p]]
  IN /\ At(p, {"cowfault"})
     /\ IF ~e.cow
        THEN Resolve(p, IF e.w THEN "user" ELSE "exit") /\ UNCHANGED pa
        ELSE /\ pa' = [pa EXCEPT ![p] = e.frame]
             /\ Goto(p, IF ref[e.frame] = 1 THEN "cowsole" ELSE "cowcopy")
             /\ UNCHANGED <<vmlock, va, wr>>
     /\ UNCHANGED <<kmemVars, pt, tlb, procVars, old, to>>

\* The entry as cowfault() writes it.
Owned(p, f) == Pte(f, TRUE, FALSE, pt[pg[p]][va[p]].u)

cowsole(p) ==
  /\ At(p, {"cowsole"})
  /\ pt' = [pt EXCEPT ![pg[p]][va[p]] = Owned(p, pa[p])]
  /\ invlpg(p, va[p])
  /\ Resolve(p, "user")
  /\ pa' = [pa EXCEPT ![p] = NoFrame]
  /\ UNCHANGED <<kmemVars, procVars, old, to>>

\* Faulty: the new page is zeroed, not copied.
cowcopy_blank(p) ==
  /\ At(p, {"cowcopy"})
  /\ \E f \in free :
       /\ kalloc(f)
       /\ mem' = [mem EXCEPT ![f] = Zero]
       /\ pt' = [pt EXCEPT ![pg[p]][va[p]] = Owned(p, f)]
  /\ Goto(p, "cowdrop")
  /\ UNCHANGED <<procVars, tlb, regVars, vmlock>>

cowcopy(p) ==
  /\ At(p, {"cowcopy"})
  /\ \/ \E f \in free :
          /\ kalloc(f)
          /\ mem' = [mem EXCEPT ![f] = mem[pa[p]]]
          /\ pt' = [pt EXCEPT ![pg[p]][va[p]] = Owned(p, f)]
          /\ Goto(p, "cowdrop") /\ UNCHANGED <<vmlock, pa, va, wr>>
     \/ /\ free = {} /\ Resolve(p, "exit")
        /\ pa' = [pa EXCEPT ![p] = NoFrame]
        /\ UNCHANGED <<kmemVars, pt>>
  /\ UNCHANGED <<procVars, tlb, old, to>>

cowdrop(p) ==
  /\ At(p, {"cowdrop"})
  /\ IF ref[pa[p]] = 0
     THEN Goto(p, "panic") /\ UNCHANGED <<kmemVars, tlb, vmlock, va, wr>>
     ELSE kfree(pa[p]) /\ invlpg(p, va[p]) /\ Resolve(p, "user")
  /\ pa' = [pa EXCEPT ![p] = NoFrame]
  /\ UNCHANGED <<pt, procVars, old, to>>
-----------------------------------------------------------------------------
\* Faulty: a thread of a shared address space may fork.
fork_shared(p) ==
  /\ At(p, {"user"})
  /\ \E q \in {x \in Procs : pc[x] = "none"}, d \in UnusedDirs :
       /\ np' = [np EXCEPT ![p] = q]
       /\ dir' = [dir EXCEPT ![p] = d]
       /\ pc' = [pc EXCEPT ![p] = "cowuvm", ![q] = "embryo"]
       /\ va' = [va EXCEPT ![p] = 0]
  /\ UNCHANGED <<kmemVars, pt, pg, sz, tlb, wr, pa, old, to, vmlock>>

\* fork(): refused when the address space is shared.
fork(p) ==
  /\ At(p, {"user"}) /\ pgdir_users(pg[p]) = {p}
  /\ \E q \in {x \in Procs : pc[x] = "none"}, d \in UnusedDirs :
       /\ np' = [np EXCEPT ![p] = q]
       /\ dir' = [dir EXCEPT ![p] = d]
       /\ pc' = [pc EXCEPT ![p] = "cowuvm", ![q] = "embryo"]
       /\ va' = [va EXCEPT ![p] = 0]
  /\ UNCHANGED <<kmemVars, pt, pg, sz, tlb, wr, pa, old, to, vmlock>>

\* Faulty: the parent's entry stays writable.
cowuvm_writable(p) ==
  LET f == pt[pg[p]][va[p]].frame
  IN /\ At(p, {"cowuvm"}) /\ va[p] < sz[p] /\ f # NoFrame
     /\ ref' = [ref EXCEPT ![f] = @ + 1]
     /\ pa' = [pa EXCEPT ![p] = f]
     /\ Goto(p, "cowmap")
     /\ UNCHANGED <<free, mem, pt, procVars, tlb, va, wr, old, to, vmlock>>

(* A round of cowuvm()'s loop: write-protect a present page and take a     *)
(* reference for the child, then map it there.                             *)
cowuvm(p) ==
  LET e == pt[pg[p]][va[p]]
  IN /\ At(p, {"cowuvm"}) /\ va[p] < sz[p]
     /\ IF ~Present(e)
        THEN /\ va' = [va EXCEPT ![p] = @ + 1]
             /\ UNCHANGED <<ref, pt, pa, pc>>
        ELSE /\ pt' = [pt EXCEPT ![pg[p]][va[p]] = Pte(e.frame, FALSE, e.cow \/ e.w, e.u)]
             /\ ref' = [ref EXCEPT ![e.frame] = @ + 1]
             /\ pa' = [pa EXCEPT ![p] = e.frame]
             /\ Goto(p, IF ref[e.frame] = 0 THEN "panic" ELSE "cowmap")
             /\ UNCHANGED va
     /\ UNCHANGED <<free, mem, procVars, tlb, wr, old, to, vmlock>>

cowmap(p) ==
  /\ At(p, {"cowmap"})
  /\ \/ /\ pt' = [pt EXCEPT ![dir[p]][va[p]] = pt[pg[p]][va[p]]]
        /\ va' = [va EXCEPT ![p] = @ + 1]
        /\ Goto(p, "cowuvm") /\ UNCHANGED kmemVars
     \/ kfree(pa[p]) /\ Goto(p, "cowbad") /\ UNCHANGED <<pt, va>>
  /\ pa' = [pa EXCEPT ![p] = NoFrame]
  /\ UNCHANGED <<procVars, tlb, wr, old, to, vmlock>>

\* Faulty: cr3 is not reloaded.
fork_done_cached(p) ==
  LET q == np[p]
  IN /\ At(p, {"cowuvm"}) /\ va[p] >= sz[p]
     /\ pg' = [pg EXCEPT ![q] = dir[p]]
     /\ sz' = [sz EXCEPT ![q] = sz[p]]
     /\ pc' = [pc EXCEPT ![p] = "user", ![q] = "user"]
     /\ np' = [np EXCEPT ![p] = NoProc] /\ dir' = [dir EXCEPT ![p] = NoDir]
     /\ Clear(p)
     /\ UNCHANGED <<kmemVars, pt, tlb, pa, old, to, vmlock>>

\* cowuvm() returns: reload cr3, and the child may run.
fork_done(p) ==
  LET q == np[p]
  IN /\ At(p, {"cowuvm"}) /\ va[p] >= sz[p]
     /\ Flush(p)
     /\ pg' = [pg EXCEPT ![q] = dir[p]]
     /\ sz' = [sz EXCEPT ![q] = sz[p]]
     /\ pc' = [pc EXCEPT ![p] = "user", ![q] = "user"]
     /\ np' = [np EXCEPT ![p] = NoProc] /\ dir' = [dir EXCEPT ![p] = NoDir]
     /\ Clear(p)
     /\ UNCHANGED <<kmemVars, pt, pa, old, to, vmlock>>

(* freevm() of page directory d: every mapping gives its reference up.     *)
freevm(d) ==
  LET mapped == {pt[d][v].frame : v \in Pages} \ {NoFrame}
      last == {f \in mapped : ref[f] = 1}
  IN /\ pt' = [pt EXCEPT ![d] = Empty]
     /\ ref' = [f \in Frames |-> IF f \in mapped THEN ref[f] - 1 ELSE ref[f]]
     /\ free' = free \cup last
     /\ mem' = [f \in Frames |-> IF f \in last THEN Junk ELSE mem[f]]

cowbad(p) ==
  /\ At(p, {"cowbad"})
  /\ freevm(dir[p])
  /\ Flush(p)
  /\ pc' = [pc EXCEPT ![p] = "user", ![np[p]] = "none"]
  /\ np' = [np EXCEPT ![p] = NoProc] /\ dir' = [dir EXCEPT ![p] = NoDir]
  /\ Clear(p)
  /\ UNCHANGED <<pg, sz, pa, old, to, vmlock>>

-----------------------------------------------------------------------------
(* exec(): refused when the address space is shared.  allocuvm() fills a   *)
(* new page directory with the pages of the program, an inaccessible page  *)
(* and the stack.                                                          *)
exec(p) ==
  /\ At(p, {"user"}) /\ pgdir_users(pg[p]) = {p}
  /\ \E d \in UnusedDirs : dir' = [dir EXCEPT ![p] = d]
  /\ Goto(p, "exec")
  /\ UNCHANGED <<kmemVars, pt, pg, sz, np, tlb, regVars, vmlock>>

\* One page, with what loaduvm() or copyout() puts into it, or no memory for it.
exec_alloc(p) ==
  /\ At(p, {"exec"}) /\ va[p] < TEXT + 2
  /\ \/ \E f \in free, x \in IF va[p] = TEXT THEN {Zero} ELSE Vals :
          /\ kalloc(f)
          /\ mem' = [mem EXCEPT ![f] = x]
          /\ pt' = [pt EXCEPT ![dir[p]][va[p]] = Pte(f, TRUE, FALSE, TRUE)]
          /\ va' = [va EXCEPT ![p] = @ + 1]
          /\ UNCHANGED pc
     \/ Goto(p, "execbad") /\ va' = [va EXCEPT ![p] = 0] /\ UNCHANGED <<kmemVars, pt>>
  /\ UNCHANGED <<procVars, tlb, wr, pa, old, to, vmlock>>

\* clearpteu() closes the page below the stack, and the image is the new one.
exec_commit(p) ==
  /\ At(p, {"exec"}) /\ va[p] = TEXT + 2
  /\ pt' = [pt EXCEPT ![dir[p]][TEXT].u = FALSE]
  /\ pg' = [pg EXCEPT ![p] = dir[p]]
  /\ dir' = [dir EXCEPT ![p] = pg[p]]
  /\ sz' = [sz EXCEPT ![p] = TEXT + 2]
  /\ Flush(p)
  /\ Goto(p, "execfree")
  /\ va' = [va EXCEPT ![p] = 0]
  /\ UNCHANGED <<kmemVars, np, wr, pa, old, to, vmlock>>

\* The old page directory goes, or the new one at the label bad.
exec_free(p) ==
  /\ At(p, {"execfree", "execbad"})
  /\ freevm(dir[p])
  /\ dir' = [dir EXCEPT ![p] = NoDir]
  /\ Goto(p, "user")
  /\ UNCHANGED <<pg, sz, np, tlb, regVars, vmlock>>

\* clone(): a new process on the same page directory.
clone(p) ==
  /\ At(p, {"user"}) /\ Cardinality(pgdir_users(pg[p])) < MAXUSERS
  /\ \E q \in {x \in Procs : pc[x] = "none"} :
       /\ pg' = [pg EXCEPT ![q] = pg[p]]
       /\ sz' = [sz EXCEPT ![q] = sz[p]]
       /\ Goto(q, "user")
  /\ UNCHANGED <<kmemVars, pt, np, dir, tlb, regVars, vmlock>>
-----------------------------------------------------------------------------
\* sbrk() upwards only moves the break.
sbrk_grow(p) ==
  /\ At(p, {"user"})
  /\ \E n \in (sz[p] + 1)..NPAGES : sz' = [sz EXCEPT ![p] = n]
  /\ Goto(p, "syncsize")
  /\ UNCHANGED <<kmemVars, pt, pg, np, dir, tlb, regVars, vmlock>>

(* syncsize() tells the other threads; after a shrink switchuvm() follows. *)
syncsize(p) ==
  /\ At(p, {"syncsize", "shrunk"})
  /\ sz' = [q \in Procs |-> IF pg[q] = pg[p] THEN sz[p] ELSE sz[q]]
  /\ IF pc[p] = "shrunk" THEN Flush(p) ELSE UNCHANGED tlb
  /\ Goto(p, "user")
  /\ UNCHANGED <<kmemVars, pt, pg, np, dir, regVars, vmlock>>

\* sbrk() downwards: growproc() and the loop of deallocuvm().
growproc(p) ==
  /\ At(p, {"user"})
  /\ \E n \in MINBRK..(sz[p] - 1) :
       /\ to' = [to EXCEPT ![p] = n]
       /\ va' = [va EXCEPT ![p] = n]
  /\ old' = [old EXCEPT ![p] = sz[p]]
  /\ Goto(p, "dealloc")
  /\ UNCHANGED <<kmemVars, pt, procVars, tlb, wr, pa, vmlock>>

deallocuvm(p) ==
  LET e == pt[pg[p]][va[p]]
  IN /\ At(p, {"dealloc"}) /\ va[p] < old[p]
     /\ IF ~Present(e)
        THEN /\ va' = [va EXCEPT ![p] = @ + 1]
             /\ UNCHANGED <<kmemVars, pc>>
        ELSE /\ UNCHANGED va
             /\ IF ref[e.frame] = 0
                THEN Goto(p, "panic") /\ UNCHANGED kmemVars
                ELSE kfree(e.frame) /\ Goto(p, "unmap")
     /\ UNCHANGED <<pt, procVars, tlb, wr, pa, old, to, vmlock>>

deallocuvm_clear(p) ==
  /\ At(p, {"unmap"})
  /\ pt' = [pt EXCEPT ![pg[p]][va[p]] = NoPte]
  /\ va' = [va EXCEPT ![p] = @ + 1]
  /\ Goto(p, "dealloc")
  /\ UNCHANGED <<kmemVars, procVars, tlb, wr, pa, old, to, vmlock>>

\* deallocuvm() returns the new size, and zero counts as an error.
growproc_done(p) ==
  /\ At(p, {"dealloc"}) /\ va[p] >= old[p]
  /\ IF to[p] = 0
     THEN Goto(p, "user") /\ UNCHANGED sz
     ELSE sz' = [sz EXCEPT ![p] = to[p]] /\ Goto(p, "shrunk")
  /\ Clear(p)
  /\ old' = [old EXCEPT ![p] = 0] /\ to' = [to EXCEPT ![p] = 0]
  /\ UNCHANGED <<kmemVars, pt, pg, np, dir, tlb, pa, vmlock>>
-----------------------------------------------------------------------------
(* exit(), called by the program or for a fault that cannot be resolved;   *)
(* for init it is panic("init exiting").                                   *)
exit(p) ==
  /\ At(p, {"user", "exit"}) /\ p # initproc
  /\ Goto(p, "zombie")
  /\ Flush(p)
  /\ UNCHANGED <<kmemVars, pt, procVars, regVars, vmlock>>

\* wait() and join() reap a process; the last user's address space is freed.
reap(p) ==
  /\ At(p, {"zombie"})
  /\ Goto(p, "none")
  /\ IF pgdir_users(pg[p]) = {p} THEN freevm(pg[p]) ELSE UNCHANGED <<kmemVars, pt>>
  /\ pg' = [pg EXCEPT ![p] = NoDir] /\ sz' = [sz EXCEPT ![p] = 0]
  /\ UNCHANGED <<np, dir, tlb, regVars, vmlock>>
-----------------------------------------------------------------------------
Next ==
  \E p \in Procs :
    \/ \E v \in Pages : load(p, v)
    \/ \E v \in Pages, x \in Vals : store(p, v, x)
    \/ switchuvm(p) \/ pagefault(p) \/ lazyalloc(p) \/ lazymap(p)
    \/ cowfault(p) \/ cowsole(p) \/ cowcopy(p) \/ cowdrop(p)
    \/ fork(p) \/ cowuvm(p) \/ cowmap(p) \/ fork_done(p) \/ cowbad(p) \/ clone(p)
    \/ exec(p) \/ exec_alloc(p) \/ exec_commit(p) \/ exec_free(p)
    \/ sbrk_grow(p) \/ syncsize(p) \/ growproc(p) \/ deallocuvm(p) \/ deallocuvm_clear(p)
    \/ growproc_done(p) \/ exit(p) \/ reap(p)

Spec == Init /\ [][Next]_vars
-----------------------------------------------------------------------------
Ptes == [frame : Frames \cup {NoFrame}, w : BOOLEAN, cow : BOOLEAN, u : BOOLEAN]

\* Every variable has its type; no reference count falls below zero.
TypeOK ==
  /\ ref \in [Frames -> Nat]
  /\ free \in SUBSET Frames
  /\ mem \in [Frames -> Vals \cup {Junk}]
  /\ pt \in [PgDirs -> [Pages -> Ptes]]
  /\ pg \in [Procs -> PgDirs \cup {NoDir}]
  /\ sz \in [Procs -> 0..NPAGES]
  /\ tlb \in [Procs -> [Pages -> Ptes]]
  /\ pc \in [Procs -> Places]
  /\ va \in [Procs -> 0..NPAGES]
  /\ wr \in [Procs -> BOOLEAN]
  /\ pa \in [Procs -> Frames \cup {NoFrame}]
  /\ old \in [Procs -> 0..NPAGES] /\ to \in [Procs -> 0..NPAGES]
  /\ np \in [Procs -> Procs \cup {NoProc}]
  /\ dir \in [Procs -> PgDirs \cup {NoDir}]
  /\ vmlock \in Procs \cup {NoProc}

\* deallocuvm() has freed the frame of this entry and is about to clear it.
Dying(a, v) == \E p \in Procs : pc[p] = "unmap" /\ pg[p] = a /\ va[p] = v

(* The references that exist to frame f: the entries of page tables and    *)
(* the frames that a handler has in hand.                                  *)
Maps(a, v, f) == pt[a][v].frame = f /\ ~Dying(a, v)
Entries(f) == {s \in PgDirs \X Pages : Maps(s[1], s[2], f)}
InHand(f) == {p \in Procs : pc[p] \in {"lazymap", "cowmap", "cowdrop"} /\ pa[p] = f}

(* The reference count of a frame is the number of references to it, and   *)
(* it is on the free list exactly when there is none: no frame leaks and   *)
(* none is handed out while somebody still maps it.                        *)
RefInv ==
  /\ TypeOK
  /\ \A f \in Frames : /\ ref[f] = Cardinality(Entries(f)) + Cardinality(InHand(f))
                       /\ f \in free <=> ref[f] = 0

(* A frame that one page table maps writable is mapped nowhere else: the   *)
(* count of one that cowfault() observes cannot go stale.                  *)
WritableIsSole ==
  \A a, b \in PgDirs, v, w \in Pages :
    pt[a][v].w /\ ~Dying(a, v) /\ Maps(b, w, pt[a][v].frame) => a = b /\ v = w

(* In user code no cached translation survives a change of the page table: *)
(* cowuvm(), cowfault() and growproc() flush what they change.             *)
TlbCoherent ==
  \A p \in Procs, v \in Pages :
    pc[p] = "user" /\ Present(tlb[p][v]) =>
      /\ tlb[p][v].frame = pt[pg[p]][v].frame
      /\ tlb[p][v].w => pt[pg[p]][v].w
      /\ tlb[p][v].u => pt[pg[p]][v].u

(* pagefault() gives a fault up only for an address at or above the break  *)
(* and for the page that exec() makes inaccessible, also when another      *)
(* thread has resolved the same fault in the meantime.                     *)
FaultsResolved ==
  [][\A p \in Procs : pc[p] = "fault" /\ pc'[p] = "exit" =>
       \/ va[p] >= sz[p]
       \/ Present(pt[pg[p]][va[p]]) /\ ~pt[pg[p]][va[p]].u]_vars

\* The same for the faults of writes: the last test of pagefault().
WriteFaultsResolved ==
  [][\A p \in Procs : wr[p] /\ pc[p] = "fault" /\ pc'[p] = "exit" => va[p] >= sz[p]]_vars

\* The memory that the processes on page directory a see.
Image ==
  [a \in PgDirs |-> [v \in Pages |->
     IF pgdir_users(a) = {} \/ ~Present(pt[a][v]) \/ Dying(a, v) THEN Zero
     ELSE IF pt[a][v].u THEN mem[pt[a][v].frame] ELSE Junk]]

Private == INSTANCE PrivateMemory
  WITH Spaces <- PgDirs, Closed <- Junk, NoSpace <- NoDir, space <- pg, image <- Image

\* What exec() leaves at the pages of a program: the one below the stack is closed.
Programs ==
  {m \in [Pages -> Vals \cup {Junk}] :
     \A v \in Pages : (m[v] = Junk <=> v = TEXT) /\ (v > TEXT + 1 => m[v] = Zero)}

\* The operation of PrivateMemory that a step of p carries out.
Carries(p) ==
  \/ \E v \in Pages, x \in Vals : store(p, v, x) /\ Writable(p, v) /\ Private!Store(p, v, x)
  \/ deallocuvm(p) /\ va[p] >= to[p] /\ Private!Discard(p, va[p])
  \/ fork_done(p) /\ Private!Fork(p, np[p], dir[p])
  \/ clone(p) /\ \E q \in Procs : Private!Clone(p, q)
  \/ exec_commit(p) /\ \E m \in Programs : Private!Exec(p, dir[p], m)
  \/ reap(p) /\ Private!Exit(p)

\* Any other step, in which no store is carried out, leaves the memory alone.
Quiet ==
  /\ UNCHANGED <<pg, Image>>
  /\ \A p \in Procs, v \in Pages, x \in Vals : ~(store(p, v, x) /\ Writable(p, v))

(* Copy-on-write, lazy allocation, the fault handler and the TLB together  *)
(* give every process a memory of its own, as PrivateMemory has it: a load *)
(* returns what that memory holds, and it changes only in the step of a    *)
(* process that stores into it, shrinks it, forks, calls exec or ends, and *)
(* then as that operation says.                                            *)
PrivateSpec ==
  /\ Private!Init
  /\ [](\A p \in Procs, v \in Pages :
          pc[p] = "user" /\ Readable(p, v) => Private!Loads(p, v, mem[Translation(p, v).frame]))
  /\ [][Quiet \/ \E p \in Procs : Carries(p)]_vars
=============================================================================
