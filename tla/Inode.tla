------------------------------- MODULE Inode --------------------------------
(***************************************************************************)
(* The inodes, directories and block allocation of fs.c as functions of a  *)
(* record s: the disk (dinode, used, data), the inode cache (inode, ref,   *)
(* valid) and whether the kernel has panicked.                             *)
(*                                                                         *)
(* A block holds BSIZE units.  A unit is a byte of a file <<char, 0>>, a   *)
(* directory entry <<name, inum>> or, in an indirect block, an address     *)
(* <<"", block>>; Zero is what bzero() leaves.                             *)
(***************************************************************************)
EXTENDS Integers, Sequences, FiniteSets, FiniteSetsExt, SequencesExt

CONSTANTS NINODES,   \* sb.ninodes
          NINODE,    \* entries of the inode cache
          NBLOCKS,   \* data blocks of the disk
          BSIZE, NDIRECT

Inums == 1..(NINODES - 1)
Blocks == 1..NBLOCKS
ROOTINO == 1
NoInode == 0
Zero == <<"", 0>>
MAXFILE == NDIRECT + BSIZE

ASSUME SizesAssumption ==
  /\ {NINODES, NINODE, NBLOCKS, BSIZE, NDIRECT} \subseteq Nat \ {0}

FreeInode == [type |-> "none", nlink |-> 0, size |-> 0, addrs |-> [a \in 0..NDIRECT |-> 0]]

Panic(s) == [s EXCEPT !.panic = TRUE]
-----------------------------------------------------------------------------
\* The block that balloc() finds, if there is one.
FreeBlock(s) == IF s.used = Blocks THEN 0 ELSE Min(Blocks \ s.used)

balloc(s) ==
  IF s.used = Blocks THEN Panic(s)
  ELSE [s EXCEPT !.used = @ \cup {FreeBlock(s)},
                 !.data[FreeBlock(s)] = [u \in 0..(BSIZE - 1) |-> Zero]]

bfree(s, B) == IF B \subseteq s.used THEN [s EXCEPT !.used = @ \ B] ELSE Panic(s)

iupdate(s, i) == [s EXCEPT !.dinode[i] = s.inode[i]]

\* The block of inode i at position n of its file, and the state with it allocated.
Addr(s, i, n) ==
  LET addrs == s.inode[i].addrs
  IN IF n < NDIRECT THEN addrs[n] ELSE s.data[addrs[NDIRECT]][n - NDIRECT][2]

bmap_slot(s, i, a) ==
  IF s.inode[i].addrs[a] # 0 THEN s
  ELSE [balloc(s) EXCEPT !.inode[i].addrs[a] = FreeBlock(s)]

bmap(s, i, n) ==
  IF n < NDIRECT THEN bmap_slot(s, i, n)
  ELSE LET t == bmap_slot(s, i, NDIRECT)
       IN IF Addr(t, i, n) # 0 THEN t
          ELSE [balloc(t) EXCEPT !.data[t.inode[i].addrs[NDIRECT]][n - NDIRECT] =
                                     <<"", FreeBlock(t)>>]

\* The blocks of an inode: direct ones, the indirect one and those it lists.
Direct(ip) == {ip.addrs[a] : a \in 0..NDIRECT} \ {0}
Indirect(s, ip) ==
  IF ip.addrs[NDIRECT] = 0 THEN {}
  ELSE {s.data[ip.addrs[NDIRECT]][u][2] : u \in 0..(BSIZE - 1)} \ {0}

itrunc(s, i) ==
  LET t == bfree(s, Direct(s.inode[i]) \cup Indirect(s, s.inode[i]))
  IN iupdate([t EXCEPT !.inode[i].addrs = FreeInode.addrs, !.inode[i].size = 0], i)
-----------------------------------------------------------------------------
\* The cache: a new entry is not valid until ilock() has read the inode.
iget(s, i) ==
  IF s.ref[i] > 0 THEN [s EXCEPT !.ref[i] = @ + 1]
  ELSE IF Cardinality({j \in Inums : s.ref[j] > 0}) = NINODE THEN Panic(s)
  ELSE [s EXCEPT !.ref[i] = 1, !.valid[i] = FALSE]

idup(s, i) == [s EXCEPT !.ref[i] = @ + 1]

\* What ilock() does once it has the lock.
ilock(s, i) ==
  IF s.ref[i] < 1 THEN Panic(s)
  ELSE IF s.valid[i] THEN s
  ELSE [s EXCEPT !.inode[i] = s.dinode[i], !.valid[i] = TRUE,
                 !.panic = @ \/ s.dinode[i].type = "none"]

\* The number of the inode that ialloc() finds, if there is one.
FreeInum(s) ==
  LET free == {i \in Inums : s.dinode[i].type = "none"}
  IN IF free = {} THEN NoInode ELSE Min(free)

ialloc(s, type) ==
  IF FreeInum(s) = NoInode THEN Panic(s)
  ELSE iget([s EXCEPT !.dinode[FreeInum(s)] = [FreeInode EXCEPT !.type = type]], FreeInum(s))
-----------------------------------------------------------------------------
Unit(s, i, off) == s.data[Addr(s, i, off \div BSIZE)][off % BSIZE]

\* What readi() copies; a device, or an offset beyond the end, is the caller's case.
readi(s, i, off, n) ==
  [j \in 1..Min({n, s.inode[i].size - off}) |-> Unit(s, i, off + j - 1)]

CanWrite(s, i, off, n) == off <= s.inode[i].size /\ off + n <= MAXFILE * BSIZE

writei(s, i, off, us) ==
  LET Put(t, j) == LET at == off + j - 1
                       m == bmap(t, i, at \div BSIZE)
                   IN [m EXCEPT !.data[Addr(m, i, at \div BSIZE)][at % BSIZE] = us[j]]
      t == FoldLeftDomain(Put, s, us)
  IN IF off + Len(us) > s.inode[i].size
     THEN iupdate([t EXCEPT !.inode[i].size = off + Len(us)], i) ELSE t
-----------------------------------------------------------------------------
\* The offsets of the entries of directory d, of its free slots, and of a name.
Entries(s, d) == {off \in 0..(s.inode[d].size - 1) : Unit(s, d, off)[2] # 0}
Slots(s, d) == (0..(s.inode[d].size - 1)) \ Entries(s, d)
Matches(s, d, name) == {off \in Entries(s, d) : Unit(s, d, off)[1] = name}

dirlookup(s, d, name) ==
  IF Matches(s, d, name) = {} THEN NoInode ELSE Unit(s, d, Min(Matches(s, d, name)))[2]

\* dirlink() of a name that is not there: the first free slot, or the end.
dirlink(s, d, name, i) ==
  writei(s, d, IF Slots(s, d) = {} THEN s.inode[d].size ELSE Min(Slots(s, d)), <<<<name, i>>>>)

\* What fstat() tells of an inode: its type and links, and its size.
stati(ip) == <<<<ip.type, ip.nlink>>, <<"size", ip.size>>>>

isdirempty(s, d) == \A off \in Entries(s, d) : off < 2

\* skipelem() keeps DIRSIZ characters of a path element.
skipelem(elem) == IF elem = "123456789012345" THEN "12345678901234" ELSE elem

ELF == <<"ELF", 0>>

\* ialloc() and iappend() of mkfs.c, which make an inode and add to the end of its file.
mkfs_ialloc(s, type) ==
  [s EXCEPT !.inode[FreeInum(s)] = [FreeInode EXCEPT !.type = type, !.nlink = 1],
            !.dinode[FreeInum(s)].type = type]
iappend(s, i, us) == writei(s, i, s.inode[i].size, us)

\* The file system that mkfs makes: the root directory, a text and two programs.
mkfs ==
  LET empty == [dinode |-> [i \in Inums |-> FreeInode], used |-> {},
                data |-> [b \in Blocks |-> [u \in 0..(BSIZE - 1) |-> Zero]],
                inode |-> [i \in Inums |-> FreeInode], ref |-> [i \in Inums |-> 0],
                valid |-> [i \in Inums |-> FALSE], panic |-> FALSE]
      dots == iappend(mkfs_ialloc(empty, "dir"), ROOTINO, <<<<".", ROOTINO>>, <<"..", ROOTINO>>>>)
      Add(s, name, us) == LET i == FreeInum(s)
                          IN iappend(iappend(mkfs_ialloc(s, "file"), ROOTINO, <<<<name, i>>>>), i, us)
      full == Add(Add(Add(dots, "README", << >>), "cat", <<ELF>>), "echo", <<ELF>>)
  IN [full EXCEPT !.dinode = full.inode, !.inode = empty.inode]
=============================================================================
