------------------------------- MODULE Files --------------------------------
(***************************************************************************)
(* File descriptors, open files, pipes, the console and the system calls   *)
(* on files and directories, from sysfile.c, file.c, pipe.c, console.c and *)
(* fs.c, as executed by processes that run a given program.  A step of a   *)
(* process ends where it waits for the lock of an inode or of a pipe.      *)
(***************************************************************************)
EXTENDS Inode

CONSTANTS NPROC, NOFILE, NFILE, PIPESIZE, NPIPE,
          COUNTER,    \* the counters of a pipe wrap around at this value
          MAXWRITE,   \* max in filewrite(): what one transaction may write
          INPUT_BUF,  \* characters that the console keeps for its readers
          INDEX,      \* its indices wrap around at this value
          Programs,   \* the program of the first process; programs fork others
          Interactive \* the programs with somebody at the keyboard

Procs == 1..NPROC
NoProc == 0
Files == 1..NFILE
NoFile == 0
Pipes == 1..NPIPE
Fds == 0..(NOFILE - 1)
RESULT == -2

ASSUME BoundsAssumption ==
  /\ {NPROC, NOFILE, NFILE, PIPESIZE, NPIPE, MAXWRITE} \subseteq Nat \ {0}
  /\ COUNTER % PIPESIZE = 0 /\ COUNTER > PIPESIZE
  /\ INPUT_BUF > 0 /\ INDEX % INPUT_BUF = 0 /\ INDEX > INPUT_BUF

VARIABLES
  fs,       \* disk and inode cache
  lock,     \* who holds the sleep lock of an inode
  ftable,   \* the open files
  pipe,
  console,  \* input of console.c, and whether somebody types
  proc,     \* processes: state, parent, killed, program, descriptors, directory
  sys       \* the system call that a process is in

vars == <<fs, lock, ftable, pipe, console, proc, sys>>

OK(n) == [ok |-> TRUE, n |-> n, data |-> << >>]
FAIL == [ok |-> FALSE, n |-> -1, data |-> << >>]
Data(us) == [ok |-> TRUE, n |-> Len(us), data |-> us]

ClosedFile == [ref |-> 0, type |-> "none", ip |-> NoInode, pipe |-> 0, off |-> 0,
               readable |-> FALSE, writable |-> FALSE]
ClosedPipe == [data |-> [u \in 0..(PIPESIZE - 1) |-> Zero], nread |-> 0, nwrite |-> 0,
               readopen |-> FALSE, writeopen |-> FALSE]
Unused == [state |-> "unused", parent |-> NoProc, killed |-> FALSE, passed |-> TRUE,
           prog |-> << >>, result |-> FAIL, ofile |-> [fd \in Fds |-> NoFile], cwd |-> NoInode]

(* ip and dp are the local variables of that name; path is what namex()    *)
(* has still to walk; todo are the inodes to give to iput() before going   *)
(* on, and put how far iput() is with the first; buf is data to write, or  *)
(* the data read so far; ff is that variable of fileclose().               *)
Idle == [pc |-> "user", ip |-> NoInode, dp |-> NoInode, path |-> << >>, name |-> "",
         todo |-> << >>, put |-> "lock", buf |-> << >>, ff |-> ClosedFile]

Init ==
  /\ fs = [mkfs EXCEPT !.ref[ROOTINO] = 1]
  /\ lock = [i \in Inums |-> NoProc]
  /\ ftable = [f \in Files |-> ClosedFile]
  /\ pipe = [x \in Pipes |-> ClosedPipe]
  /\ \E prog \in Programs :
       /\ proc = [p \in Procs |-> IF p = 1 THEN [Unused EXCEPT !.state = "run", !.prog = prog,
                                                              !.cwd = ROOTINO]
                                  ELSE Unused]
       /\ console = [buf |-> [u \in 0..(INPUT_BUF - 1) |-> Zero], r |-> 0, w |-> 0, e |-> 0,
                     typist |-> prog \in Interactive]
  /\ sys = [p \in Procs |-> Idle]
-----------------------------------------------------------------------------
Call(p) == Head(proc[p].prog)

\* A process at a place; nothing runs after a panic or before iput() is done.
At(p, place) ==
  ~fs.panic /\ proc[p].state = "run" /\ sys[p].todo = << >> /\ sys[p].pc = place

\* Process p starts the system call op of its program.
Calls(p, op) ==
  At(p, "user") /\ ~proc[p].killed /\ proc[p].prog # << >> /\ Call(p).op = op

(* The call returns r to the program, which compares it with what it       *)
(* expects (nothing, when ret is empty); q is the process otherwise.       *)
Returns(p, q, r) ==
  [q EXCEPT !.prog = Tail(@), !.result = r,
            !.passed = @ /\ (q.killed \/ Call(p).ret = {} \/ r \in Call(p).ret)]
Return(p, q, r) == proc' = [proc EXCEPT ![p] = Returns(p, q, r)]
Done(p, todo) == sys' = [sys EXCEPT ![p] = [Idle EXCEPT !.todo = todo]]
Goto(p, place) == sys' = [sys EXCEPT ![p].pc = place]

Fails(p, todo) == Return(p, proc[p], FAIL) /\ Done(p, todo)

Unlocked(i) == lock[i] = NoProc
-----------------------------------------------------------------------------
\* namex() starts at the root or at the current directory.
Walk(s, p, path, place) ==
  LET abs == path # << >> /\ Head(path) = "/"
      i == IF abs THEN ROOTINO ELSE proc[p].cwd
  IN /\ fs' = IF abs THEN iget(s, i) ELSE idup(s, i)
     /\ sys' = [sys EXCEPT ![p].pc = place, ![p].dp = i,
                           ![p].path = IF abs THEN Tail(path) ELSE path]

\* The place where a call goes on after namex(), and whether it wants the parent.
Creates(p) == Call(p).op \in {"mkdir", "mknod"} \/ (Call(p).op = "open" /\ Call(p).create)
Parent(p) == sys[p].pc = "namex_new" \/ Creates(p) \/ Call(p).op = "unlink"
Then(p) == IF sys[p].pc = "namex_new" THEN "link_dir" ELSE IF Creates(p) THEN "create" ELSE Call(p).op

path_call(p) ==
  /\ \E op \in {"open", "mkdir", "mknod", "unlink", "link", "chdir", "exec"} : Calls(p, op)
  /\ Walk(fs, p, Call(p).path, "namex")
  /\ UNCHANGED <<lock, ftable, pipe, proc>>

\* namex() finds nothing; link() has still to take back the link it has counted.
WalkFails(p) ==
  IF sys[p].pc = "namex_new"
  THEN sys' = [sys EXCEPT ![p].pc = "link_bad", ![p].todo = <<sys[p].dp>>] /\ UNCHANGED proc
  ELSE Fails(p, <<sys[p].dp>>)

namex_end(p) ==
  /\ At(p, "namex") \/ At(p, "namex_new")
  /\ sys[p].path = << >>
  /\ IF Parent(p) THEN WalkFails(p)
     ELSE sys' = [sys EXCEPT ![p].pc = Then(p), ![p].ip = sys[p].dp] /\ UNCHANGED proc
  /\ UNCHANGED <<fs, lock, ftable, pipe>>

(* One round of namex(): ilock(), a look at the directory, iunlock(), and  *)
(* iput() of the directory that has been passed.                           *)
namex_next(p) ==
  /\ At(p, "namex") \/ At(p, "namex_new")
  /\ sys[p].path # << >>
  /\ LET i == sys[p].dp
         t == ilock(fs, i)
         name == skipelem(Head(sys[p].path))
         last == Parent(p) /\ Len(sys[p].path) = 1
         dir == t.inode[i].type = "dir"
         j == IF dir THEN dirlookup(t, i, name) ELSE NoInode
     IN /\ Unlocked(i)
        /\ \/ /\ dir /\ last
              /\ sys' = [sys EXCEPT ![p].pc = Then(p), ![p].name = name, ![p].path = << >>]
              /\ fs' = t /\ UNCHANGED proc
           \/ /\ j # NoInode /\ ~last
              /\ sys' = [sys EXCEPT ![p].dp = j, ![p].path = Tail(@), ![p].todo = <<i>>]
              /\ fs' = iget(t, j) /\ UNCHANGED proc
           \/ /\ ~dir \/ (j = NoInode /\ ~last)
              /\ WalkFails(p)
              /\ fs' = t
  /\ UNCHANGED <<lock, ftable, pipe>>

\* Faulty: the inode stays valid in the cache after it has been freed.
iput_valid(p) ==
  LET i == Head(sys[p].todo)
  IN /\ sys[p].put = "free"
     /\ lock' = [lock EXCEPT ![i] = NoProc]
     /\ sys' = [sys EXCEPT ![p].put = "ref"]
     /\ UNCHANGED fs
(* iput(): with the lock, an inode without links and other references is   *)
(* freed on the disk, where ialloc() may find it at once; ...              *)
iput_lock(p) ==
  LET i == Head(sys[p].todo)
      free == fs.valid[i] /\ fs.inode[i].nlink = 0 /\ fs.ref[i] = 1
  IN /\ sys[p].put = "lock" /\ Unlocked(i)
     /\ fs' = IF free THEN iupdate([itrunc(fs, i) EXCEPT !.inode[i].type = "none"], i) ELSE fs
     /\ lock' = IF free THEN [lock EXCEPT ![i] = p] ELSE lock
     /\ sys' = [sys EXCEPT ![p].put = IF free THEN "free" ELSE "ref"]

\* ... then the cached copy is dropped, the lock, and at last the reference.  An
\* entry of the cache without references is as good as empty.
iput_free(p) ==
  LET i == Head(sys[p].todo)
  IN /\ sys[p].put = "free"
     /\ fs' = [fs EXCEPT !.valid[i] = FALSE]
     /\ lock' = [lock EXCEPT ![i] = NoProc]
     /\ sys' = [sys EXCEPT ![p].put = "ref"]

iput_ref(p) ==
  LET i == Head(sys[p].todo)
  IN /\ sys[p].put = "ref"
     /\ fs' = IF fs.ref[i] > 1 THEN [fs EXCEPT !.ref[i] = @ - 1]
              ELSE [fs EXCEPT !.ref[i] = 0, !.inode[i] = FreeInode, !.valid[i] = FALSE]
     /\ sys' = [sys EXCEPT ![p].put = "lock", ![p].todo = Tail(@)]
     /\ UNCHANGED lock

iput(p) ==
  /\ ~fs.panic /\ sys[p].todo # << >>
  /\ iput_lock(p) \/ iput_free(p) \/ iput_ref(p)
  /\ UNCHANGED <<ftable, pipe, proc>>
-----------------------------------------------------------------------------
FreeFds(p) == {fd \in Fds : proc[p].ofile[fd] = NoFile}
FreeFiles == {f \in Files : ftable[f].ref = 0}

(* The end of open(): a file and a descriptor for the locked inode.  For   *)
(* mkdir() and mknod() the inode is only unlocked and put.                 *)
created(p) ==
  LET i == sys[p].ip
      f == Min(FreeFiles)
      fd == Min(FreeFds(p))
      room == FreeFiles # {} /\ FreeFds(p) # {}
      mode == Call(p).mode
  IN /\ At(p, "created")
     /\ lock' = [lock EXCEPT ![i] = NoProc]
     /\ \/ /\ Call(p).op = "open" /\ room
           /\ ftable' = [ftable EXCEPT ![f] =
                [ClosedFile EXCEPT !.ref = 1, !.type = "inode", !.ip = i,
                                   !.readable = mode # "WRONLY", !.writable = mode # "RDONLY"]]
           /\ Return(p, [proc[p] EXCEPT !.ofile[fd] = f], OK(fd))
           /\ Done(p, << >>)
        \/ Call(p).op = "open" /\ ~room /\ Fails(p, <<i>>) /\ UNCHANGED ftable
        \/ /\ Call(p).op # "open"
           /\ Return(p, proc[p], OK(0)) /\ Done(p, <<i>>) /\ UNCHANGED ftable
     /\ UNCHANGED <<fs, pipe>>

\* open() without O_CREATE, and create() that finds the name: lock the inode.
open(p) ==
  LET i == sys[p].ip
      t == ilock(fs, i)
      may == IF Creates(p) THEN Call(p).op = "open" /\ t.inode[i].type = "file"
             ELSE t.inode[i].type # "dir" \/ Call(p).mode = "RDONLY"
  IN /\ At(p, "open") /\ Unlocked(i)
     /\ fs' = t
     /\ IF may THEN lock' = [lock EXCEPT ![i] = p] /\ Goto(p, "created") /\ UNCHANGED proc
        ELSE Fails(p, <<i>>) /\ UNCHANGED lock
     /\ UNCHANGED <<ftable, pipe>>

\* create() with the directory locked: the name is there, or an inode is allocated.
create(p) ==
  LET d == sys[p].dp
      t == ilock(fs, d)
      j == dirlookup(t, d, sys[p].name)
      type == CASE Call(p).op = "open" -> "file" [] Call(p).op = "mkdir" -> "dir" [] OTHER -> "dev"
  IN /\ At(p, "create") /\ Unlocked(d)
     /\ IF j # NoInode
        THEN /\ fs' = iget(t, j)
             /\ sys' = [sys EXCEPT ![p].pc = "open", ![p].ip = j, ![p].todo = <<d>>]
             /\ UNCHANGED lock
        ELSE /\ fs' = ialloc(t, type)
             /\ sys' = [sys EXCEPT ![p].pc = "create_new", ![p].ip = FreeInum(t)]
             /\ lock' = [lock EXCEPT ![d] = p]
     /\ UNCHANGED <<ftable, pipe, proc>>

\* The rest of create(), which may have to wait for the last user of the inode.
create_new(p) ==
  LET i == sys[p].ip
      d == sys[p].dp
      s0 == ilock(fs, i)
      s1 == iupdate([s0 EXCEPT !.inode[i].nlink = 1], i)
      s2 == iupdate([s1 EXCEPT !.inode[d].nlink = @ + 1], d)
      s3 == dirlink(dirlink(s2, i, ".", i), i, "..", d)
  IN /\ At(p, "create_new") /\ Unlocked(i)
     /\ fs' = dirlink(IF s1.inode[i].type = "dir" THEN s3 ELSE s1, d, sys[p].name, i)
     /\ lock' = [lock EXCEPT ![i] = p, ![d] = NoProc]
     /\ sys' = [sys EXCEPT ![p].pc = "created", ![p].todo = <<d>>]
     /\ UNCHANGED <<ftable, pipe, proc>>

chdir(p) ==
  LET i == sys[p].ip
      t == ilock(fs, i)
  IN /\ At(p, "chdir") /\ Unlocked(i)
     /\ fs' = t
     /\ IF t.inode[i].type = "dir"
        THEN Return(p, [proc[p] EXCEPT !.cwd = i], OK(0)) /\ Done(p, <<proc[p].cwd>>)
        ELSE Fails(p, <<i>>)
     /\ UNCHANGED <<lock, ftable, pipe>>
-----------------------------------------------------------------------------
\* exec() of a file: the process goes on with the image, if it is one.
exec(p) ==
  LET i == sys[p].ip
      t == ilock(fs, i)
      elf == t.inode[i].type = "file" /\ readi(t, i, 0, 1) = <<ELF>>
  IN /\ At(p, "exec") /\ Unlocked(i)
     /\ fs' = t
     /\ IF elf THEN proc' = [proc EXCEPT ![p].prog = Call(p).image] /\ Done(p, <<i>>)
        ELSE Fails(p, <<i>>)
     /\ UNCHANGED <<lock, ftable, pipe>>
-----------------------------------------------------------------------------
\* link() counts the link first, then looks for the directory.
link(p) ==
  LET i == sys[p].ip
      t == ilock(fs, i)
  IN /\ At(p, "link") /\ Unlocked(i)
     /\ IF t.inode[i].type = "dir" THEN fs' = t /\ Fails(p, <<i>>)
        ELSE /\ Walk(iupdate([t EXCEPT !.inode[i].nlink = @ + 1], i), p, Call(p).new, "namex_new")
             /\ UNCHANGED proc
     /\ UNCHANGED <<lock, ftable, pipe>>

(* dirlink() puts the inode that it finds under the name while it has the  *)
(* directory locked.                                                       *)
link_dir(p) ==
  LET d == sys[p].dp
      t == ilock(fs, d)
      j == dirlookup(t, d, sys[p].name)
  IN /\ At(p, "link_dir") /\ Unlocked(d)
     /\ IF j = NoInode
        THEN /\ fs' = dirlink(t, d, sys[p].name, sys[p].ip)
             /\ Return(p, proc[p], OK(0)) /\ Done(p, <<d, sys[p].ip>>) /\ UNCHANGED lock
        ELSE /\ fs' = iget(t, j)
             /\ lock' = [lock EXCEPT ![d] = p]
             /\ sys' = [sys EXCEPT ![p].pc = "link_exists", ![p].todo = <<j>>]
             /\ UNCHANGED proc
     /\ UNCHANGED <<ftable, pipe>>

link_exists(p) ==
  /\ At(p, "link_exists")
  /\ lock' = [lock EXCEPT ![sys[p].dp] = NoProc]
  /\ sys' = [sys EXCEPT ![p].pc = "link_bad", ![p].todo = <<sys[p].dp>>]
  /\ UNCHANGED <<fs, ftable, pipe, proc>>

\* Faulty: the link that was counted is not taken back.
link_bad_counted(p) ==
  LET i == sys[p].ip
  IN /\ At(p, "link_bad") /\ Unlocked(i)
     /\ fs' = ilock(fs, i)
     /\ Fails(p, <<i>>)
     /\ UNCHANGED <<lock, ftable, pipe>>
link_bad(p) ==
  LET i == sys[p].ip
      t == ilock(fs, i)
  IN /\ At(p, "link_bad") /\ Unlocked(i)
     /\ fs' = iupdate([t EXCEPT !.inode[i].nlink = @ - 1], i)
     /\ Fails(p, <<i>>)
     /\ UNCHANGED <<lock, ftable, pipe>>

\* unlink() locks the directory, then what it names.
unlink(p) ==
  LET d == sys[p].dp
      t == ilock(fs, d)
      j == IF sys[p].name \in {".", ".."} THEN NoInode ELSE dirlookup(t, d, sys[p].name)
  IN /\ At(p, "unlink") /\ Unlocked(d)
     /\ IF j = NoInode THEN fs' = t /\ Fails(p, <<d>>) /\ UNCHANGED lock
        ELSE /\ fs' = iget(t, j)
             /\ lock' = [lock EXCEPT ![d] = p]
             /\ sys' = [sys EXCEPT ![p].pc = "unlink_ip", ![p].ip = j]
             /\ UNCHANGED proc
     /\ UNCHANGED <<ftable, pipe>>

unlink_ip(p) ==
  LET i == sys[p].ip
      d == sys[p].dp
      t == ilock(fs, i)
      s1 == writei(t, d, Min(Matches(t, d, sys[p].name)), <<Zero>>)
      s2 == iupdate([s1 EXCEPT !.inode[d].nlink = @ - 1], d)
  IN /\ At(p, "unlink_ip") /\ Unlocked(i)
     /\ IF t.inode[i].nlink > 0 /\ t.inode[i].type = "dir" /\ ~isdirempty(t, i)
        THEN /\ fs' = t
             /\ sys' = [sys EXCEPT ![p].pc = "unlink_bad", ![p].todo = <<i>>]
             /\ UNCHANGED lock
        ELSE /\ fs' = IF t.inode[i].nlink < 1 THEN Panic(t)
                      ELSE IF t.inode[i].type = "dir" THEN s2 ELSE s1
             /\ lock' = [lock EXCEPT ![i] = p, ![d] = NoProc]
             /\ sys' = [sys EXCEPT ![p].pc = "unlink_drop", ![p].todo = <<d>>]
     /\ UNCHANGED <<ftable, pipe, proc>>

unlink_bad(p) ==
  /\ At(p, "unlink_bad")
  /\ lock' = [lock EXCEPT ![sys[p].dp] = NoProc]
  /\ Fails(p, <<sys[p].dp>>)
  /\ UNCHANGED <<fs, ftable, pipe>>

unlink_drop(p) ==
  LET i == sys[p].ip
  IN /\ At(p, "unlink_drop")
     /\ fs' = iupdate([fs EXCEPT !.inode[i].nlink = @ - 1], i)
     /\ lock' = [lock EXCEPT ![i] = NoProc]
     /\ Return(p, proc[p], OK(0)) /\ Done(p, <<i>>)
     /\ UNCHANGED <<ftable, pipe>>
-----------------------------------------------------------------------------
\* The descriptor of a call, possibly the result of the call before it.
Fd(p) == IF Call(p).fd = RESULT THEN proc[p].result.n ELSE Call(p).fd
File(p) == IF Fd(p) \in Fds THEN proc[p].ofile[Fd(p)] ELSE NoFile
PipeOf(p) == ftable[File(p)].pipe
Used(x) == (pipe[x].nwrite - pipe[x].nread) % COUNTER

(* A process that has found nothing to read, or no room, holds the lock of *)
(* the pipe until it is asleep; sleepers wait on &nread or on &nwrite.     *)
Holding == {"piperead_sleep", "pipewrite_sleep"}
PipeFree(x) == \A q \in Procs : sys[q].pc \in Holding => PipeOf(q) # x
\* sys after wakeup(&nread), with place "piperead_asleep", or wakeup(&nwrite).
Wake(ss, x, place, woken) ==
  [q \in Procs |-> IF ss[q].pc = place /\ PipeOf(q) = x THEN [ss[q] EXCEPT !.pc = woken] ELSE ss[q]]
WakeReaders(ss, x) == Wake(ss, x, "piperead_asleep", "piperead")
WakeWriters(ss, x) == Wake(ss, x, "pipewrite_asleep", "pipewrite")

\* The places where fileread() and filewrite() go on, by the type of the file.
Place == [pipe |-> [read |-> "piperead", write |-> "pipewrite"],
          inode |-> [read |-> "fileread", write |-> "filewrite"]]

rw_call(p) ==
  \E op \in {"read", "write"} :
    /\ Calls(p, op)
    /\ LET f == ftable[File(p)]
           may == File(p) # NoFile /\ (IF op = "read" THEN f.readable ELSE f.writable)
       IN IF ~may THEN Fails(p, << >>)
          ELSE /\ sys' = [sys EXCEPT ![p].pc = Place[f.type][op],
                                     ![p].buf = IF op = "read" THEN << >> ELSE Call(p).data]
               /\ UNCHANGED proc
    /\ UNCHANGED <<fs, lock, ftable, pipe>>

\* read() returns us; a program that reads to the end of the file calls it again.
Reads(p, ss, us) ==
  IF Call(p).all /\ us # << >> /\ ~proc[p].killed
  THEN sys' = [ss EXCEPT ![p].buf = @ \o us] /\ UNCHANGED proc
  ELSE /\ Return(p, proc[p], Data(sys[p].buf \o us))
       /\ sys' = [ss EXCEPT ![p] = Idle]

\* A device is read by its driver, without the lock of the inode.
fileread(p) ==
  LET f == File(p)
      i == ftable[f].ip
      t == ilock(fs, i)
      us == readi(t, i, ftable[f].off, Call(p).n)
  IN /\ At(p, "fileread") /\ Unlocked(i)
     /\ fs' = t
     /\ IF t.inode[i].type = "dev" THEN Goto(p, "consoleread") /\ UNCHANGED <<ftable, proc>>
        ELSE /\ ftable' = [ftable EXCEPT ![f].off = @ + Len(us)]
             /\ Reads(p, sys, us)
     /\ UNCHANGED <<lock, pipe>>

\* fstat() of a file; a pipe has no status.
fstat(p) ==
  /\ Calls(p, "fstat")
  /\ LET i == IF File(p) = NoFile THEN NoInode ELSE ftable[File(p)].ip
         t == ilock(fs, i)
     IN IF i = NoInode THEN Return(p, proc[p], FAIL) /\ UNCHANGED fs
        ELSE Unlocked(i) /\ fs' = t /\ Return(p, proc[p], Data(stati(t.inode[i])))
  /\ UNCHANGED <<lock, ftable, pipe, sys>>

\* Faulty: the offset is not moved while the inode is locked.
filewrite_off(p) ==
  LET f == File(p)
      i == ftable[f].ip
      off == ftable[f].off
      n == Min({MAXWRITE, Len(sys[p].buf)})
      us == SubSeq(sys[p].buf, 1, n)
      rest == SubSeq(sys[p].buf, n + 1, Len(sys[p].buf))
      t == ilock(fs, i)
  IN /\ At(p, "filewrite") /\ Unlocked(i)
     /\ fs' = writei(t, i, off, us)
     /\ ftable' = IF rest = << >> THEN [ftable EXCEPT ![f].off = off + Len(Call(p).data)] ELSE ftable
     /\ IF rest # << >> THEN sys' = [sys EXCEPT ![p].buf = rest] /\ UNCHANGED proc
        ELSE Return(p, proc[p], OK(Len(Call(p).data))) /\ Done(p, << >>)
     /\ UNCHANGED <<lock, pipe>>
(* One round of filewrite(): what a transaction has room for, at the       *)
(* offset that the processes with this open file share.  A device takes    *)
(* the data and stores none.                                               *)
filewrite(p) ==
  LET f == File(p)
      i == ftable[f].ip
      off == ftable[f].off
      n == Min({MAXWRITE, Len(sys[p].buf)})
      us == SubSeq(sys[p].buf, 1, n)
      rest == SubSeq(sys[p].buf, n + 1, Len(sys[p].buf))
      t == ilock(fs, i)
      dev == t.inode[i].type = "dev"
      can == dev \/ CanWrite(t, i, off, n)
  IN /\ At(p, "filewrite") /\ Unlocked(i)
     /\ fs' = IF can /\ ~dev THEN writei(t, i, off, us) ELSE t
     /\ ftable' = IF can THEN [ftable EXCEPT ![f].off = off + n] ELSE ftable
     /\ IF ~can THEN Fails(p, << >>)
        ELSE IF rest # << >> THEN sys' = [sys EXCEPT ![p].buf = rest] /\ UNCHANGED proc
        ELSE Return(p, proc[p], OK(Len(Call(p).data))) /\ Done(p, << >>)
     /\ UNCHANGED <<lock, pipe>>
-----------------------------------------------------------------------------
Keys == {"a", "\n", "\r", "^D", "^H", "^U"}
NEWLINE == <<"\n", 0>>
EOF == <<"^D", 0>>
Typed(from, to) ==
  [j \in 1..((to - from) % INDEX) |-> console.buf[(from + j - 1) % INPUT_BUF]]

WakeConsole == [q \in Procs |-> IF sys[q].pc = "consoleread_asleep"
                                THEN [sys[q] EXCEPT !.pc = "consoleread"] ELSE sys[q]]

\* Faulty: backspace goes on into lines that have been entered.
consoleintr_back(key) ==
  LET c == IF key = "\r" THEN NEWLINE ELSE <<key, 0>>
      e == (console.e + 1) % INDEX
      enters == c \in {NEWLINE, EOF} \/ e = (console.r + INPUT_BUF) % INDEX
  IN /\ ~fs.panic /\ console.typist
     /\ \A q \in Procs : sys[q].pc # "consoleread_sleep"
     /\ \/ /\ key \in {"^H", "^U"} /\ console.e # console.r
           /\ console' = [console EXCEPT !.e = IF key = "^U" THEN console.w ELSE (@ - 1) % INDEX]
           /\ UNCHANGED sys
        \/ /\ key \notin {"^H", "^U"} /\ (console.e - console.r) % INDEX < INPUT_BUF
           /\ console' = [console EXCEPT !.buf[console.e % INPUT_BUF] = c, !.e = e,
                                         !.w = IF enters THEN e ELSE @]
           /\ sys' = IF enters THEN WakeConsole ELSE sys
     /\ UNCHANGED <<fs, lock, ftable, pipe, proc>>
(* consoleintr(): a key edits the line from w to e, or enters it, for      *)
(* which a full buffer is as good as a newline.                            *)
consoleintr(key) ==
  LET c == IF key = "\r" THEN NEWLINE ELSE <<key, 0>>
      e == (console.e + 1) % INDEX
      enters == c \in {NEWLINE, EOF} \/ e = (console.r + INPUT_BUF) % INDEX
  IN /\ ~fs.panic /\ console.typist
     /\ \A q \in Procs : sys[q].pc # "consoleread_sleep"
     /\ \/ /\ key \in {"^H", "^U"} /\ console.e # console.w
           /\ console' = [console EXCEPT !.e = IF key = "^U" THEN console.w ELSE (@ - 1) % INDEX]
           /\ UNCHANGED sys
        \/ /\ key \notin {"^H", "^U"} /\ (console.e - console.r) % INDEX < INPUT_BUF
           /\ console' = [console EXCEPT !.buf[console.e % INPUT_BUF] = c, !.e = e,
                                         !.w = IF enters THEN e ELSE @]
           /\ sys' = IF enters THEN WakeConsole ELSE sys
     /\ UNCHANGED <<fs, lock, ftable, pipe, proc>>

(* consoleread() until it sleeps or is done: at most n characters, of one  *)
(* line; an end of file after other characters is left for the next call.  *)
consoleread(p) ==
  LET q == Typed(console.r, console.w)
      room == Call(p).n - Len(sys[p].buf)
      ends == {j \in 1..Min({room, Len(q)}) : q[j] \in {NEWLINE, EOF}}
      m == IF ends = {} THEN Min({room, Len(q)})
           ELSE IF q[Min(ends)] = EOF THEN Min(ends) - 1 ELSE Min(ends)
      eof == ends # {} /\ q[Min(ends)] = EOF
      used == IF eof /\ m + Len(sys[p].buf) = 0 THEN 1 ELSE m
      place == CASE ends # {} \/ m = room -> "console_done"
                 [] proc[p].killed -> "console_killed"
                 [] OTHER -> "consoleread_sleep"
  IN /\ At(p, "consoleread") /\ \A x \in Procs : sys[x].pc # "consoleread_sleep"
     /\ console' = [console EXCEPT !.r = (@ + used) % INDEX]
     /\ sys' = [sys EXCEPT ![p].buf = @ \o SubSeq(q, 1, m), ![p].pc = place]
     /\ UNCHANGED <<fs, lock, ftable, pipe, proc>>

\* The end of consoleread(), with the inode locked again, and of fileread().
console_done(p) ==
  LET f == File(p)
      i == ftable[f].ip
  IN /\ \/ /\ At(p, "console_done") /\ Unlocked(i)
           /\ ftable' = [ftable EXCEPT ![f].off = @ + Len(sys[p].buf)]
           /\ Reads(p, sys, << >>)
        \/ At(p, "console_killed") /\ Unlocked(i) /\ Fails(p, << >>) /\ UNCHANGED ftable
     /\ UNCHANGED <<fs, lock, pipe, console>>
-----------------------------------------------------------------------------
\* Faulty: a writer that finds the pipe full does not wake the readers.
pipewrite_silent(p) ==
  LET x == PipeOf(p)
      n == Min({PIPESIZE - Used(x), Len(sys[p].buf)})
      rest == SubSeq(sys[p].buf, n + 1, Len(sys[p].buf))
      Put(c, j) == [c EXCEPT !.data[c.nwrite % PIPESIZE] = sys[p].buf[j],
                             !.nwrite = (@ + 1) % COUNTER]
  IN /\ At(p, "pipewrite") /\ PipeFree(x)
     /\ pipe' = [pipe EXCEPT ![x] = FoldLeftDomain(Put, @, SubSeq(sys[p].buf, 1, n))]
     /\ IF rest = << >>
        THEN /\ Return(p, proc[p], OK(Len(Call(p).data)))
             /\ sys' = [WakeReaders(sys, x) EXCEPT ![p] = Idle]
        ELSE IF ~pipe[x].readopen \/ proc[p].killed THEN Fails(p, << >>)
        ELSE /\ sys' = [sys EXCEPT ![p].pc = "pipewrite_sleep", ![p].buf = rest]
             /\ UNCHANGED proc
     /\ UNCHANGED <<fs, lock, ftable>>
(* pipewrite() from where it has the lock until it sleeps or returns: the  *)
(* bytes that fit, and when some are left a look at whether to give up.    *)
pipewrite(p) ==
  LET x == PipeOf(p)
      n == Min({PIPESIZE - Used(x), Len(sys[p].buf)})
      rest == SubSeq(sys[p].buf, n + 1, Len(sys[p].buf))
      Put(c, j) == [c EXCEPT !.data[c.nwrite % PIPESIZE] = sys[p].buf[j],
                             !.nwrite = (@ + 1) % COUNTER]
  IN /\ At(p, "pipewrite") /\ PipeFree(x)
     /\ pipe' = [pipe EXCEPT ![x] = FoldLeftDomain(Put, @, SubSeq(sys[p].buf, 1, n))]
     /\ IF rest = << >>
        THEN /\ Return(p, proc[p], OK(Len(Call(p).data)))
             /\ sys' = [WakeReaders(sys, x) EXCEPT ![p] = Idle]
        ELSE IF ~pipe[x].readopen \/ proc[p].killed THEN Fails(p, << >>)
        ELSE /\ sys' = [WakeReaders(sys, x) EXCEPT ![p].pc = "pipewrite_sleep", ![p].buf = rest]
             /\ UNCHANGED proc
     /\ UNCHANGED <<fs, lock, ftable>>

piperead(p) ==
  LET x == PipeOf(p)
      n == Min({Used(x), Call(p).n})
      us == [j \in 1..n |-> pipe[x].data[(pipe[x].nread + j - 1) % PIPESIZE]]
  IN /\ At(p, "piperead") /\ PipeFree(x)
     /\ IF Used(x) = 0 /\ pipe[x].writeopen
        THEN /\ IF proc[p].killed THEN Fails(p, << >>)
                ELSE Goto(p, "piperead_sleep") /\ UNCHANGED proc
             /\ UNCHANGED pipe
        ELSE /\ pipe' = [pipe EXCEPT ![x].nread = (@ + n) % COUNTER]
             /\ Reads(p, WakeWriters(sys, x), us)
     /\ UNCHANGED <<fs, lock, ftable>>

\* sleep() of proc.c: asleep before the lock of the pipe, or of the console, is free.
sleep(p) ==
  /\ \/ At(p, "piperead_sleep") /\ Goto(p, "piperead_asleep")
     \/ At(p, "pipewrite_sleep") /\ Goto(p, "pipewrite_asleep")
     \/ At(p, "consoleread_sleep") /\ Goto(p, "consoleread_asleep")
  /\ UNCHANGED <<fs, lock, ftable, pipe, proc>>
-----------------------------------------------------------------------------
dup(p) ==
  /\ Calls(p, "dup")
  /\ LET f == File(p)
         fd == Min(FreeFds(p))
     IN IF f = NoFile \/ FreeFds(p) = {} THEN Return(p, proc[p], FAIL) /\ UNCHANGED ftable
        ELSE /\ ftable' = [ftable EXCEPT ![f].ref = @ + 1]
             /\ Return(p, [proc[p] EXCEPT !.ofile[fd] = f], OK(fd))
  /\ UNCHANGED <<fs, lock, pipe, sys>>

\* fileclose() with the lock of the table; then a pipe or an inode has still to be closed.
fileclose(p, f) ==
  LET last == ftable[f].ref = 1
  IN /\ fs' = IF ftable[f].ref < 1 THEN Panic(fs) ELSE fs
     /\ ftable' = [ftable EXCEPT ![f] = IF last THEN ClosedFile ELSE [@ EXCEPT !.ref = @ - 1]]
     /\ IF last /\ ftable[f].type = "pipe"
        THEN sys' = [sys EXCEPT ![p].pc = "pipeclose", ![p].ff = ftable[f]]
        ELSE sys' = [sys EXCEPT ![p].todo = IF last THEN <<ftable[f].ip>> ELSE << >>]
     /\ UNCHANGED pipe

\* pipeclose() of one end; a pipe without ends is free, its page given back.
pipeclose(p) ==
  LET x == sys[p].ff.pipe
      writable == sys[p].ff.writable
  IN /\ At(p, "pipeclose") /\ PipeFree(x)
     /\ pipe' = [pipe EXCEPT ![x] = IF writable THEN [@ EXCEPT !.writeopen = FALSE]
                                    ELSE [@ EXCEPT !.readopen = FALSE]]
     /\ sys' = [IF writable THEN WakeReaders(sys, x) ELSE WakeWriters(sys, x) EXCEPT ![p] = Idle]
     /\ UNCHANGED <<fs, lock, ftable, proc>>

close(p) ==
  /\ Calls(p, "close")
  /\ IF File(p) = NoFile THEN Fails(p, << >>) /\ UNCHANGED <<fs, ftable, pipe>>
     ELSE /\ fileclose(p, File(p))
          /\ Return(p, [proc[p] EXCEPT !.ofile[Fd(p)] = NoFile], OK(0))
  /\ UNCHANGED lock

\* pipealloc(): files r and w become the two ends of pipe x.
pipealloc(x, r, w) ==
  LET end == [ClosedFile EXCEPT !.ref = 1, !.type = "pipe", !.pipe = x]
  IN /\ ftable' = [ftable EXCEPT ![r] = [end EXCEPT !.readable = TRUE],
                                 ![w] = [end EXCEPT !.writable = TRUE]]
     /\ pipe' = [pipe EXCEPT ![x] = [ClosedPipe EXCEPT !.readopen = TRUE, !.writeopen = TRUE]]

\* pipe(): two files, a page, two descriptors, or nothing at all.
pipe_call(p) ==
  /\ Calls(p, "pipe")
  /\ LET free == {x \in Pipes : ~pipe[x].readopen /\ ~pipe[x].writeopen}
         r == Min(FreeFiles)
         w == Min(FreeFiles \ {r})
         fd0 == Min(FreeFds(p))
         fd1 == Min(FreeFds(p) \ {fd0})
     IN IF Cardinality(FreeFiles) < 2 \/ free = {} \/ Cardinality(FreeFds(p)) < 2
        THEN Return(p, proc[p], FAIL) /\ UNCHANGED <<ftable, pipe>>
        ELSE /\ pipealloc(Min(free), r, w)
             /\ Return(p, [proc[p] EXCEPT !.ofile[fd0] = r, !.ofile[fd1] = w], OK(0))
  /\ UNCHANGED <<fs, lock, sys>>
-----------------------------------------------------------------------------
\* Faulty: the child's current directory is not counted.
fork_cwd(p) ==
  /\ Calls(p, "fork")
  /\ LET np == Min({q \in Procs : proc[q].state = "unused"})
         child == [Unused EXCEPT !.state = "run", !.parent = p, !.prog = Call(p).child,
                                 !.ofile = proc[p].ofile, !.cwd = proc[p].cwd]
         Copies(f) == Cardinality({fd \in Fds : proc[p].ofile[fd] = f})
     IN /\ ftable' = [f \in Files |-> [ftable[f] EXCEPT !.ref = @ + Copies(f)]]
        /\ proc' = [proc EXCEPT ![np] = child, ![p] = Returns(p, @, OK(np))]
  /\ UNCHANGED <<fs, lock, pipe, sys>>
(* fork() shares the open files and the directory; the process numbers of  *)
(* the model are slots.                                                    *)
fork(p) ==
  /\ Calls(p, "fork")
  /\ LET free == {q \in Procs : proc[q].state = "unused"}
         np == Min(free)
         child == [Unused EXCEPT !.state = "run", !.parent = p, !.prog = Call(p).child,
                                 !.ofile = proc[p].ofile, !.cwd = proc[p].cwd]
         Copies(f) == Cardinality({fd \in Fds : proc[p].ofile[fd] = f})
     IN IF free = {} THEN Return(p, proc[p], FAIL) /\ UNCHANGED <<fs, ftable>>
        ELSE /\ ftable' = [f \in Files |-> [ftable[f] EXCEPT !.ref = @ + Copies(f)]]
             /\ fs' = idup(fs, proc[p].cwd)
             /\ proc' = [proc EXCEPT ![np] = child, ![p] = Returns(p, @, OK(np))]
  /\ UNCHANGED <<lock, pipe, sys>>

(* exit(), called by a program at its end and by trap() for a killed       *)
(* process: the files are closed one after the other, then the directory.  *)
Exits(p) == At(p, "user") /\ (proc[p].killed \/ proc[p].prog = << >>)

exit_close(p) ==
  /\ Exits(p)
  /\ FreeFds(p) # Fds
  /\ LET fd == Min(Fds \ FreeFds(p))
     IN fileclose(p, proc[p].ofile[fd]) /\ proc' = [proc EXCEPT ![p].ofile[fd] = NoFile]
  /\ UNCHANGED lock

exit_cwd(p) ==
  /\ Exits(p) /\ FreeFds(p) = Fds /\ proc[p].cwd # NoInode
  /\ proc' = [proc EXCEPT ![p].cwd = NoInode]
  /\ Done(p, <<proc[p].cwd>>)
  /\ UNCHANGED <<fs, lock, ftable, pipe>>

\* The children go to init, whose number is NoProc here.
exit(p) ==
  /\ Exits(p) /\ FreeFds(p) = Fds /\ proc[p].cwd = NoInode
  /\ proc' = [q \in Procs |->
                IF q = p THEN [proc[q] EXCEPT !.state = "zombie", !.prog = << >>]
                ELSE IF proc[q].parent = p THEN [proc[q] EXCEPT !.parent = NoProc] ELSE proc[q]]
  /\ UNCHANGED <<fs, lock, ftable, pipe, sys>>

\* wait() of a process with children sleeps until one is a zombie.
wait(p) ==
  /\ Calls(p, "wait")
  /\ LET children == {q \in Procs : proc[q].parent = p /\ proc[q].state # "unused"}
         zombies == {q \in children : proc[q].state = "zombie"}
         q == Min(zombies)
     IN IF children = {} THEN Return(p, proc[p], FAIL)
        ELSE /\ zombies # {}
             /\ proc' = [proc EXCEPT ![q] = Unused, ![p] = Returns(p, @, OK(q))]
  /\ UNCHANGED <<fs, lock, ftable, pipe, sys>>

\* The loop of wait() in init.c and in initproc.
init_wait(p) ==
  /\ proc[p].state = "zombie" /\ proc[p].parent = NoProc
  /\ proc' = [proc EXCEPT ![p] = Unused]
  /\ UNCHANGED <<fs, lock, ftable, pipe, sys>>

\* kill() makes a sleeping process runnable, whatever it waits for.
kill(p) ==
  /\ Calls(p, "kill")
  /\ LET q == Call(p).pid
         woken == [sys EXCEPT ![q].pc = CASE @ = "piperead_asleep" -> "piperead"
                                          [] @ = "pipewrite_asleep" -> "pipewrite"
                                          [] @ = "consoleread_asleep" -> "consoleread"
                                          [] OTHER -> @]
     IN IF proc[q].state = "unused" THEN Return(p, proc[p], FAIL) /\ UNCHANGED sys
        ELSE /\ proc' = [proc EXCEPT ![q].killed = TRUE, ![p] = Returns(p, @, OK(0))]
             /\ sys' = woken
  /\ UNCHANGED <<fs, lock, ftable, pipe>>
-----------------------------------------------------------------------------
\* Who holds the lock that p waits for.
Holder(p) ==
  LET c == sys[p]
      i == CASE c.todo # << >> -> IF c.put = "lock" THEN Head(c.todo) ELSE NoInode
             [] c.pc \in {"namex", "namex_new", "create", "link_dir", "unlink"} -> c.dp
             [] c.pc \in {"open", "create_new", "chdir", "exec", "link", "link_bad", "unlink_ip"} -> c.ip
             [] c.pc \in {"fileread", "filewrite", "console_done", "console_killed"} -> ftable[File(p)].ip
             [] OTHER -> NoInode
  IN IF i = NoInode THEN NoProc ELSE lock[i]

\* Processes that hold the locks of inodes and wait for each other's.
Circles == {S \in SUBSET Procs : S # {} /\ \A p \in S : Holder(p) \in S}

(* At their ends create() and unlink() give the directory to iput(), which *)
(* locks it again, while they hold the entry.                              *)
Inverts(p) == sys[p].pc \in {"created", "unlink_drop"} /\ sys[p].todo # << >>

\* The programs are at their end, or some wait for each other in such an iput().
Finished == \A p \in Procs : proc[p].state = "unused"
Stuck == \E S \in Circles : \E p \in S : Inverts(p)
Finish == (Finished \/ Stuck \/ fs.panic) /\ UNCHANGED vars

FileStep(p) ==
  \/ path_call(p) \/ namex_end(p) \/ namex_next(p) \/ iput(p)
  \/ created(p) \/ open(p) \/ create(p) \/ create_new(p) \/ chdir(p) \/ exec(p)
  \/ link(p) \/ link_dir(p) \/ link_exists(p) \/ link_bad(p)
  \/ unlink(p) \/ unlink_ip(p) \/ unlink_bad(p) \/ unlink_drop(p)
  \/ rw_call(p) \/ fstat(p) \/ fileread(p) \/ filewrite(p) \/ pipewrite(p) \/ piperead(p) \/ sleep(p)
  \/ dup(p) \/ close(p) \/ pipeclose(p) \/ pipe_call(p)
  \/ fork(p) \/ exit_close(p) \/ exit_cwd(p) \/ exit(p) \/ wait(p) \/ init_wait(p) \/ kill(p)

Next ==
  \/ \E p \in Procs : (FileStep(p) /\ UNCHANGED console) \/ consoleread(p) \/ console_done(p)
  \/ \E key \in Keys : consoleintr(key)
  \/ Finish

Spec == Init /\ [][Next]_vars
-----------------------------------------------------------------------------
\* Every component of the state has the shape that the code gives it.
TypeOK ==
  /\ fs.used \subseteq Blocks /\ fs.panic \in BOOLEAN
  /\ fs.ref \in [Inums -> Nat] /\ fs.valid \in [Inums -> BOOLEAN]
  /\ lock \in [Inums -> Procs \cup {NoProc}]
  /\ \A f \in Files : ftable[f].ref \in Nat /\ ftable[f].off \in 0..(MAXFILE * BSIZE)
  /\ \A x \in Pipes : pipe[x].nread \in 0..(COUNTER - 1) /\ pipe[x].nwrite \in 0..(COUNTER - 1)
  /\ {console.r, console.w, console.e} \subseteq 0..(INDEX - 1)
  /\ \A p \in Procs : /\ proc[p].state \in {"unused", "run", "zombie"}
                      /\ proc[p].cwd \in Inums \cup {NoInode}

(* The programs see what they expect of every system call, in whatever     *)
(* order the processes run, and reach no panic() of fs.c or file.c.        *)
TestsPass == ~fs.panic /\ \A p \in Procs : proc[p].passed

\* The places of a system call that has a reference to dp, and to ip.
HasDp == {"namex", "namex_new", "create", "create_new", "link_dir", "link_exists",
          "unlink", "unlink_ip", "unlink_bad"}
HasIp == {"namex_new", "open", "created", "create_new", "chdir", "exec", "link", "link_dir",
          "link_exists", "link_bad", "unlink_ip", "unlink_drop"}

(* The reference counts of inodes are exact: current directories, open     *)
(* files and the pointers of the system calls in progress, which pass from *)
(* one to the other in namex(), iget(), idup() and iput().                 *)
InodeRefs ==
  \A i \in Inums :
    fs.ref[i] = Cardinality({p \in Procs : proc[p].cwd = i})
                + Cardinality({f \in Files : ftable[f].ip = i})
                + Cardinality({p \in Procs : sys[p].pc \in HasDp /\ sys[p].dp = i})
                + Cardinality({p \in Procs : sys[p].pc \in HasIp /\ sys[p].ip = i})
                + Cardinality({r \in Procs \X (1..2) :
                                 r[2] \in DOMAIN sys[r[1]].todo /\ sys[r[1]].todo[r[2]] = i})

\* An open file counts the descriptors that name it, in all processes.
FileRefs ==
  \A f \in Files :
    ftable[f].ref = Cardinality({r \in Procs \X Fds : proc[r[1]].ofile[r[2]] = f})

(* Inodes and open files are counted exactly, whatever calls are under way *)
(* and wherever one of them fails, so that neither is freed or kept while  *)
(* somebody, or nobody, uses it.                                           *)
RefsExact == TypeOK /\ InodeRefs /\ FileRefs

(* What is on the disk.  The file system is consistent between any two     *)
(* steps, so recovery never finds less.                                    *)
Disk == [fs EXCEPT !.inode = fs.dinode]
Allocated == {i \in Inums : fs.dinode[i].type # "none"}
Dirs == {i \in Allocated : fs.dinode[i].type = "dir"}

\* The directory p is removing, whose entry is gone and whose link is still counted.
Dropping(i) == {p \in Procs : sys[p].pc = "unlink_drop" /\ sys[p].ip = i}
Removed(d) == fs.dinode[d].nlink = 0 \/ Dropping(d) # {}
\* A link that link() has counted and not yet entered, or not yet taken back.
Linking(i) == {p \in Procs : sys[p].pc \in {"namex_new", "link_dir", "link_exists", "link_bad"}
                             /\ sys[p].ip = i}
(* nlink is the number of directory entries, with the ones that link() and *)
(* unlink() have under way: "." does not count, nor ".." of a directory    *)
(* that has been removed.  No directory has two entries of one name.       *)
LinkInv ==
  LET disk == Disk
      entries == UNION {{<<d, off, Unit(disk, d, off)>> : off \in Entries(disk, d)} : d \in Dirs}
      links == {e \in entries : e[3][1] # "." /\ (e[3][1] = ".." => ~Removed(e[1]))}
  IN /\ \A i \in Allocated :
          fs.dinode[i].nlink = Cardinality({e \in links : e[3][2] = i}) + Cardinality(Linking(i))
                               + Cardinality(Dropping(i))
     /\ Cardinality({<<e[1], e[3][1]>> : e \in entries}) = Cardinality(entries)

(* What iput() says of itself: with the last reference to an inode without *)
(* links, the inode and its content go.                                    *)
UnlinkedIsFreed == \A i \in Allocated : fs.dinode[i].nlink = 0 => fs.ref[i] > 0

BlocksOf(i) == Direct(fs.dinode[i]) \cup Indirect(fs, fs.dinode[i])

(* The bitmap marks exactly the blocks of the allocated inodes, and no     *)
(* block is part of two files: balloc(), bmap() and itrunc() lose none.    *)
BlockInv ==
  /\ fs.used = UNION {BlocksOf(i) : i \in Inums}
  /\ \A i, j \in Inums : i # j => BlocksOf(i) \cap BlocksOf(j) = {}

(* The file system on the disk is consistent: links are the entries of the *)
(* directories, and the bitmap is the blocks of the inodes.                *)
DiskInv == LinkInv /\ BlockInv

(* A valid entry of the inode cache that nobody has locked is what is on   *)
(* the disk, although an inode is freed in several steps of iput() and its *)
(* number is given to a new file before the last of them.                  *)
CacheInv == \A i \in Inums : fs.valid[i] /\ Unlocked(i) => fs.inode[i] = fs.dinode[i]

(* Nobody sleeps in a pipe past what it waits for.  A writer sleeps while  *)
(* the pipe is full and has a reader.  A reader sleeps while the pipe is   *)
(* empty and has a writer; only a writer that has been killed leaves a     *)
(* full pipe without waking the reader, and the next writer does that      *)
(* before it sleeps itself.                                                *)
PipeSleep ==
  \A p \in Procs :
    /\ sys[p].pc = "pipewrite_asleep" => Used(PipeOf(p)) = PIPESIZE /\ pipe[PipeOf(p)].readopen
    /\ sys[p].pc = "piperead_asleep" =>
         /\ pipe[PipeOf(p)].writeopen
         /\ Used(PipeOf(p)) = 0 \/ (Used(PipeOf(p)) = PIPESIZE /\ \E q \in Procs : proc[q].killed)
         /\ \A q \in Procs : sys[q].pc = "pipewrite_asleep" => PipeOf(q) # PipeOf(p)

(* Nobody sleeps in consoleread() while a line has been entered, although  *)
(* two readers may race for it and each takes only what it has room for.   *)
ReaderWoken == \A p \in Procs : sys[p].pc = "consoleread_asleep" => console.r = console.w

(* No wakeup() of pipe.c or console.c is lost: nobody sleeps at a pipe or  *)
(* at the console past what it waits for.                                  *)
NoLostWakeup == PipeSleep /\ ReaderWoken

(* The ring buffer with its three indices implements Terminal: editing     *)
(* never reaches back into what has been entered, nothing is overwritten   *)
(* before it is read, and no reader gets more than a line.                 *)
Tty == INSTANCE Terminal WITH
  Chars <- {<<c, 0>> : c \in Keys}, Size <- INPUT_BUF,
  line <- Typed(console.w, console.e), entered <- Typed(console.r, console.w)
TerminalSpec == Tty!Spec

=============================================================================
