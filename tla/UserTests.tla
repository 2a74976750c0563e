------------------------------ MODULE UserTests -----------------------------
(***************************************************************************)
(* The programs of usertests.c, stressfs.c, init.c and sh.c as sequences   *)
(* of system calls, with the results that they check.  What they print,    *)
(* and the console open at descriptors 0 to 2 of the tests, is left out;   *)
(* sizes and loop counts are scaled to the constants of Files.             *)
(***************************************************************************)
EXTENDS Files, Shell

\* The results that a program accepts: all, unseen, success, or failure.
Unseen == {}
Good == {OK(n) : n \in 0..NOFILE}
Bad == {FAIL}

Open(path, mode, ret) ==
  [op |-> "open", path |-> path, mode |-> mode, create |-> FALSE, ret |-> ret]
Create(path, ret) ==
  [op |-> "open", path |-> path, mode |-> "RDWR", create |-> TRUE, ret |-> ret]
Mkdir(path, ret) == [op |-> "mkdir", path |-> path, ret |-> ret]
Mknod(path) == [op |-> "mknod", path |-> path, ret |-> Unseen]
Chdir(path, ret) == [op |-> "chdir", path |-> path, ret |-> ret]
Unlink(path, ret) == [op |-> "unlink", path |-> path, ret |-> ret]
Link(old, new, ret) == [op |-> "link", path |-> old, new |-> new, ret |-> ret]
Exec(path, image) == [op |-> "exec", path |-> path, image |-> image, ret |-> Good]
Write(fd, us) == [op |-> "write", fd |-> fd, data |-> us, ret |-> {OK(Len(us))}]
Fetch(fd, n, ret) == [op |-> "read", fd |-> fd, n |-> n, all |-> FALSE, ret |-> ret]
FetchAll(fd, n, ret) == [op |-> "read", fd |-> fd, n |-> n, all |-> TRUE, ret |-> ret]
Close(fd) == [op |-> "close", fd |-> fd, ret |-> Unseen]
Fstat(fd, ret) == [op |-> "fstat", fd |-> fd, ret |-> ret]
Dup(fd) == [op |-> "dup", fd |-> fd, ret |-> Unseen]
Pipe == [op |-> "pipe", ret |-> {OK(0)}]
Fork(child) == [op |-> "fork", child |-> child, ret |-> Good]
Wait(ret) == [op |-> "wait", ret |-> ret]
Kill(pid) == [op |-> "kill", pid |-> pid, ret |-> Unseen]
Spin == [op |-> "spin", ret |-> Unseen]

Bytes(c, n) == [j \in 1..n |-> <<c, 0>>]
Loop(Body(_), n) == FlattenSeq([j \in 1..n |-> Body(j - 1)])
-----------------------------------------------------------------------------
iputtest ==
  <<Mkdir(<<"iputdir">>, Good), Chdir(<<"iputdir">>, Good), Unlink(<<"..", "iputdir">>, Good),
    Chdir(<<"/">>, Good)>>

exitiputtest ==
  <<Fork(<<Mkdir(<<"iputdir">>, Good), Chdir(<<"iputdir">>, Good),
           Unlink(<<"..", "iputdir">>, Good)>>),
    Wait(Unseen)>>

openiputtest ==
  <<Mkdir(<<"oidir">>, Good), Fork(<<Open(<<"oidir">>, "RDWR", Bad)>>),
    Unlink(<<"oidir">>, Good), Wait(Unseen)>>

opentest ==
  <<Open(<<"echo">>, "RDONLY", Good), Close(0), Open(<<"doesnotexist">>, "RDONLY", Bad)>>

writetest ==
  LET us == Bytes("a", 1) \o Bytes("b", 2)
  IN <<Create(<<"small">>, Good), Write(0, us), Write(0, us), Close(0),
       Open(<<"small">>, "RDONLY", Good), Fetch(0, 6, {Data(us \o us)}), Close(0),
       Unlink(<<"small">>, Good)>>

\* A file of MAXFILE blocks, each with its number.
writetest1 ==
  LET Block(i) == [j \in 1..BSIZE |-> <<"", i>>]
      WriteBlock(i) == <<Write(0, Block(i))>>
  IN <<Create(<<"big">>, Good)>> \o Loop(WriteBlock, MAXFILE)
     \o <<Close(0), Open(<<"big">>, "RDONLY", Good),
          FetchAll(0, BSIZE, {Data(Loop(Block, MAXFILE))}), Close(0), Unlink(<<"big">>, Good)>>

createtest ==
  <<Create(<<"a0">>, Unseen), Close(0), Create(<<"a1">>, Unseen), Close(0),
    Unlink(<<"a0">>, Unseen), Unlink(<<"a1">>, Unseen)>>

dirtest ==
  <<Mkdir(<<"dir0">>, Good), Chdir(<<"dir0">>, Good), Chdir(<<"..">>, Good),
    Unlink(<<"dir0">>, Good)>>

exectest == <<Exec(<<"echo">>, << >>)>>

\* Two writes larger than the pipe, with a sequence number in every byte.
pipe1 ==
  LET us == [j \in 1..(PIPESIZE + 1) |-> <<"", j>>]
      vs == [j \in 1..(PIPESIZE + 1) |-> <<"", PIPESIZE + 1 + j>>]
  IN <<Pipe, Fork(<<Close(0), Write(1, us), Write(1, vs)>>), Close(1),
       FetchAll(0, 2, {Data(us \o vs)}), Close(0), Wait(Unseen)>>

preempt ==
  <<Fork(<<Spin>>), Fork(<<Spin>>), Pipe,
    Fork(<<Close(0), Write(1, Bytes("x", 1)), Close(1), Spin>>), Close(1),
    Fetch(0, 2, {Data(Bytes("x", 1))}), Close(0), Kill(2), Kill(3), Kill(4),
    Wait(Unseen), Wait(Unseen), Wait(Unseen)>>

\* The child has slot 2, which is its process number here.
exitwait == <<Fork(<< >>), Wait({OK(2)}), Fork(<< >>), Wait({OK(2)})>>

forktest ==
  LET Child(i) == <<Fork(<< >>)>>
      Reap(i) == <<Wait(Good)>>
  IN Loop(Child, NPROC - 1) \o <<[Fork(<< >>) EXCEPT !.ret = Bad]>>
     \o Loop(Reap, NPROC - 1) \o <<Wait(Bad)>>

\* Every byte that parent and child write to their common file is in it.
sharedfd ==
  LET Writes(c) == <<Write(0, Bytes(c, 2)), Write(0, Bytes(c, 2))>>
      Mixed == {us \in [1..8 -> {<<"c", 0>>, <<"p", 0>>}] :
                  Cardinality({j \in 1..8 : us[j] = <<"c", 0>>}) = 4}
  IN <<Unlink(<<"sharedfd">>, Unseen), Create(<<"sharedfd">>, Good), Fork(Writes("c"))>> \o Writes("p")
     \o <<Wait(Unseen), Close(0), Open(<<"sharedfd">>, "RDONLY", Good),
          FetchAll(0, 3, {Data(us) : us \in Mixed}), Close(0), Unlink(<<"sharedfd">>, Unseen)>>

fourfiles ==
  LET name == <<"f0", "f1">>
      Child(i) == <<Unlink(<<name[i + 1]>>, Unseen),
                    Fork(<<Create(<<name[i + 1]>>, Good), Write(0, Bytes(name[i + 1], 3)),
                           Write(0, Bytes(name[i + 1], 3))>>)>>
      Look(i) == <<Open(<<name[i + 1]>>, "RDONLY", Unseen),
                   FetchAll(0, 8, {Data(Bytes(name[i + 1], 6))}), Close(0),
                   Unlink(<<name[i + 1]>>, Unseen)>>
  IN Loop(Child, 2) \o <<Wait(Unseen), Wait(Unseen)>> \o Loop(Look, 2)

(* One of the four children, with N = 4: it makes four files and removes   *)
(* the second.  Processes that make and remove files in the same directory *)
(* at the same time are those of fourfiles, concreate and linkunlink.      *)
createdelete ==
  LET name == <<"p0", "p1", "p2", "p3">>
      Make(f) == <<Create(<<f>>, Good), Close(0)>>
      Look(i) == <<Open(<<name[i + 1]>>, "RDONLY", IF i = 1 THEN Bad ELSE Good), Close(RESULT)>>
      Clean(i) == <<Unlink(<<name[i + 1]>>, Unseen)>>
  IN <<Fork(Make(name[1]) \o Make(name[2]) \o Make(name[3]) \o <<Unlink(<<name[2]>>, Good)>>
            \o Make(name[4])), Wait(Unseen)>>
     \o Loop(Look, 4) \o Loop(Clean, 4)

unlinkread ==
  LET hello == Bytes("h", 5)
  IN <<Create(<<"unlinkread">>, Good), Write(0, hello), Close(0),
       Open(<<"unlinkread">>, "RDWR", Good), Unlink(<<"unlinkread">>, Good),
       Create(<<"unlinkread">>, Unseen), Write(1, Bytes("y", 3)), Close(1),
       Fetch(0, 10, {Data(hello)}), Write(0, hello), Close(0), Unlink(<<"unlinkread">>, Unseen)>>

linktest ==
  LET hello == Bytes("h", 5)
  IN <<Unlink(<<"lf1">>, Unseen), Unlink(<<"lf2">>, Unseen), Create(<<"lf1">>, Good), Write(0, hello), Close(0),
       Link(<<"lf1">>, <<"lf2">>, Good), Unlink(<<"lf1">>, Unseen), Open(<<"lf1">>, "RDONLY", Bad),
       Open(<<"lf2">>, "RDONLY", Good), Fetch(0, 10, {Data(hello)}), Close(0),
       Link(<<"lf2">>, <<"lf2">>, Bad), Unlink(<<"lf2">>, Unseen), Link(<<"lf2">>, <<"lf1">>, Bad),
       Link(<<".">>, <<"lf1">>, Bad)>>

(* Rounds 0, 1, 4 and 6 of the forty: create and create, link and link,    *)
(* link and create, create and link.  That the directory has each name     *)
(* once is part of LinkInv.                                                *)
concreate ==
  LET Link0(f) == <<Link(<<"C0">>, <<f>>, Unseen)>>
      Make(f) == <<Create(<<f>>, Good), Close(0)>>
      Round(f, mine, childs) == <<Unlink(<<f>>, Unseen), Fork(childs)>> \o mine \o <<Wait(Unseen)>>
      There(f) == <<Open(<<f>>, "RDONLY", Good), Close(0)>>
      Opens(f) == <<Open(<<f>>, "RDONLY", Unseen), Close(RESULT), Open(<<f>>, "RDONLY", Unseen), Close(RESULT)>>
      Unlinks(f) == <<Unlink(<<f>>, Unseen), Unlink(<<f>>, Unseen)>>
  IN Round("C0", Make("C0"), Make("C0")) \o Round("C1", Link0("C1"), Link0("C1"))
     \o Round("C4", Link0("C4"), Make("C4")) \o Round("C6", Make("C6"), Link0("C6"))
     \o There("C0") \o There("C1") \o There("C4") \o There("C6")
     \o <<Fork(Opens("C0"))>> \o Unlinks("C0") \o <<Wait(Unseen), Fork(Unlinks("C1"))>> \o Opens("C1")
     \o <<Wait(Unseen), Fork(Opens("C6"))>> \o Unlinks("C6") \o <<Wait(Unseen)>>

\* The calls that the random numbers of linkunlink() choose from, in two orders.
linkunlink ==
  LET make == <<Create(<<"x">>, Unseen), Close(RESULT)>>
      link_x == <<Link(<<"cat">>, <<"x">>, Unseen)>>
      unlink_x == <<Unlink(<<"x">>, Unseen)>>
  IN unlink_x \o <<Fork(make \o unlink_x \o link_x)>> \o link_x \o unlink_x \o make \o <<Wait(Unseen)>>

\* As many names as it takes for the directory to use its indirect block.
bigdir ==
  LET name == <<"x00", "x01", "x02", "x03">>
      LinkTo(i) == <<Link(<<"bd">>, <<name[i + 1]>>, Good)>>
      Drop(i) == <<Unlink(<<name[i + 1]>>, Good)>>
  IN <<Unlink(<<"bd">>, Unseen), Create(<<"bd">>, Good), Close(0)>> \o Loop(LinkTo, 4)
     \o <<Unlink(<<"bd">>, Unseen)>> \o Loop(Drop, 4)

subdir ==
  <<Unlink(<<"ff">>, Unseen), Mkdir(<<"dd">>, Good), Create(<<"dd", "ff">>, Good),
    Write(0, Bytes("f", 2)), Close(0), Unlink(<<"dd">>, Bad), Mkdir(<<"/", "dd", "dd">>, Good),
    Create(<<"dd", "dd", "ff">>, Good), Write(0, Bytes("F", 2)), Close(0),
    Open(<<"dd", "dd", "..", "ff">>, "RDONLY", Good), Fetch(0, 10, {Data(Bytes("f", 2))}), Close(0),
    Link(<<"dd", "dd", "ff">>, <<"dd", "dd", "ffff">>, Good), Unlink(<<"dd", "dd", "ff">>, Good),
    Open(<<"dd", "dd", "ff">>, "RDONLY", Bad), Chdir(<<"dd">>, Good),
    Chdir(<<"dd", "..", "..", "dd">>, Good), Chdir(<<"dd", "..", "..", "..", "dd">>, Good),
    Chdir(<<".", "..">>, Good), Open(<<"dd", "dd", "ffff">>, "RDONLY", Good),
    Fetch(0, 10, {Data(Bytes("F", 2))}), Close(0), Open(<<"dd", "dd", "ff">>, "RDONLY", Bad),
    Create(<<"dd", "ff", "ff">>, Bad), Create(<<"dd", "xx", "ff">>, Bad), Create(<<"dd">>, Bad),
    Open(<<"dd">>, "RDWR", Bad), Open(<<"dd">>, "WRONLY", Bad),
    Link(<<"dd", "ff", "ff">>, <<"dd", "dd", "xx">>, Bad),
    Link(<<"dd", "xx", "ff">>, <<"dd", "dd", "xx">>, Bad),
    Link(<<"dd", "ff">>, <<"dd", "dd", "ffff">>, Bad), Mkdir(<<"dd", "ff", "ff">>, Bad),
    Mkdir(<<"dd", "xx", "ff">>, Bad), Mkdir(<<"dd", "dd", "ffff">>, Bad),
    Unlink(<<"dd", "xx", "ff">>, Bad), Unlink(<<"dd", "ff", "ff">>, Bad), Chdir(<<"dd", "ff">>, Bad),
    Chdir(<<"dd", "xx">>, Bad), Unlink(<<"dd", "dd", "ffff">>, Good), Unlink(<<"dd", "ff">>, Good),
    Unlink(<<"dd">>, Bad), Unlink(<<"dd", "dd">>, Good), Unlink(<<"dd">>, Good)>>

\* Writes of less, of as much and of more than one transaction.
bigwrite ==
  LET Round(i) == LET us == Bytes("w", 3 + 3 * i)
                  IN <<Create(<<"bigwrite">>, Good), Write(0, us), Write(0, us), Close(0),
                       Unlink(<<"bigwrite">>, Unseen)>>
  IN <<Unlink(<<"bigwrite">>, Unseen)>> \o Loop(Round, 3)

bigfile ==
  LET Six(i) == [j \in 1..6 |-> <<"", i>>]
      WriteSix(i) == <<Write(0, Six(i))>>
  IN <<Unlink(<<"bigfile">>, Unseen), Create(<<"bigfile">>, Good)>> \o Loop(WriteSix, 3)
     \o <<Close(0), Open(<<"bigfile">>, "RDONLY", Good), FetchAll(0, 3, {Data(Loop(Six, 3))}),
          Close(0), Unlink(<<"bigfile">>, Unseen)>>

fourteen ==
  LET d14 == "12345678901234"
      d15 == "123456789012345"
  IN <<Mkdir(<<d14>>, Good), Mkdir(<<d14, d15>>, Good), Create(<<d15, d15, d15>>, Good), Close(0),
       Open(<<d14, d14, d14>>, "RDONLY", Good), Close(0), Mkdir(<<d14, d14>>, Bad),
       Mkdir(<<d15, d14>>, Bad)>>

rmdot ==
  <<Mkdir(<<"dots">>, Good), Chdir(<<"dots">>, Good), Unlink(<<".">>, Bad), Unlink(<<"..">>, Bad),
    Chdir(<<"/">>, Good), Unlink(<<"dots", ".">>, Bad), Unlink(<<"dots", "..">>, Bad),
    Unlink(<<"dots">>, Good)>>

dirfile ==
  <<Create(<<"dirfile">>, Good), Close(0), Chdir(<<"dirfile">>, Bad),
    Open(<<"dirfile", "xx">>, "RDONLY", Bad), Create(<<"dirfile", "xx">>, Bad),
    Mkdir(<<"dirfile", "xx">>, Bad), Unlink(<<"dirfile", "xx">>, Bad),
    Link(<<"README">>, <<"dirfile", "xx">>, Bad), Unlink(<<"dirfile">>, Good),
    Open(<<".">>, "RDWR", Bad), Open(<<".">>, "RDONLY", Unseen),
    [Write(0, Bytes("x", 1)) EXCEPT !.ret = Bad], Close(0)>>

\* One round more than the inode cache has entries.
iref ==
  LET Round(i) == <<Mkdir(<<"irefd">>, Good), Chdir(<<"irefd">>, Good), Mkdir(<< >>, Unseen),
                    Link(<<"README">>, << >>, Unseen), Create(<< >>, Unseen), Close(RESULT),
                    Create(<<"xx">>, Unseen), Close(RESULT), Unlink(<<"xx">>, Unseen)>>
  IN Loop(Round, NINODE + 1) \o <<Chdir(<<"/">>, Unseen)>>

\* main(): a mark, and the tests on files and processes, here one at a time.
usertests ==
  {<<Open(<<"usertests.ran">>, "RDONLY", Bad), Create(<<"usertests.ran">>, Unseen), Close(RESULT)>> \o t :
     t \in {createdelete, linkunlink, concreate, fourfiles, sharedfd, bigwrite, opentest, writetest,
            writetest1, createtest, openiputtest, exitiputtest, iputtest, pipe1, preempt, exitwait,
            rmdot, fourteen, bigfile, subdir, linktest, unlinkread, dirfile, iref, forktest, bigdir,
            exectest}}
-----------------------------------------------------------------------------
\* Two processes of stressfs; the second one finds no child.
stressfs ==
  LET Rest(path) == <<Create(<<path>>, Unseen), Write(0, Bytes("a", 3)), Write(0, Bytes("a", 3)), Close(0),
                      Open(<<path>>, "RDONLY", Unseen), Fetch(0, 3, Unseen), Fetch(0, 3, Unseen), Close(0), Wait(Unseen)>>
  IN <<Fork(Rest("stressfs1"))>> \o Rest("stressfs0")

\* echo and cat with their data, as the shell starts them.
echo(us) == <<Write(1, us)>>
cat(us) == <<FetchAll(0, 2, {Data(us)}), Write(1, us)>>
Text == Bytes("s", 3)
Image(name) == IF name = "echo" THEN echo(Text) ELSE cat(Text)

\* The system calls of runcmd(), with the pipe at descriptors 3 and 4.
RECURSIVE runcmd(_)
runcmd(cmd) ==
  CASE cmd.type = "PANIC" -> << >>
    [] cmd.type = "EXEC" -> IF cmd.argv = << >> THEN << >> ELSE <<Exec(<<cmd.argv[1]>>, Image(cmd.argv[1]))>>
    [] cmd.type = "REDIR" ->
         <<Close(cmd.fd), IF cmd.mode = "RDONLY" THEN Open(<<cmd.file>>, cmd.mode, Good)
                          ELSE [Create(<<cmd.file>>, Good) EXCEPT !.mode = cmd.mode]>> \o runcmd(cmd.cmd)
    [] cmd.type = "LIST" -> <<Fork(runcmd(cmd.left)), Wait(Unseen)>> \o runcmd(cmd.right)
    [] cmd.type = "PIPE" ->
         <<Pipe, Fork(<<Close(1), Dup(4), Close(3), Close(4)>> \o runcmd(cmd.left)),
           Fork(<<Close(0), Dup(3), Close(3), Close(4)>> \o runcmd(cmd.right)),
           Close(3), Close(4), Wait(Unseen), Wait(Unseen)>>
    [] cmd.type = "BACK" -> <<Fork(runcmd(cmd.cmd))>>

\* init opens the console, then sh runs its commands.
init_main ==
  <<Open(<<"console">>, "RDWR", Unseen), Mknod(<<"console">>), Open(<<"console">>, "RDWR", Good), Dup(0), Dup(0)>>
sh_main(lines) ==
  LET Run(i) == LET ts == lines[i + 1]
                IN IF Head(ts) = "cd" THEN <<Chdir(<<ts[2]>>, Unseen)>>
                   ELSE <<Fork(runcmd(parsecmd(ts))), Wait(Unseen)>>
  IN <<Open(<<"console">>, "RDWR", {OK(3)}), Close(3)>> \o Loop(Run, Len(lines))

\* A list with a pipeline, a command in the background, a change of directory, an error.
shell ==
  init_main
  \o sh_main(<<<<"echo", ">", "y", ";", "(", "cat", "<", "y", "|", "cat", ")", ">", "z">>,
               <<"echo", "x", "&">>, <<"cd", "/">>, <<"cat", "<", ";", "echo">>>>)
  \o <<Open(<<"z">>, "RDONLY", Good), Fetch(3, 5, {Data(Text)}), Close(3)>>

(* The shell, as it starts, takes every line for the command it was typed  *)
(* for: parsecmd() is the inverse of Show, so the precedence, grouping and *)
(* parentheses of "&", ";", "|" and the redirections are those of Show.    *)
ParsesBack == proc[1].prog = shell => \A cmd \in Commands : parsecmd(Show(cmd)) = cmd

\* getcmd() of sh.c and a child, which is killed, read the same console.
terminal ==
  LET Chunk(n) == {Data(us) : us \in UNION {[1..m -> {<<"a", 0>>, NEWLINE}] : m \in 0..n}}
      Line(n) == {c \in Chunk(n) : \A j \in 1..(c.n - 1) : c.data[j] # NEWLINE}
  IN <<Mknod(<<"console">>), Open(<<"console">>, "RDWR", Good),
       Fork(<<Fetch(0, 2, Line(2))>>), Fetch(0, 1, Line(1)), Kill(2), Wait(Unseen)>>
-----------------------------------------------------------------------------
\* mkdir, ln, rm, kill, zombie and wc with their arguments.
mkdir_main(dir) == <<Mkdir(dir, Good)>>
ln_main(old, new) == <<Link(old, new, Good)>>
rm_main(file) == <<Unlink(file, Good)>>
kill_main(pid) == <<Kill(pid)>>
zombie_main == <<Fork(<< >>)>>
wc_main(file, us) == <<Open(file, "RDONLY", Good), FetchAll(0, 2, {Data(us)}), Close(0)>>

\* stat() of ulib.c, and ls of a directory with the given entries and their status.
stat(file, fd, st) == <<Open(file, "RDONLY", Good), Fstat(fd, {Data(st)}), Close(fd)>>
ls(dir, st, name, sts) ==
  LET Entry(j) == <<Fetch(0, 1, {Data(<<<<name[j + 1], i>>>>) : i \in Inums})>>
                  \o stat(Append(dir, name[j + 1]), 1, sts[j + 1])
  IN <<Open(dir, "RDONLY", Good), Fstat(0, {Data(st)})>> \o Loop(Entry, Len(name))
     \o <<Fetch(0, 1, {Data(<< >>)}), Close(0)>>

Status(type, nlink, size) == <<<<type, nlink>>, <<"size", size>>>>

\* The tools one after the other: a directory with a second link to cat in it.
tools ==
  LET Run(prog) == <<Fork(prog), Wait(Unseen)>>
      d == Status("dir", 1, 3)
  IN Run(mkdir_main(<<"d">>)) \o Run(ln_main(<<"cat">>, <<"d", "x">>))
     \o Run(ls(<<"d">>, d, <<".", "..", "x">>, <<d, Status("dir", 2, 6), Status("file", 2, 1)>>))
     \o Run(rm_main(<<"d", "x">>)) \o Run(rm_main(<<"d">>)) \o Run(wc_main(<<"cat">>, <<ELF>>))
     \o Run(zombie_main) \o Run(kill_main(4))
=============================================================================
