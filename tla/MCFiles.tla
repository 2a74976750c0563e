------------------------------ MODULE MCFiles -------------------------------
(***************************************************************************)
(* The programs of UserTests run by Files on a small disk.                 *)
(***************************************************************************)
EXTENDS UserTests

\* A writer that is killed, at any point, while others use its pipe.
killed_writer ==
  <<Pipe, Fork(<<Close(0), [Write(1, Bytes("k", PIPESIZE + 1)) EXCEPT !.ret = Unseen]>>),
    Fork(<<Close(1), Fetch(0, 1, Unseen), Fetch(0, 1, Unseen)>>), Close(0), Kill(2),
    [Write(1, Bytes("w", PIPESIZE)) EXCEPT !.ret = Unseen], Close(1), Wait(Unseen), Wait(Unseen)>>

\* Two links of one file in one directory, removed at the same time.
two_links ==
  <<Link(<<"cat">>, <<"x">>, Good), Fork(<<Unlink(<<"x">>, Good)>>), Unlink(<<"cat">>, Good), Wait(Unseen)>>

(* Parent and child write to their common file, each more than one         *)
(* transaction takes: the parts mix, and none is lost.                     *)
shared_parts ==
  LET Part(S, k) == LET mine == IF k \in S THEN S ELSE (1..4) \ S
                    IN Bytes(IF k \in S THEN "c" ELSE "p", IF k = Min(mine) THEN MAXWRITE ELSE 1)
      Mixed == {FlattenSeq([k \in 1..4 |-> Part(S, k)]) : S \in kSubset(2, 1..4)}
      Big(c) == Write(0, Bytes(c, MAXWRITE + 1))
  IN <<Create(<<"parts">>, Good), Fork(<<Big("c")>>), Big("p"), Wait(Unseen), Close(0),
       Open(<<"parts">>, "RDONLY", Good), FetchAll(0, 5, {Data(us) : us \in Mixed}), Close(0)>>

\* As many descriptors and as large a file as there can be, and one more.
limits ==
  LET Opens(i) == <<Open(<<"README">>, "RDONLY", Good)>>
      Closes(i) == <<Close(i)>>
  IN <<Link(<<"README">>, << >>, Bad), Fstat(0, Bad)>> \o Loop(Opens, NOFILE)
     \o <<Open(<<"README">>, "RDONLY", Bad), [Dup(0) EXCEPT !.ret = Bad], [Pipe EXCEPT !.ret = Bad]>>
     \o Loop(Closes, NOFILE)
     \o <<Create(<<"big">>, Good), [Write(0, Bytes("x", MAXFILE * BSIZE + 1)) EXCEPT !.ret = Bad],
          Unlink(<<"big">>, Good)>>

MCPrograms == usertests \cup {dirtest, stressfs, shell, tools, terminal, killed_writer, limits,
                          two_links, shared_parts}

Typing == {terminal}

\* The test of the reference counts of inodes in open() and unlink().
Openiput == {openiputtest}
=============================================================================
