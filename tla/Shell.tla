------------------------------- MODULE Shell --------------------------------
(***************************************************************************)
(* The parser of sh.c on a line that is given as a sequence of tokens: the *)
(* symbols, and words.  A parser returns the command and the rest of the   *)
(* line; a syntax error is the command PANIC, for the child then exits.    *)
(***************************************************************************)
EXTENDS Integers, Sequences

CONSTANT MAXARGS

Symbols == {"<", ">", ">>", "|", "&", ";", "(", ")"}

execcmd == [type |-> "EXEC", argv |-> << >>]
redircmd(cmd, tok, file) ==
  [type |-> "REDIR", cmd |-> cmd, file |-> file,
   mode |-> IF tok = "<" THEN "RDONLY" ELSE "WRONLY", fd |-> IF tok = "<" THEN 0 ELSE 1]
pipecmd(left, right) == [type |-> "PIPE", left |-> left, right |-> right]
listcmd(left, right) == [type |-> "LIST", left |-> left, right |-> right]
backcmd(cmd) == [type |-> "BACK", cmd |-> cmd]
panic == [type |-> "PANIC"]

peek(ts, toks) == ts # << >> /\ Head(ts) \in toks

\* What a parser returns, and what it does after another one.
Parsed(cmd, rest) == [cmd |-> cmd, rest |-> rest]
Syntax == Parsed(panic, << >>)
After(x, F(_)) == IF x.cmd = panic THEN x ELSE F(x)

RECURSIVE parseredirs(_, _)
parseredirs(cmd, ts) ==
  IF ~peek(ts, {"<", ">", ">>"}) THEN Parsed(cmd, ts)
  ELSE IF Len(ts) = 1 \/ ts[2] \in Symbols THEN Syntax
  ELSE parseredirs(redircmd(cmd, ts[1], ts[2]), SubSeq(ts, 3, Len(ts)))

\* The EXEC command inside its redirections gets another argument.
RECURSIVE Arg(_, _)
Arg(cmd, word) ==
  IF cmd.type = "REDIR" THEN [cmd EXCEPT !.cmd = Arg(@, word)]
  ELSE [cmd EXCEPT !.argv = Append(@, word)]
RECURSIVE Argc(_)
Argc(cmd) == IF cmd.type = "REDIR" THEN Argc(cmd.cmd) ELSE Len(cmd.argv)

\* The loop of parseexec().
RECURSIVE parseargs(_)
parseargs(x) ==
  IF x.rest = << >> \/ peek(x.rest, {"|", ")", "&", ";"}) THEN x
  ELSE IF Head(x.rest) \in Symbols \/ Argc(x.cmd) + 1 >= MAXARGS THEN Syntax
  ELSE After(parseredirs(Arg(x.cmd, Head(x.rest)), Tail(x.rest)), parseargs)

\* The loop of parseline().
RECURSIVE backs(_)
backs(x) == IF peek(x.rest, {"&"}) THEN backs(Parsed(backcmd(x.cmd), Tail(x.rest))) ELSE x

RECURSIVE parseline(_)
parseblock(ts) ==
  LET Close(x) == IF peek(x.rest, {")"}) THEN parseredirs(x.cmd, Tail(x.rest)) ELSE Syntax
  IN After(parseline(Tail(ts)), Close)

parseexec(ts) ==
  IF peek(ts, {"("}) THEN parseblock(ts) ELSE After(parseredirs(execcmd, ts), parseargs)

\* Faulty: a pipeline ends where the line ends.
parsepipe_line(ts) ==
  LET More(x) == IF ~peek(x.rest, {"|"}) THEN x
                 ELSE LET Join(y) == Parsed(pipecmd(x.cmd, y.cmd), y.rest)
                      IN After(parseline(Tail(x.rest)), Join)
  IN After(parseexec(ts), More)
RECURSIVE parsepipe(_)
parsepipe(ts) ==
  LET More(x) == IF ~peek(x.rest, {"|"}) THEN x
                 ELSE LET Join(y) == Parsed(pipecmd(x.cmd, y.cmd), y.rest)
                      IN After(parsepipe(Tail(x.rest)), Join)
  IN After(parseexec(ts), More)

parseline(ts) ==
  LET More(b) == LET x == backs(b)
                     Join(y) == Parsed(listcmd(x.cmd, y.cmd), y.rest)
                 IN IF peek(x.rest, {";"}) THEN After(parseline(Tail(x.rest)), Join) ELSE x
  IN After(parsepipe(ts), More)

parsecmd(ts) ==
  LET x == parseline(ts) IN IF x.rest # << >> THEN panic ELSE x.cmd
-----------------------------------------------------------------------------
\* Commands of two levels, and how one would be typed.
Simple == {[execcmd EXCEPT !.argv = a] : a \in {<<"a">>, <<"a", "b">>}}
Compound(C) ==
  {backcmd(c) : c \in C} \cup {redircmd(c, tok, "f") : c \in C, tok \in {"<", ">"}}
  \cup {pipecmd(c, d) : c, d \in C} \cup {listcmd(c, d) : c, d \in C}
Commands == Compound(Compound(Simple) \cup Simple)

RECURSIVE Show(_)
Show(cmd) ==
  LET Paren(c, types) == IF c.type \in types THEN Show(c) ELSE <<"(">> \o Show(c) \o <<")">>
      Inner(c) == Paren(c, {"EXEC", "REDIR"})
      Unlisted(c) == Paren(c, {"EXEC", "REDIR", "PIPE", "BACK"})
  IN CASE cmd.type = "EXEC" -> cmd.argv
       [] cmd.type = "REDIR" -> Inner(cmd.cmd) \o <<IF cmd.fd = 0 THEN "<" ELSE ">", cmd.file>>
       [] cmd.type = "PIPE" -> Inner(cmd.left) \o <<"|">> \o Paren(cmd.right, {"EXEC", "REDIR", "PIPE"})
       [] cmd.type = "LIST" -> Unlisted(cmd.left) \o <<";">> \o Show(cmd.right)
       [] cmd.type = "BACK" -> Unlisted(cmd.cmd) \o <<"&">>
=============================================================================
