------------------------------ MODULE Terminal ------------------------------
(***************************************************************************)
(* What the console promises to those who type and read: the line that is  *)
(* being typed can be edited until it is entered, and then stays as it is; *)
(* readers take what was entered, in order and at most a line at a time,   *)
(* and an end of file is taken alone.                                      *)
(***************************************************************************)
EXTENDS Integers, Sequences

CONSTANTS Chars, NEWLINE, EOF, Size

VARIABLES line,     \* being typed
          entered   \* waiting for a reader

Init == line = << >> /\ entered = << >>

Enter(s) == entered' = entered \o s /\ line' = << >>

Type(c) ==
  /\ Len(entered) + Len(line) < Size
  /\ IF c \in {NEWLINE, EOF} \/ Len(entered) + Len(line) + 1 = Size
     THEN Enter(Append(line, c))
     ELSE line' = Append(line, c) /\ UNCHANGED entered

Erase ==
  /\ line # << >>
  /\ line' \in {SubSeq(line, 1, Len(line) - 1), << >>}
  /\ UNCHANGED entered

\* A reader takes n units; only the last of them ends a line.
Take(n) ==
  /\ \A j \in 1..n : entered[j] = NEWLINE => j = n
  /\ \A j \in 1..n : entered[j] = EOF => n = 1
  /\ entered' = SubSeq(entered, n + 1, Len(entered))
  /\ UNCHANGED line

Next == Erase \/ (\E c \in Chars : Type(c)) \/ (\E n \in 1..Len(entered) : Take(n))
Spec == Init /\ [][Next]_<<line, entered>>
=============================================================================
