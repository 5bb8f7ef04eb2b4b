---------------------------- MODULE MCCommandLine ----------------------------
(***************************************************************************)
(* Instances of CommandLine for TLC: every short text over the symbols     *)
(* that matter to the splitters, also at the end of a long line, and       *)
(* statements with any one symbol missing, doubled or replaced.            *)
(***************************************************************************)
EXTENDS CommandLine, TLC

CONSTANTS Length, LateLength, Padding

Short(n) == SeqOf({"x", "exit", "'", ";", " ", "\n"}, n)

Late == { [i \in 1..Padding |-> " "] \o t : t \in SeqOf({"x", "'", ";", "\n"}, LateLength) }

Insert == <<"INSERT", " ", "INTO", " ", "x", "(", "x", ")", "VALUES", "(", "0", ")", ";">>

Select == <<"SELECT", " ", "x", ",", "x", "\n", "FROM", " ", "x", ";">>

SelectWhere == <<"SELECT", "*", "FROM", " ", "x", " ", "WHERE", " ", "x", "<", "=", "-", "0", ";">>

SelectMany == <<"SELECT", " ", "x", ",", "x", ",", "x", " ", "FROM", " ", "x", ";">>

Delete == <<"DELETE", " ", "FROM", " ", "x", " ", "WHERE", " ", "x", "=", "'", "x", "'">>

TwoRows == <<"INSERT", "INTO", "x", "(", "x", ",", "*", ")", "VALUES", "(", "0", ",", "'", "'", ")", ";">>

Edited(t) ==
  LET cut(i) == SubSeq(t, 1, i - 1)
      rest(i) == SubSeq(t, i, Len(t))
  IN {t} \cup { cut(i) \o rest(i + 1) : i \in 1..Len(t) }
       \cup { cut(i) \o <<c>> \o rest(i) : i \in 1..(Len(t) + 1), c \in Symbol }
       \cup { cut(i) \o <<c>> \o rest(i + 1) : i \in 1..Len(t), c \in Symbol }

MCScript ==
  Short(Length) \cup Late
    \cup UNION { Edited(t) : t \in {Insert, Select, SelectMany, SelectWhere, Delete, TwoRows} }
===============================================================================
