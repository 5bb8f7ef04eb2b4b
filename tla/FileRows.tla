------------------------------- MODULE FileRows -------------------------------
(***************************************************************************)
(* The rows of a CSV table in the order of the file.  Of a row only the id *)
(* counts, by which a DELETE selects it.                                   *)
(***************************************************************************)
EXTENDS Integers, Sequences

Ids(rows) == { rows[i].id : i \in 1..Len(rows) }

\* The rows a DELETE copies, one after the other: those whose id is not gone.
Without(rows, gone) ==
  LET copied[i \in 0..Len(rows)] ==
        IF i = 0 THEN <<>>
        ELSE IF rows[i].id \in gone THEN copied[i - 1]
        ELSE Append(copied[i - 1], rows[i])
  IN copied[Len(rows)]
===============================================================================
