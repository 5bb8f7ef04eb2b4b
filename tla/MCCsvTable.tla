----------------------------- MODULE MCCsvTable -----------------------------
(***************************************************************************)
(* An instance of CsvTable for TLC: a table with a column "n", values of   *)
(* every kind of character, numbers in several spellings, and ids that are *)
(* given, counted, empty, no number or at the limit.                       *)
(***************************************************************************)
EXTENDS CsvTable

Texts ==
  {<<>>} \cup { <<c>> : c \in {"a", ",", "\"", "\n", "\r"} }
    \cup {<<"\"", "\"">>, <<"\"", ",">>, <<"a", "\"">>}

Numbers == {<<"9">>, <<"1", "0">>, <<"0", "9">>, <<"1", "a">>, <<"1", "3">>}

Name == <<"n">>

MCInsertStatement ==
  { [columns |-> <<Name>>, values |-> <<v>>] : v \in Texts \cup Numbers }
    \cup { [columns |-> <<Id, Name>>, values |-> <<id, <<"a">> >>] :
             id \in {<<>>, <<"9">>, <<"a">>, <<"1", "2">>} }
    \cup { [columns |-> <<Name, Id>>, values |-> << <<"9">>, <<"2">> >>],
           [columns |-> << <<"a">> >>, values |-> << <<"a">> >>] }

\* The statements a header that was cut leaves a table with; five of them may
\* follow each other, but three of the others.
Frequent ==
  { [columns |-> <<Name>>, values |-> <<v>>] : v \in {<<>>, <<"a">>, <<"\n">>} }
    \cup { [columns |-> <<Name, Id>>, values |-> << <<"9">>, <<"2">> >>] }

MCWeight(s) == IF s \in Frequent THEN 3 ELSE 5

MCDeleteStatement ==
  {AllRows,
   [column |-> Name, op |-> ">=", value |-> <<"9">>],
   [column |-> Id, op |-> "=", value |-> <<"1">>],
   [column |-> <<"d">>, op |-> "=", value |-> <<"1">>]}

MCLiteral == {<<"9">>, <<"1", "0">>, <<"a">>, <<>>, <<"-", "2">>}
===============================================================================
