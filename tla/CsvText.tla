------------------------------- MODULE CsvText -------------------------------
(***************************************************************************)
(* The text of data/<table>.csv: how storage.c writes a row and reads it   *)
(* back, and how utils.c compares two values.                              *)
(*                                                                         *)
(* A text is a sequence of characters, a position in it a byte offset.     *)
(* Column names are compared without regard to case; only one spelling is  *)
(* used here.                                                              *)
(***************************************************************************)
EXTENDS Integers, SequencesExt

CONSTANTS
  LineMax,     \* MAX_CSV_LINE_LENGTH - 1, what fgets reads at most
  MaxColumns,  \* MAX_COLUMNS
  MaxName,     \* MAX_IDENTIFIER_LEN - 1
  MaxInteger,  \* LLONG_MAX
  FAILURE

ASSUME CsvTextAssumption ==
  /\ {LineMax, MaxColumns, MaxName, MaxInteger} \subseteq Nat \ {0}

\* The characters that matter, in the order of their codes.
Characters ==
  <<"\n", "\r", "\"", "+", ",", "-",
    "0", "1", "2", "3", "4", "5", "6", "7", "8", "9", "a", "d", "i", "n">>

Code == [c \in ToSet(Characters) \cup {"\\0"} |-> SelectInSeq(Characters, LAMBDA x : x = c)]

LineEnd == {"\n", "\r"}

\* The character at i, "\0" behind the last.
At(t, i) == IF i \in 1..Len(t) THEN t[i] ELSE "\\0"

-------------------------------------------------------------------------------
\* Writing

\* Mutant: a quote inside a quoted value is not doubled.
WriteValueUndoubled(v) ==
  IF ToSet(v) \cap ({",", "\""} \cup LineEnd) = {} THEN v ELSE <<"\"">> \o v \o <<"\"">>

\* storage_write_csv_value
WriteValue(v) ==
  IF ToSet(v) \cap ({",", "\""} \cup LineEnd) = {} THEN v
  ELSE <<"\"">> \o FlattenSeq([i \in 1..Len(v) |-> IF v[i] = "\"" THEN <<"\"", "\"">> ELSE <<v[i]>>])
         \o <<"\"">>

\* storage_write_csv_row
WriteRow(row) ==
  FlattenSeq([i \in 1..Len(row) |-> IF i = 1 THEN WriteValue(row[i]) ELSE <<",">> \o WriteValue(row[i])])
    \o <<"\n">>

WriteRows(rows) == FlattenSeq([i \in 1..Len(rows) |-> WriteRow(rows[i])])

-------------------------------------------------------------------------------
\* Reading

\* storage_parse_csv_line: the fields of a line, none when a quote is left
\* open.  fields[i, quoted] are those from position i on.
ParseLine(line) ==
  LET add(c, rest) == IF rest = <<>> THEN <<>> ELSE << <<c>> \o Head(rest) >> \o Tail(rest)
      fields[i \in Nat, quoted \in BOOLEAN] ==
        LET c == At(line, i)
            ends == c \in LineEnd \cup {"\\0"}
        IN CASE quoted /\ c = "\"" /\ At(line, i + 1) = "\"" -> add("\"", fields[i + 2, TRUE])
             [] c = "\"" /\ ~(quoted /\ At(line, i + 1) = "\"") -> fields[i + 1, ~quoted]
             [] quoted /\ ends -> <<>>
             [] ~quoted /\ ends -> << <<>> >>
             [] ~quoted /\ c = "," ->
                  LET rest == fields[i + 1, FALSE]
                  IN IF rest = <<>> THEN <<>> ELSE << <<>> >> \o rest
             [] OTHER -> add(c, fields[i + 1, quoted])
  IN fields[1, FALSE]

\* The last character that fgets reads from i on.
LineStop(t, i) ==
  LET most == IF i + LineMax - 1 < Len(t) THEN i + LineMax - 1 ELSE Len(t)
      ends == { j \in i..most : t[j] = "\n" }
  IN IF ends = {} THEN most ELSE Min(ends)

Line(t, i) == SubSeq(t, i, LineStop(t, i))

\* No line end in the buffer, and not the end of the file either.
TooLong(t, i) == LineStop(t, i) = i + LineMax - 1 /\ t[LineStop(t, i)] # "\n"

\* storage_read_header: the columns, none in an empty file.
ReadHeader(t) ==
  LET checked(columns) ==
        IF /\ Len(columns) \in 1..MaxColumns
           /\ \A i \in 1..Len(columns) : Len(columns[i]) <= MaxName
        THEN columns ELSE FAILURE
  IN IF t = <<>> THEN <<>>
     ELSE IF TooLong(t, 1) THEN FAILURE
     ELSE checked(ParseLine(Line(t, 1)))

\* The loop over the rows behind the header; it stops with a row of no values
\* where one cannot be read.
ReadRows(t) ==
  LET width == Len(ReadHeader(t))
      fit(values) == IF Len(values) = width THEN values ELSE <<>>
      values(i) == IF TooLong(t, i) THEN <<>> ELSE fit(ParseLine(Line(t, i)))
      rows[i \in Nat] ==
        LET follow(row) ==
              <<row>> \o (IF row.values = <<>> THEN <<>> ELSE rows[LineStop(t, i) + 1])
        IN IF i > Len(t) THEN <<>>
           ELSE IF t[i] \in LineEnd /\ ~TooLong(t, i) THEN rows[LineStop(t, i) + 1]
           ELSE follow([values |-> values(i), offset |-> i])
  IN IF t = <<>> THEN <<>> ELSE rows[LineStop(t, 1) + 1]

Broken(rows) == rows # <<>> /\ Last(rows).values = <<>>

\* storage_load_table_from_fp: the rows with their offsets, or FAILURE.
Load(t) ==
  LET unbroken(rows) == IF Broken(rows) THEN FAILURE ELSE rows
  IN IF ReadHeader(t) = FAILURE THEN FAILURE ELSE unbroken(ReadRows(t))

Values(rows) == [i \in 1..Len(rows) |-> rows[i].values]

\* storage_read_row_at_offset, which does not look whether the line is whole.
ReadRowAt(t, offset, width) ==
  LET fit(values) == IF Len(values) = width THEN values ELSE FAILURE
  IN IF offset <= Len(t) THEN fit(ParseLine(Line(t, offset))) ELSE FAILURE

-------------------------------------------------------------------------------
\* Comparing

Digits(t) == IF At(t, 1) \in {"+", "-"} THEN Tail(t) ELSE t

\* utils_is_integer
IsInteger(t) ==
  /\ Digits(t) # <<>>
  /\ \A i \in 1..Len(Digits(t)) : Code[Digits(t)[i]] \in Code["0"]..Code["9"]

Number(t) ==
  LET size == FoldLeft(LAMBDA n, c : 10 * n + Code[c] - Code["0"], 0, Digits(t))
  IN IF t[1] = "-" THEN -size ELSE size

\* utils_try_parse_integer succeeds
Parses(t) == IsInteger(t) /\ Number(t) \in (-MaxInteger - 1)..MaxInteger

\* utils_parse_integer: strtoll stops at the limits.
ParseInteger(t) ==
  IF Number(t) > MaxInteger THEN MaxInteger
  ELSE IF Number(t) < -MaxInteger - 1 THEN -MaxInteger - 1 ELSE Number(t)

\* printf("%lld")
Print64(n) ==
  LET digits[k \in Nat] ==
        IF k < 10 THEN <<Characters[Code["0"] + k]>>
        ELSE Append(digits[k \div 10], Characters[Code["0"] + (k % 10)])
  IN IF n < 0 THEN <<"-">> \o digits[-n] ELSE digits[n]

\* strcmp, by its sign
StrCmp(a, b) ==
  LET differ == { i \in 1..(Len(a) + 1) : Code[At(a, i)] # Code[At(b, i)] }
  IN IF differ = {} THEN 0
     ELSE IF Code[At(a, Min(differ))] < Code[At(b, Min(differ))] THEN -1 ELSE 1

\* utils_compare_values
CompareValues(a, b) ==
  IF Parses(a) /\ Parses(b)
  THEN IF Number(a) < Number(b) THEN -1 ELSE IF Number(a) > Number(b) THEN 1 ELSE 0
  ELSE StrCmp(a, b)

Operator == {"=", "!=", ">", "<", ">=", "<="}

\* storage_compare_with_operator, for an operator it supports
Compare(a, op, b) ==
  LET c == CompareValues(a, b)
  IN CASE op = "=" -> c = 0
       [] op = "!=" -> c # 0
       [] op = ">" -> c > 0
       [] op = "<" -> c < 0
       [] op = ">=" -> c >= 0
       [] op = "<=" -> c <= 0
===============================================================================
