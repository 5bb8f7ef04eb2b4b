------------------------------ MODULE CsvIndex ------------------------------
(***************************************************************************)
(* index.c: an index over one column of the rows that storage.c has        *)
(* loaded.  A query returns byte offsets, by which the rows are read.      *)
(*                                                                         *)
(* An index is a record: `same` is the hash index, a function from the     *)
(* spellings of the column to the offsets in their bucket list; `entries`  *)
(* is the sorted array.  qsort is only used where the comparison orders    *)
(* the values, which CompareValues does not always do.                     *)
(***************************************************************************)
EXTENDS CsvText

CONSTANT MaxValue  \* MAX_VALUE_LEN - 1

ASSUME CsvIndexAssumption == MaxValue \in Nat

\* index_compare_range_entries
EntryBefore(e, f) ==
  LET c == CompareValues(e.key, f.key)
  IN c < 0 \/ (c = 0 /\ e.offset < f.offset)

Offsets(rows) == [i \in 1..Len(rows) |-> rows[i].offset]

\* index_build, FAILURE when a value does not fit an entry
BuildIndex(rows, column) ==
  LET key(i) == rows[i].values[column]
      entries == [i \in 1..Len(rows) |-> [key |-> key(i), offset |-> rows[i].offset]]
  IN IF \E i \in 1..Len(rows) : Len(key(i)) > MaxValue THEN FAILURE
     ELSE [same |-> [k \in { key(i) : i \in 1..Len(rows) } |->
                       Offsets(SelectSeq(rows, LAMBDA r : r.values[column] = k))],
           entries |-> SortSeq(entries, EntryBefore)]

\* The binary search: how many entries compare as at most `most` with value.
Bound(entries, value, most) ==
  LET search[left \in Nat, right \in Nat] ==
        LET middle == left + (right - left) \div 2
        IN IF left >= right THEN left
           ELSE IF CompareValues(entries[middle + 1].key, value) <= most
                THEN search[middle + 1, right] ELSE search[left, middle]
  IN search[0, Len(entries)]

\* Mutant: an entry equal to the value is passed over.
LowerBoundLate(entries, value) == Bound(entries, value, 0)

\* index_lower_bound: the entries before value
LowerBound(entries, value) == Bound(entries, value, -1)

\* index_upper_bound: the entries before value or equal to it
UpperBound(entries, value) == Bound(entries, value, 0)

\* index_query_equals
QueryEquals(index, value) ==
  IF value \in DOMAIN index.same THEN index.same[value] ELSE <<>>

\* index_query_range
QueryRange(index, op, value) ==
  LET entries == index.entries
      from == CASE op = ">" -> UpperBound(entries, value)
                [] op = ">=" -> LowerBound(entries, value)
                [] OTHER -> 0
      to == CASE op = "<" -> LowerBound(entries, value)
              [] op = "<=" -> UpperBound(entries, value)
              [] OTHER -> Len(entries)
  IN IF op = "!="
     THEN Offsets(SelectSeq(entries, LAMBDA e : CompareValues(e.key, value) # 0))
     ELSE Offsets(SubSeq(entries, from + 1, to))

Query(index, op, value) ==
  IF op = "=" THEN QueryEquals(index, value) ELSE QueryRange(index, op, value)

\* The values that CompareValues puts in one order.
Ordered(values) ==
  LET atMost == { p \in values \X values : CompareValues(p[1], p[2]) <= 0 }
  IN \A u, v, w \in values :
       <<u, v>> \in atMost /\ <<v, w>> \in atMost => <<u, w>> \in atMost

\* No two spellings of one number.
SpeltAlike(values) == \A u, v \in values : CompareValues(u, v) = 0 => u = v
===============================================================================
