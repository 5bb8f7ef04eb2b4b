---------------------------- MODULE MCTableRuntime ----------------------------
(***************************************************************************)
(* Instances of TableRuntime for TLC.                                      *)
(***************************************************************************)
EXTENDS TableRuntime, TLC

CONSTANTS users, USERS, orders, s1, s2, wide, withId, a, b

MCFold == [n \in TableName |-> IF n = USERS THEN users ELSE n]

Insert(n, s, v) == [op |-> "insert", name |-> n, shape |-> s, val |-> v]
Select(n, k)    == [op |-> "select", name |-> n, where |-> [kind |-> k]]
SelectId(n, i)  == [op |-> "select", name |-> n, where |-> [kind |-> "id", id |-> i]]
SelectVal(n, v) == [op |-> "select", name |-> n, where |-> [kind |-> "value", val |-> v]]
Delete(n)       == [op |-> "delete", name |-> n]

\* Contention on one table.
Contention ==
  { Insert(users, s1, a), Insert(users, s2, b), Insert(users, wide, a),
    Select(users, "all"), SelectId(users, 2), SelectVal(users, a),
    Select(users, "unknown_column") }

\* Every way a statement can end, on two tables, one of them under two spellings;
\* the second row of users may be lost to its index.
Stopping ==
  { Insert(users, s1, a), Insert(USERS, s2, a), Insert(orders, wide, a), Insert(orders, withId, a),
    Select(USERS, "all"), SelectId(users, 2), SelectId(orders, 1), Select(users, "bad_projection"),
    Delete(users) }

Symmetry == Permutations(Thread)
===============================================================================
