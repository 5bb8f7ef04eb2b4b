------------------------------- MODULE IdIndex -------------------------------
(***************************************************************************)
(* What the id index promises to a table: which row slot a search of each  *)
(* key finds, between two calls.                                           *)
(***************************************************************************)
EXTENDS Naturals

CONSTANTS
  Key,
  RowOf(_),  \* the row slot a key is inserted with
  NULL

VARIABLES
  found,     \* found[k]: the slot a search for k finds, or NULL
  failures   \* the allocations that have failed

Init ==
  /\ found = [k \in Key |-> NULL]
  /\ failures = 0

Insert(k) ==
  /\ found[k] = NULL
  /\ found' = [found EXCEPT ![k] = RowOf(k)]
  /\ UNCHANGED failures

\* A failed allocation changes nothing, or it loses the keys of one subtree
\* while its own key stays behind or is lost with them.
FailToInsert ==
  /\ failures' = failures + 1
  /\ \/ UNCHANGED found
     \/ \E own, lo, hi \in Key :
          /\ found[own] = NULL
          /\ found' = [k \in Key |-> IF k \in lo..hi THEN NULL
                                     ELSE IF k = own THEN RowOf(k) ELSE found[k]]

Clear ==
  /\ found' = [k \in Key |-> NULL]
  /\ UNCHANGED failures

Next == (\E k \in Key : Insert(k)) \/ FailToInsert \/ Clear

Spec == Init /\ [][Next]_<<found, failures>>
===============================================================================
