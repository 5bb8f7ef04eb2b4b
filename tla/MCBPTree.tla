------------------------------- MODULE MCBPTree -------------------------------
(***************************************************************************)
(* Instances of BPTree for TLC.                                            *)
(***************************************************************************)
EXTENDS BPTree
===============================================================================
