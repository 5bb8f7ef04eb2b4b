------------------------------- MODULE MCServer -------------------------------
(***************************************************************************)
(* Instances of Server for TLC.                                            *)
(***************************************************************************)
EXTENDS Server, TLC

\* One descriptor for each place in the queue, each worker and the accept loop.
MCFd == 1..LastFd

Symmetry == Permutations(Worker) \cup Permutations(Client)
===============================================================================
