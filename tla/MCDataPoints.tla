---------------------------- MODULE MCDataPoints ----------------------------
(* Two threads, three streams, in memory for three.  Threads, ids and blocks   *)
(* are told apart by nothing but their names.                                  *)
EXTENDS DataPoints, TLC

Symmetric == Permutations(Thread) \cup Permutations(Id) \cup Permutations(Block)
=============================================================================
