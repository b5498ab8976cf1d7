---------------------------- MODULE MCSendService ----------------------------
(***************************************************************************)
(* SendService for TLC: the cells and the threads are interchangeable.     *)
(***************************************************************************)
EXTENDS SendService, TLC

Symmetry == Permutations(Cells) \cup Permutations(Senders)
=============================================================================
