-------------------------- MODULE MCReceiveTargets --------------------------
(***************************************************************************)
(* A small instance of ReceiveTargets; threads, names and cells are each   *)
(* interchangeable.                                                        *)
(***************************************************************************)
EXTENDS ReceiveTargets, TLC

Symmetric == Permutations(App) \cup Permutations(Name) \cup Permutations(Cell)
=============================================================================
