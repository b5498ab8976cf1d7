-------------------------- MODULE MCReceiveService --------------------------
(***************************************************************************)
(* Small instances of ReceiveService: two cells, so that two sessions      *)
(* compete for the slot and a later one can be given the cell of a session *)
(* that ended.                                                             *)
(***************************************************************************)
EXTENDS ReceiveService
=============================================================================
