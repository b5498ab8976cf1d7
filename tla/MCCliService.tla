---------------------------- MODULE MCCliService ----------------------------
(***************************************************************************)
(* A small instance of CliService: two cells, so that two sessions wait    *)
(* for the slot and a later one gets the memory of one that ended.         *)
(***************************************************************************)
EXTENDS CliService
=============================================================================
