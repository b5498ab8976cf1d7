--------------------------- MODULE MCLifecycle ---------------------------
(* Lifecycle with the values of the cfg.                                   *)
EXTENDS Lifecycle
=============================================================================
