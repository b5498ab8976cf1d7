---------------------------- MODULE MCTransport ----------------------------
(* Transport, with all three transports or with tcp alone.                 *)
EXTENDS Transport
=============================================================================
