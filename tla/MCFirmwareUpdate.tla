-------------------------- MODULE MCFirmwareUpdate --------------------------
(***************************************************************************)
(* Small instances of FirmwareUpdate: a ring of two slots (the default     *)
(* CCAPI_CHUNK_POOL_SIZE), chunks of two bytes, packets that are smaller   *)
(* than, equal to and larger than a chunk, and images that end inside and  *)
(* at the end of a chunk.                                                  *)
(***************************************************************************)
EXTENDS FirmwareUpdate

CONSTANTS t1, t2

\* t1 asks for chunks of two bytes and limits the image; t2 takes the default.
MCChunkSize == [t \in Targets |-> IF t = t1 THEN 2 ELSE 0]
MCMaximumSize == [t \in Targets |-> IF t = t1 THEN 5 ELSE 0]
=============================================================================
