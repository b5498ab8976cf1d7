----------------------------- MODULE MCRciService -----------------------------
(***************************************************************************)
(* Small instances of RciService: an application with every callback, one  *)
(* that only reads and does not look at the end of anything, one that      *)
(* writes and cannot transform, and one that handles elements alone.       *)
(***************************************************************************)
EXTENDS RciService

MCReader == {"action_start", "group_start", "list_start", "get_element"}
MCWriter == {"session_start", "action_start", "set_element"}
MCElements == ElementFunctions
\* Cleared memory, and that of a set which asked for transformed values.
MCGarbage ==
    {[action |-> "query", type |-> "setting", matches |-> FALSE, embed |-> FALSE],
     [action |-> "set", type |-> "setting", matches |-> TRUE, embed |-> TRUE]}

MCHandlerSets == {Functions, MCReader, MCWriter, MCElements}
=============================================================================
