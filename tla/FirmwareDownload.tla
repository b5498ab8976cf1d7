--------------------------- MODULE FirmwareDownload ---------------------------
(***************************************************************************)
(* What the firmware update service promises the server and the            *)
(* application, with no ring, thread or buffer: the image of one download  *)
(* at a time is received in order, the application takes a prefix of what  *)
(* was received, and success is reported at the end of a download whose    *)
(* whole image the application took without refusing any of it.            *)
(*                                                                         *)
(* "lost" is the phase after a start that pulled the ring from under the   *)
(* firmware thread; nothing is promised from there on.                     *)
(***************************************************************************)
EXTENDS Integers

CONSTANT CodeSizes

VARIABLES phase, total, received, delivered, refused, outcome

vars == << phase, total, received, delivered, refused, outcome >>

Init ==
    /\ phase = "idle" /\ outcome = "other"
    /\ total = 0 /\ received = 0 /\ delivered = 0 /\ refused = FALSE

Begin(n) ==
    /\ phase = "idle" /\ phase' = "loading"
    /\ total' = n /\ received' = 0 /\ delivered' = 0 /\ refused' = FALSE
    /\ outcome' = "other"

\* A packet, or the part of it that fits the chunk being filled, is stored.
Receive ==
    /\ phase = "loading" /\ received < total
    /\ received' \in (received + 1) .. total
    /\ UNCHANGED << phase, total, delivered, refused, outcome >>

\* The application takes the next chunk, or refuses it.
Deliver ==
    /\ phase = "loading" /\ delivered < received
    /\ delivered' \in (delivered + 1) .. received
    /\ refused => refused'
    /\ refused' \in BOOLEAN
    /\ UNCHANGED << phase, total, received, outcome >>

Succeed ==
    /\ phase = "loading" /\ delivered = total /\ ~refused
    /\ phase' = "idle" /\ outcome' = "success"
    /\ UNCHANGED << total, received, delivered, refused >>

\* Completed too early or with refused data, aborted, or given up for another.
Fail ==
    /\ phase = "loading"
    /\ phase' = "idle" /\ outcome' = "other"
    /\ UNCHANGED << total, received, delivered, refused >>

\* Another answer than the success of a complete is given.
Forget ==
    /\ phase = "idle" /\ outcome = "success" /\ outcome' = "other"
    /\ UNCHANGED << phase, total, received, delivered, refused >>

Lose ==
    /\ phase # "lost" /\ phase' = "lost" /\ outcome' = "other"
    /\ total' = 0 /\ received' = 0 /\ delivered' = 0 /\ refused' = FALSE

Next ==
    \/ \E n \in CodeSizes : Begin(n)
    \/ Receive \/ Deliver \/ Succeed \/ Fail \/ Forget \/ Lose

Spec == Init /\ [][Next]_vars
=============================================================================
