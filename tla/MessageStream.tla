---------------------------- MODULE MessageStream ----------------------------
(***************************************************************************)
(* What online encryption and decryption promise together: the receiver    *)
(* obtains the sender's segments in order, each once, and is told that the *)
(* message is complete only when the sender ended it and the receiver has  *)
(* all of it.  There is no transport in this specification, so nothing in  *)
(* it can be reordered, duplicated, replaced or cut short.                 *)
(***************************************************************************)
EXTENDS Naturals, Sequences

CONSTANT Payload      \* what one segment can carry

VARIABLES
    sent,        \* the segments the sender has sealed, in order
    ended,       \* the last of them was the final one
    delivered,   \* the segments the receiver has obtained, in order
    verdict      \* the answer of the receiver's finish, "none" before it

vars == <<sent, ended, delivered, verdict>>

Init == sent = <<>> /\ ended = FALSE /\ delivered = <<>> /\ verdict = "none"

Send(payload, last) ==
    /\ ~ended
    /\ sent' = Append(sent, payload)
    /\ ended' = last
    /\ UNCHANGED <<delivered, verdict>>

Deliver ==
    /\ verdict = "none"
    /\ Len(delivered) < Len(sent)
    /\ delivered' = Append(delivered, sent[Len(delivered) + 1])
    /\ UNCHANGED <<sent, ended, verdict>>

Finish ==
    /\ verdict = "none"
    /\ verdict' = IF ended /\ delivered = sent THEN "Ok" ELSE "Truncated"
    /\ UNCHANGED <<sent, ended, delivered>>

Next == (\E payload \in Payload, last \in BOOLEAN : Send(payload, last)) \/ Deliver \/ Finish

Spec == Init /\ [][Next]_vars

=============================================================================
