------------------------------- MODULE ReadFully -------------------------------
(***************************************************************************)
(* The loop of read_fully (src/wire.rs) over a reader that returns as few  *)
(* bytes as it likes, is interrupted, fails, or is at its end.             *)
(***************************************************************************)
EXTENDS Wire

CONSTANTS
    MaxRequired,    \* bound on the length of the output slice
    MaxSource       \* bound on the bytes the reader holds

ASSUME ReadFullyAssumption == MaxRequired \in Nat /\ MaxSource \in Nat

VARIABLES
    source,     \* the bytes the wrapped reader will deliver
    required,   \* the length of the output slice
    at,         \* the bytes the wrapped reader has delivered
    output,     \* the part of the output slice that is filled
    status      \* "running", or what the call returned: "Ok" or "Err"

loopVars == <<source, required, at, output, status>>

InitLoop ==
    /\ source \in {[i \in 1 .. n |-> i] : n \in 0 .. MaxSource}
    /\ required \in 0 .. MaxRequired
    /\ at = 0
    /\ output = <<>>
    /\ status = "running"

Looping == status = "running" /\ Len(output) < required

(* Mutant: a read that returns less than was asked for ends the loop. *)
status_after_short(read) == IF Len(output) + read = required THEN "running" ELSE "Ok"

(* The loop goes on after a read, however short. *)
status_after(read) == "running"

(* Each read fills the output behind the last. *)
output_after(read) == output \o Slice(source, at, read)

(* read returns Ok(read) with at least one byte. *)
read_some(read) ==
    /\ Looping
    /\ read \in 1 .. least(required - Len(output), Len(source) - at)
    /\ output' = output_after(read)
    /\ at' = at + read
    /\ status' = status_after(read)
    /\ UNCHANGED <<source, required>>

(* Mutant: Ok(0) is taken for a short read. *)
status_at_end_ignored == "running"

(* Ok(0) ends the loop. *)
status_at_end == "Ok"

read_nothing ==
    /\ Looping
    /\ at = Len(source)
    /\ status' = status_at_end
    /\ UNCHANGED <<source, required, at, output>>

(* An Interrupted error is retried. *)
read_interrupted ==
    /\ Looping
    /\ UNCHANGED loopVars

(* Any other error is returned. *)
read_failed ==
    /\ Looping
    /\ status' = "Err"
    /\ UNCHANGED <<source, required, at, output>>

(* The slice is full: the loop condition fails. *)
leave_loop ==
    /\ status = "running" /\ Len(output) = required
    /\ status' = "Ok"
    /\ UNCHANGED <<source, required, at, output>>

Answered ==
    \/ \E read \in 1 .. MaxRequired : read_some(read)
    \/ read_nothing
    \/ leave_loop

NextLoop == Answered \/ read_failed \/ read_interrupted

(* The loop runs, and the wrapped reader answers in the end: it is not     *)
(* interrupted for ever.  It need not fail.                                *)
SpecLoop == InitLoop /\ [][NextLoop]_loopVars /\ WF_loopVars(Answered)

-----------------------------------------------------------------------------
(* However the reader splits, interrupts or breaks off its answers, the    *)
(* call returns as the one-step read_fully does for some place of an       *)
(* error, with the reader's bytes in order: Ok with fewer bytes than       *)
(* required means the end of the source and never a short read.            *)
LoopIsOneStep ==
    /\ output = Slice(source, 0, Len(output))
    /\ status # "running" =>
          \E budget \in 0 .. MaxRequired :
              read_fully(source, 0, required, budget)
                  = [ok |-> status = "Ok", got |-> Len(output)]

(* The call returns, unless the wrapped reader is interrupted for ever. *)
ReadFullyReturns == <>(status # "running")

=============================================================================
