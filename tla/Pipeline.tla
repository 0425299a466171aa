------------------------------- MODULE Pipeline -------------------------------
(***************************************************************************)
(* An EncryptReader and a DecryptReader joined by a pipe: one thread reads *)
(* ciphertext and puts it into the pipe until the reader ends, fails or is *)
(* abandoned, and then closes the pipe; another decrypts what arrives to   *)
(* the end of the message and finishes.  A read from the pipe blocks until *)
(* the bytes are there or the pipe is closed.                              *)
(***************************************************************************)
EXTENDS EncryptReader

VARIABLES at, began, decrypting, delivered, drained, call, result, failing

consumerVars == <<at, began, decrypting, delivered, drained, call, result, failing>>
pipelineVars == <<encryptVars, consumerVars>>

(* The pipe is what the encrypting reader has emitted. *)
D == INSTANCE DecryptReader
       WITH source <- emitted, sent <- [bytes |-> plain, segments |-> <<>>], Lengths <- {0}

InitPipeline ==
    /\ Init
    /\ at = 0 /\ began = 0
    /\ decrypting = None
    /\ delivered = <<>> /\ drained = FALSE
    /\ call = "idle"
    /\ result = [op |-> "none", ok |-> TRUE, eof |-> FALSE]
    /\ failing = FALSE

(* The producing thread has closed the pipe. *)
closed == last.eof \/ ~last.ok \/ last.op = "drop"

(* One call of the producing thread, with what may go wrong in it. *)
produce(fault, budget) ==
    /\ ~closed
    /\ \/ fault \in {"none", "rng"} /\ new(fault)
       \/ \E r \in encrypting, n \in 1 .. MaxRead : read(r, n, fault, budget)
    /\ UNCHANGED consumerVars

abandon ==
    /\ ~closed
    /\ into_inner_unfinished
    /\ UNCHANGED consumerVars

(* A read of the consuming thread would return, whatever it asks for.  The *)
(* code wakes as soon as the bytes it asked for are there, which can be    *)
(* earlier; what it then reads is the same.                                *)
unblocked == closed \/ Len(emitted) - at >= SegmentLength

(* One call of the consuming thread, or one segment of its finish. *)
consume(fault, budget) ==
    /\ unblocked
    /\ UNCHANGED encryptVars
    /\ \/ D!new(None, fault, budget)
       \/ /\ call = "idle" /\ result.ok /\ ~result.eof
          /\ \E r \in decrypting, n \in 1 .. MaxRead : D!read(r, n, fault, budget)
       \/ /\ call = "idle" /\ result.eof
          /\ \E r \in decrypting : D!finish_begin(r, "try_finish")
       \/ D!finishing(fault, budget)

NextPipeline ==
    \/ \E trouble \in Troubles : produce(trouble.fault, trouble.budget)
    \/ abandon
    \/ \E trouble \in D!Troubles : consume(trouble.fault, trouble.budget)

(* Both threads run, and a call that can succeed is not put off for ever:  *)
(* neither failing nor abandoning is required.  No budget of a whole       *)
(* segment is short.                                                       *)
SpecPipeline ==
    /\ InitPipeline /\ [][NextPipeline]_pipelineVars
    /\ WF_pipelineVars(produce("none", SegmentLength))
    /\ WF_pipelineVars(consume("none", SegmentLength))

-----------------------------------------------------------------------------
stream_complete == \E r \in decrypting : r.status = "StreamComplete"

(* The consumer's finish succeeds only when it has every byte of the       *)
(* producer's source: an encrypting reader that failed or was abandoned    *)
(* half way leaves nothing that passes for a complete message.             *)
CompleteMeansAll ==
    stream_complete => delivered = plain /\ closed /\ at = Len(emitted)

(* Without an error, without abandoning, and for a message that has a      *)
(* layout, the transfer completes: neither side waits for ever for the     *)
(* other, and neither refuses what the other makes.                        *)
TransferCompletes ==
    <>(\/ stream_complete
       \/ broken \/ failing \/ last.op = "drop"
       \/ ~plaintext_layout(SegmentLength, Len(plain)).ok)

=============================================================================
