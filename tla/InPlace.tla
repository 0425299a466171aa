------------------------------- MODULE InPlace -------------------------------
(***************************************************************************)
(* Online encryption and decryption with, besides the copying calls, the   *)
(* in-place ones on a caller-owned SegmentBuffer (src/online.rs,           *)
(* src/buffer.rs).  The caller prepares the buffer, or fails to, in any    *)
(* order with the calls, and the buffer may be of another parameter set.   *)
(***************************************************************************)
EXTENDS Online, SegmentBuffer

CONSTANT OtherLength      \* another parameter set

ASSUME InPlaceAssumption == OtherLength \in VALID_SEGMENT_LENGTHS

VARIABLES
    buffer,     \* the caller's SegmentBuffer
    last        \* the last call and, for an in-place one, whether it succeeded

varsInPlace == <<vars, buffer, last>>

InitInPlace ==
    /\ Init
    /\ buffer \in {buffer_new(SegmentLength), buffer_new(OtherLength)}
    /\ last = [op |-> "none", ok |-> TRUE]

(* SegmentBuffer::prepare_plaintext, filled by the caller. *)
prepare(plaintext) ==
    /\ prepare_plaintext_ok(buffer, plaintext.length)
    /\ buffer' = prepare_plaintext(buffer, plaintext.data)
    /\ last' = [op |-> "prepare", ok |-> TRUE]
    /\ UNCHANGED vars

(* SegmentBuffer::prepare_ciphertext, filled by the caller. *)
load(segment) ==
    /\ prepare_ciphertext_ok(buffer, segment.length)
    /\ buffer' = prepare_ciphertext(buffer, segment)
    /\ last' = [op |-> "prepare", ok |-> TRUE]
    /\ UNCHANGED vars

clear_buffer ==
    /\ buffer' = clear(buffer)
    /\ last' = [op |-> "clear", ok |-> TRUE]
    /\ UNCHANGED vars

(* encrypt_non_final_segment_in_place *)
encrypt_non_final_segment_in_place(fault) ==
    \E e \in encryptor :
        LET r == encrypt_non_final_in_place(e, context, buffer, fault, drawn + 1)
        IN  /\ Encrypted(r.call, plaintext_of(buffer.payload))
            /\ buffer' = r.buffer
            /\ last' = [op |-> "encrypt", ok |-> r.ok]

(* encrypt_final_segment_in_place *)
encrypt_final_segment_in_place(fault) ==
    \E e \in encryptor :
        LET r == encrypt_final_in_place(e, context, buffer, fault, drawn + 1)
        IN  /\ Encrypted(r.call, plaintext_of(buffer.payload))
            /\ buffer' = r.buffer
            /\ last' = [op |-> "encrypt", ok |-> r.ok]

(* Decryptor::decrypt_segment_in_place *)
decrypt_segment_in_place(fault) ==
    \E d \in decryptor :
        LET r == decrypt_in_place(d, context, buffer, fault)
        IN  /\ Decrypted(r.call)
            /\ buffer' = r.buffer
            /\ last' = [op |-> "decrypt", ok |-> r.call.plaintext # None]

NextInPlace ==
    \/ Next /\ UNCHANGED buffer /\ last' = [op |-> "copying", ok |-> TRUE]
    \/ \E plaintext \in Payloads : prepare(plaintext)
    \/ \E segment \in Arriving : load(segment)
    \/ clear_buffer
    \/ \E fault \in Faults :
          \/ encrypt_non_final_segment_in_place(fault)
          \/ encrypt_final_segment_in_place(fault)
          \/ decrypt_segment_in_place(fault)

SpecInPlace == InitInPlace /\ [][NextInPlace]_varsInPlace

-----------------------------------------------------------------------------
(* In-place calls are all or nothing.  After a decryption the buffer holds *)
(* the plaintext just delivered or, after any failure, nothing at all.  A  *)
(* payload survives a failed encryption only if the call refused the       *)
(* buffer and consumed nothing, neither a position nor a nonce.            *)
CallsAreAllOrNothing ==
    [][/\ last'.op = "decrypt" =>
             IF delivered' # delivered
             THEN /\ holds_plaintext(buffer')
                  /\ plaintext_of(buffer'.payload) = delivered'[Len(delivered')]
             ELSE buffer' = buffer_new(buffer.parameters)
       /\ last'.op = "encrypt" /\ ~last'.ok =>
             \/ buffer' = buffer_new(buffer.parameters)
             \/ buffer' = buffer /\ encryptor' = encryptor]_varsInPlace

=============================================================================
