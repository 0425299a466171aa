---------------------------- MODULE SegmentBuffer ----------------------------
(***************************************************************************)
(* The reusable segment buffer (src/buffer.rs) as a value.  Its storage    *)
(* holds a payload (bytes at the payload offset) or a segment; zeroed      *)
(* storage holds neither.  The bytes of a payload are a sequence, and the  *)
(* plaintext they form is [length, data].                                  *)
(***************************************************************************)
EXTENDS OnlineState, Sequences

buffer_new(p) == [parameters |-> p, state |-> "Empty", payload |-> <<>>, segment |-> None]

plaintext_of(bytes) == [length |-> Len(bytes), data |-> bytes]

(* prepare_plaintext and the caller's filling of the returned slice. *)
prepare_plaintext_ok(buffer, length) == length <= plaintext_segment_length(buffer.parameters)

prepare_plaintext(buffer, bytes) ==
    [buffer EXCEPT !.state = "Plaintext", !.payload = bytes, !.segment = None]

(* prepare_ciphertext and the caller's filling of the returned slice. *)
prepare_ciphertext_ok(buffer, length) ==
    validate_ciphertext_segment_length(buffer.parameters, length)

prepare_ciphertext(buffer, segment) ==
    [buffer EXCEPT !.state = "Ciphertext", !.payload = <<>>, !.segment = Some(segment)]

clear(buffer) == buffer_new(buffer.parameters)

holds_plaintext(buffer) == buffer.state = "Plaintext"
holds_ciphertext(buffer) == buffer.state = "Ciphertext"

(* How much of an input extend_plaintext copies, and the buffer after it. *)
extend_room(buffer) ==
    plaintext_segment_length(buffer.parameters)
        - (IF holds_plaintext(buffer) THEN Len(buffer.payload) ELSE 0)

(* Mutant: a buffer that holds a segment is extended, not restarted. *)
extend_plaintext_always(buffer, bytes) ==
    [buffer EXCEPT !.payload = @ \o bytes, !.segment = None]

extend_plaintext(buffer, bytes) ==
    prepare_plaintext(buffer, IF holds_plaintext(buffer) THEN buffer.payload \o bytes ELSE bytes)

(* Mutant: the state still says plaintext. *)
mark_ciphertext_unmarked(buffer, segment) ==
    [buffer EXCEPT !.payload = <<>>, !.segment = Some(segment)]

(* The segment replaces the payload it was sealed from in place. *)
mark_ciphertext(buffer, segment) == prepare_ciphertext(buffer, segment)

(* truncate_plaintext of a buffer that holds at least that much plaintext. *)
truncate_plaintext(buffer, length) == [buffer EXCEPT !.payload = SubSeq(@, 1, length)]

-----------------------------------------------------------------------------
(* In-place encryption: EncryptionState::encrypt_segment_in_place_at under *)
(* the encryptor's counter.                                                *)

(* What the encryptor's call returned, and the buffer after it. *)
InPlaceResult(call, buffer) == [call |-> call, buffer |-> buffer, ok |-> call.segment # None]

(* The in-place operation refuses the buffer before it does anything. *)
refuses(buffer, context) ==
    buffer.parameters # context.parameters \/ ~holds_plaintext(buffer)

(* Mutant: a payload that could not be encrypted stays in the buffer. *)
after_encryption_kept(buffer, segment) ==
    IF segment = None THEN buffer ELSE mark_ciphertext(buffer, CHOOSE s \in segment : TRUE)

(* Success marks the segment; failure wipes the payload. *)
after_encryption(buffer, segment) ==
    IF segment = None THEN clear(buffer)
                      ELSE mark_ciphertext(buffer, CHOOSE s \in segment : TRUE)

encrypt_non_final_in_place(e, context, buffer, fault, batch) ==
    LET r == encrypt_non_final(e, context, plaintext_of(buffer.payload), TRUE, fault, batch)
    IN  IF ~position_for_ok(e.counter, "NonFinal") \/ refuses(buffer, context)
        THEN InPlaceResult(EncryptorResult(Some(e), None, FALSE), buffer)
        ELSE InPlaceResult(r, after_encryption(buffer, r.segment))

encrypt_final_in_place(e, context, buffer, fault, batch) ==
    LET r == encrypt_final(e, context, plaintext_of(buffer.payload), TRUE, fault, batch)
    IN  IF ~position_for_ok(e.counter, "Final") \/ refuses(buffer, context)
        THEN InPlaceResult(EncryptorResult(Some(e), None, FALSE), buffer)
        ELSE InPlaceResult(r, after_encryption(buffer, r.segment))

-----------------------------------------------------------------------------
(* In-place decryption runs inside decrypt_with, which wipes the buffer    *)
(* whatever went wrong, the buffer's own state included.                   *)

(* Mutant: a buffer refused for its state is left as it is. *)
decrypt_with_lenient(buffer, plaintext) ==
    IF plaintext = None /\ ~holds_ciphertext(buffer) THEN buffer
    ELSE IF plaintext = None THEN clear(buffer)
    ELSE prepare_plaintext(buffer, (CHOOSE p \in plaintext : TRUE).data)

decrypt_with(buffer, plaintext) ==
    IF plaintext = None THEN clear(buffer)
    ELSE prepare_plaintext(buffer, (CHOOSE p \in plaintext : TRUE).data)

(* Decryptor::decrypt_segment_in_place *)
decrypt_in_place(d, context, buffer, fault) ==
    LET r == decrypt_segment(d, context, CHOOSE s \in buffer.segment : TRUE, TRUE, fault)
    IN  IF ~holds_ciphertext(buffer) \/ buffer.parameters # context.parameters
        THEN [call |-> DecryptorResult(d, None), buffer |-> decrypt_with(buffer, None)]
        ELSE [call |-> r, buffer |-> decrypt_with(buffer, r.plaintext)]

=============================================================================
