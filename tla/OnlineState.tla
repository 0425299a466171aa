----------------------------- MODULE OnlineState -----------------------------
(***************************************************************************)
(* The sequential Encryptor and Decryptor (src/online.rs) as values, with  *)
(* their methods as operators: each adds a SegmentCounter to the segment   *)
(* operations of SegmentCrypto and advances it only when they succeed.     *)
(***************************************************************************)
EXTENDS SegmentCrypto

(* SegmentCounter::new *)
counter_new == [next |-> 0, closed |-> FALSE]

(* Mutant: the last position is not kept for the final segment. *)
position_for_ok_greedy(counter, kind) ==
    ~counter.closed /\ counter.next < AEAD_MAX_SEGMENTS

(* SegmentCounter::position_for returns Ok(next). *)
position_for_ok(counter, kind) ==
    /\ ~counter.closed
    /\ IF kind = "NonFinal" THEN counter.next # AEAD_MAX_SEGMENTS - 1
                            ELSE counter.next < AEAD_MAX_SEGMENTS

(* SegmentCounter::complete *)
complete(counter, kind) ==
    IF kind = "NonFinal" THEN [counter EXCEPT !.next = @ + 1]
                         ELSE [counter EXCEPT !.closed = TRUE]

-----------------------------------------------------------------------------
(* An Encryptor is [state, counter]; its context never changes. *)

Encryptor_new(context) ==
    [state |-> [keys |-> KeyCache_new(context), nonces |-> NonceGenerator_new],
     counter |-> counter_new]

(* Mutant: the position is taken even if the segment could not be sealed. *)
counter_after_attempt(counter, kind, ok) == complete(counter, kind)

(* advance completes the position only after the operation has succeeded. *)
counter_after(counter, kind, ok) == IF ok THEN complete(counter, kind) ELSE counter

(* The encryptor a call leaves behind, the segment it returned, and        *)
(* whether it drew a batch of nonces.                                      *)
EncryptorResult(encryptor, segment, drew) ==
    [encryptor |-> encryptor, segment |-> segment, drew |-> drew]

(* Encryptor::advance around the encryption of a non-final segment. *)
encrypt_non_final(e, context, plaintext, room, fault, batch) ==
    LET r == encrypt_segment(e.state, context, plaintext, e.counter.next, "NonFinal",
                             room, fault, batch)
    IN  IF ~position_for_ok(e.counter, "NonFinal")
        THEN EncryptorResult(Some(e), None, FALSE)
        ELSE EncryptorResult(
                Some([state |-> r.state,
                      counter |-> counter_after(e.counter, "NonFinal", r.ok)]),
                IF r.ok THEN Some(r.segment) ELSE None,
                r.state.nonces.batch = batch)

(* Encryptor::finalize: success consumes the encryptor, failure returns it *)
(* inside a FinalEncryptError.                                             *)
encrypt_final(e, context, plaintext, room, fault, batch) ==
    LET r == encrypt_segment(e.state, context, plaintext, e.counter.next, "Final",
                             room, fault, batch)
    IN  IF ~position_for_ok(e.counter, "Final")
        THEN EncryptorResult(Some(e), None, FALSE)
        ELSE IF r.ok
        THEN EncryptorResult(None, Some(r.segment), r.state.nonces.batch = batch)
        ELSE EncryptorResult(Some([e EXCEPT !.state = r.state]), None,
                             r.state.nonces.batch = batch)

-----------------------------------------------------------------------------
(* A Decryptor is [keys, counter]. *)

Decryptor_new(context) == [keys |-> KeyCache_new(context), counter |-> counter_new]

(* Decryptor::framing: the prefix selects the kind. *)
framing(parameters, segment) ==
    IF segment.length < SEGMENT_PREFIX_LENGTH
    THEN Err("InvalidCiphertextLength")
    ELSE decode_framing(parameters, segment.prefix)

DecryptorResult(decryptor, plaintext) == [decryptor |-> decryptor, plaintext |-> plaintext]

(* decrypt_segment and decrypt_segment_into: framing, then advance. *)
decrypt_segment(d, context, segment, room, fault) ==
    LET f == framing(context.parameters, segment)
        r == decrypt_segment_framed(d.keys, context, segment, d.counter.next,
                                    f.value, room, fault)
    IN  IF ~f.ok
        THEN DecryptorResult(d, None)
        ELSE IF ~position_for_ok(d.counter, f.value.kind)
        THEN DecryptorResult(d, None)
        ELSE DecryptorResult(
                [keys |-> r.state, counter |-> counter_after(d.counter, f.value.kind, r.ok)],
                IF r.ok THEN Some(r.plaintext) ELSE None)

(* Decryptor::finish *)
finish(d) == IF d.counter.closed THEN "Ok" ELSE "Truncated"

=============================================================================
