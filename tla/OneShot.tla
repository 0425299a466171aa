------------------------------- MODULE OneShot -------------------------------
(***************************************************************************)
(* The one-shot functions encrypt, decrypt and decrypt_with_parameters     *)
(* (src/online.rs): loops over the segments of a slice, one step each.     *)
(*                                                                         *)
(* A caller encrypts a message; storage makes of the result what it can;   *)
(* a caller decrypts that.  The backend may fail in any step.              *)
(***************************************************************************)
EXTENDS Ciphertexts

VARIABLES
    message,     \* the plaintext given to encrypt
    phase,       \* "start", "encrypting", "encrypted", "decrypting" or "done"
    succeeded,   \* whether the call that ended last returned Ok
    encryptor,   \* Option<Encryptor> in encrypt_body
    layout,      \* the layout of the message in encrypt_body
    sealed,      \* the segments behind the header in encrypt's result
    given,       \* the bytes given to decrypt
    body,        \* where the unread rest of its body starts
    decryptor,   \* Option of decrypt_body's decryptor and its context
    plaintext,   \* what decrypt_body has accumulated
    faulted      \* whether the backend has failed, or other parameters were required

oneShotVars == <<message, phase, succeeded, encryptor, layout, sealed, given, body, decryptor,
                 plaintext, faulted>>

encVars == <<message, encryptor, layout, sealed>>
decVars == <<given, body, decryptor, plaintext>>

InitOneShot ==
    /\ message \in {[i \in 1 .. n |-> i] : n \in Lengths}
    /\ phase = "start" /\ succeeded = TRUE
    /\ encryptor = None /\ layout = None /\ sealed = <<>>
    /\ given = <<>> /\ body = 0 /\ decryptor = None /\ plaintext = <<>>
    /\ faulted = FALSE

(* encrypt, up to the loop: Encryptor::new, then the layout. *)
encrypt(fault) ==
    LET l == plaintext_layout(SegmentLength, Len(message))
    IN  /\ phase = "start"
        /\ succeeded' = (fault = "none" /\ l.ok)
        /\ phase' = IF succeeded' THEN "encrypting" ELSE "done"
        /\ encryptor' = IF succeeded' THEN Some(Encryptor_new(contexts.ours)) ELSE None
        /\ layout' = IF succeeded' THEN Some(l.value) ELSE None
        /\ faulted' = (fault # "none")
        /\ UNCHANGED <<message, sealed, decVars>>

(* Mutant: a chunk that fits a segment is taken for the last. *)
encrypt_chunk_by_length(e, segment, chunk, fault) ==
    IF Len(chunk) <= capacity
    THEN encrypt_final(e, contexts.ours, plaintext_of(chunk), TRUE, fault, e.state.nonces.batch + 1)
    ELSE encrypt_non_final(e, contexts.ours, plaintext_of(chunk), TRUE, fault, e.state.nonces.batch + 1)

encrypt_chunk(e, segment, chunk, fault) ==
    IF segment.kind = "Final"
    THEN encrypt_final(e, contexts.ours, plaintext_of(chunk), TRUE, fault, e.state.nonces.batch + 1)
    ELSE encrypt_non_final(e, contexts.ours, plaintext_of(chunk), TRUE, fault, e.state.nonces.batch + 1)

(* Mutant: every chunk is cut from the start of the message. *)
chunk_start_fixed(segment) == 0

chunk_start(segment) == segment.plaintext_offset

(* One round of encrypt_body's loop. *)
encrypt_body_segment(fault) ==
    /\ phase = "encrypting"
    /\ \E l \in layout, e \in encryptor : \E segment \in segment_for_position(l, Len(sealed)) :
          LET chunk == Slice(message, chunk_start(segment), segment.plaintext_length)
              r == encrypt_chunk(e, segment, chunk, fault)
          IN  /\ succeeded' = (r.segment # None)
              /\ encryptor' = IF segment.kind = "Final" THEN None ELSE r.encryptor
              /\ sealed' = IF succeeded' THEN Append(sealed, CHOOSE s \in r.segment : TRUE) ELSE sealed
    /\ phase' = IF succeeded' THEN phase ELSE "done"
    /\ faulted' = (faulted \/ fault # "none")
    /\ UNCHANGED <<message, layout, decVars>>

encrypt_returns ==
    /\ phase = "encrypting"
    /\ \E l \in layout : Len(sealed) = l.segment_count
    /\ phase' = "encrypted"
    /\ UNCHANGED <<succeeded, faulted, encVars, decVars>>

encrypted == [bytes |-> message, segments |-> sealed]

(* decrypt and decrypt_with_parameters, up to the loop: split_header, then *)
(* Decryptor::new.                                                         *)
decrypt(bytes, parameters, fault) ==
    LET header == header_in(Slice(bytes, 0, HEADER_LENGTH))
        ctx == IF Len(bytes) < HEADER_LENGTH \/ fault # "none" THEN None
               ELSE opened_context(key, aad, parameters, header)
    IN  /\ phase = "encrypted"
        /\ given' = bytes /\ body' = HEADER_LENGTH /\ plaintext' = <<>>
        /\ decryptor' = {[context |-> c, decryptor |-> Decryptor_new(c)] : c \in ctx}
        /\ succeeded' = (ctx # None)
        /\ phase' = IF succeeded' THEN "decrypting" ELSE "done"
        /\ faulted' = (fault # "none" \/ parameters \notin {None, Some(SegmentLength)})
        /\ UNCHANGED encVars

rest == Len(given) - body

(* The framing that the next bytes of the body declare. *)
next_framing(p) ==
    IF rest < SEGMENT_PREFIX_LENGTH THEN Err("InvalidCiphertextLength")
    ELSE decode_framing(p, prefix_in(Slice(given, body, SEGMENT_PREFIX_LENGTH)))

(* Mutant: a segment may be longer than what is left. *)
fits_body_unchecked(f) == f.kind = "Final" => f.ciphertext_length = rest

(* The segment is all there, and a final one is all there is. *)
fits_body(f) ==
    /\ f.ciphertext_length <= rest
    /\ f.kind = "Final" => f.ciphertext_length = rest

(* One round of decrypt_body's loop. *)
decrypt_body_segment(fault) ==
    /\ phase = "decrypting" /\ rest > 0
    /\ \E d \in decryptor :
          LET f == next_framing(d.context.parameters)
              accepted == f.ok /\ fits_body(f.value)
              length == IF accepted THEN f.value.ciphertext_length ELSE 0
              segment == segment_in(Slice(given, body, least(length, rest)))
              r == decrypt_segment(d.decryptor, d.context, segment, TRUE, fault)
              zeros == [i \in 1 .. length - SEGMENT_OVERHEAD |-> 0]
          IN  /\ succeeded' = (accepted /\ r.plaintext # None)
              /\ plaintext' = IF ~accepted THEN plaintext
                              ELSE plaintext \o (IF succeeded' THEN (CHOOSE p \in r.plaintext : TRUE).data
                                                        ELSE zeros)
              /\ decryptor' = IF accepted THEN Some([d EXCEPT !.decryptor = r.decryptor])
                                          ELSE decryptor
              /\ body' = IF succeeded' THEN body + length ELSE body
    /\ phase' = IF succeeded' THEN phase ELSE "done"
    /\ faulted' = (faulted \/ fault # "none")
    /\ UNCHANGED <<given, encVars>>

(* Mutant: an empty body is the end of the message. *)
message_ended_assumed(d) == TRUE

message_ended(d) == finish(d) = "Ok"

(* The body is empty: finish. *)
decrypt_returns ==
    /\ phase = "decrypting" /\ rest = 0
    /\ \E d \in decryptor : succeeded' = message_ended(d.decryptor)
    /\ phase' = "done"
    /\ UNCHANGED <<faulted, encVars, decVars>>

DecryptFaults == {"none", "kdf", "aead"}

NextOneShot ==
    \/ \E fault \in {"none", "rng", "kdf"} : encrypt(fault)
    \/ \E fault \in Faults : encrypt_body_segment(fault)
    \/ encrypt_returns
    \/ \E bytes \in Held(encrypted), fault \in {"none", "kdf"},
          parameters \in {None, Some(SegmentLength), Some(SegmentLength + 1)} :
          decrypt(bytes, parameters, fault)
    \/ \E fault \in DecryptFaults : decrypt_body_segment(fault)
    \/ decrypt_returns

SpecOneShot == InitOneShot /\ [][NextOneShot]_oneShotVars

-----------------------------------------------------------------------------
(* encrypt's result decrypts: it is the message of its layout, chunk by    *)
(* chunk, and ends with the only final segment, unless the backend failed  *)
(* or the message has no layout.  While a segment of the layout is left    *)
(* encrypt_body has its encryptor, so that neither expect can panic.       *)
EncryptsTheWholeMessage ==
    /\ phase = "encrypting" =>
          \A l \in layout : encryptor = None <=> Len(sealed) = l.segment_count
    /\ phase = "encrypted" =>
          /\ Len(intact(encrypted)) = plaintext_layout(SegmentLength, Len(message)).value.ciphertext_length
          /\ \A i \in DOMAIN sealed :
                /\ sealed[i].plaintext.data =
                      Slice(message, (i - 1) * capacity, sealed[i].plaintext.length)
                /\ sealed[i].position = i - 1
                /\ sealed[i].kind = "Final" <=> i = Len(sealed)
    /\ phase = "done" /\ body = 0 /\ ~succeeded /\ ~faulted =>
          ~plaintext_layout(SegmentLength, Len(message)).ok

(* decrypt returns the message for the exact ciphertext and an error for   *)
(* everything else: cut at any byte, extended, spliced or altered, though  *)
(* the body is split by prefixes that are not authenticated when read.     *)
DecryptsExactly ==
    phase = "done" /\ body > 0 =>
        /\ succeeded => given = intact(encrypted) /\ plaintext = message
        /\ ~succeeded /\ ~faulted => given # intact(encrypted)

(* decrypt_body's comment: the reserved capacity covers every segment, so  *)
(* the vector never reallocates and the guard wipes all of it, whatever    *)
(* lengths the prefixes declare.                                           *)
NeverReallocates == decryptor # None => Len(plaintext) <= Len(given) - HEADER_LENGTH

=============================================================================
