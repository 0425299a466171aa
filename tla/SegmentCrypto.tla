---------------------------- MODULE SegmentCrypto ----------------------------
(***************************************************************************)
(* One segment's encryption and decryption, and the state they keep: the   *)
(* key cache and the nonce generator (src/state.rs).                       *)
(*                                                                         *)
(* The cryptography is ideal.  The KDF maps distinct inputs to distinct    *)
(* keys, so a key is the tuple it was derived from; the AEAD opens a       *)
(* segment only under the key and the associated data that sealed it; a    *)
(* batch of random bytes differs from every other batch, so a nonce is     *)
(* <<batch, index>>.  Each external call may fail: an operation takes the  *)
(* fault, if any, that the backend raises during it.                       *)
(***************************************************************************)
EXTENDS Parameters

CONSTANT NONCE_BATCH_SIZE    \* 256

ASSUME NonceAssumption == NONCE_BATCH_SIZE \in Nat \ {0}

Faults == {"none", "rng", "kdf", "aead"}

-----------------------------------------------------------------------------
(* Headers and message contexts. *)

(* derive_header_tag and derive_message_key take the same four inputs. *)
derive_message(key, parameters, iv, aad) == <<key, parameters, iv, aad>>

Context(key, parameters, iv, aad) ==
    [parameters |-> parameters, message |-> derive_message(key, parameters, iv, aad)]

Header(key, parameters, iv, aad) ==
    [parameters |-> parameters, iv |-> iv, tag |-> derive_message(key, parameters, iv, aad)]

(* Mutant: the tag of the header is not compared. *)
accepts_header_untagged(key, aad, parameters, header) == header.parameters = parameters

(* The checks of start_decryption_with_provider. *)
accepts_header(key, aad, parameters, header) ==
    /\ header.parameters = parameters
    /\ header.tag = derive_message(key, parameters, header.iv, aad)

derive_segment_key(context, masked) == <<context.message, masked>>

-----------------------------------------------------------------------------
(* KeyCache: Option<CachedKey>. *)

derive(context, masked) ==
    [masked_position |-> masked, key |-> derive_segment_key(context, masked)]

KeyCache_new(context) == Some(derive(context, 0))

KeyCache_empty == None

(* Mutant: the cached key is used for every position. *)
is_cached_any(keys, position) == keys # None

is_cached(keys, position) ==
    \E cached \in keys : cached.masked_position = masked_position(position)

(* Mutant: the cache is relabelled before the derivation that may fail. *)
key_cache_after_relabelled(keys, context, position, fault) ==
    IF position >= AEAD_MAX_SEGMENTS \/ is_cached(keys, position) THEN keys
    ELSE IF fault = "kdf"
         THEN {[cached EXCEPT !.masked_position = masked_position(position)] : cached \in keys}
         ELSE Some(derive(context, masked_position(position)))

(* What key_for_position leaves in the cache. *)
key_cache_after(keys, context, position, fault) ==
    IF position >= AEAD_MAX_SEGMENTS \/ is_cached(keys, position) \/ fault = "kdf"
    THEN keys
    ELSE Some(derive(context, masked_position(position)))

key_for_position_ok(keys, position, fault) ==
    /\ position < AEAD_MAX_SEGMENTS
    /\ is_cached(keys, position) \/ fault # "kdf"

(* The key that key_for_position returns when it succeeds. *)
key_of(keys) == (CHOOSE cached \in keys : TRUE).key

-----------------------------------------------------------------------------
(* NonceGenerator: the batch drawn last and the index of its next nonce. *)

NonceGenerator_new == [batch |-> 0, next |-> NONCE_BATCH_SIZE]

needs_fill(nonces) == nonces.next = NONCE_BATCH_SIZE

(* Mutant: a fill that fails has already rewound the batch. *)
next_nonce_rewound(nonces, batch, fault) ==
    IF ~needs_fill(nonces) THEN [nonces EXCEPT !.next = @ + 1]
    ELSE IF fault = "rng" THEN [nonces EXCEPT !.next = 0]
    ELSE [batch |-> batch, next |-> 1]

(* The generator after next(), given the batch that a fill would draw. *)
next_nonce(nonces, batch, fault) ==
    IF ~needs_fill(nonces) THEN [nonces EXCEPT !.next = @ + 1]
    ELSE IF fault = "rng" THEN nonces
    ELSE [batch |-> batch, next |-> 1]

next_nonce_ok(nonces, fault) == ~needs_fill(nonces) \/ fault # "rng"

taken_nonce(nonces) == <<nonces.batch, nonces.next - 1>>

-----------------------------------------------------------------------------
(* Segments.  A sealed segment carries what the AEAD binds (key, nonce,    *)
(* position, kind, plaintext) and what the transport can change (prefix,   *)
(* length, and any other byte: damaged).                                   *)

seal(key, nonce, position, kind, plaintext) ==
    [prefix |-> segment_prefix(kind, SEGMENT_OVERHEAD + plaintext.length),
     length |-> SEGMENT_OVERHEAD + plaintext.length,
     damaged |-> FALSE,
     key |-> key, nonce |-> nonce, position |-> position, kind |-> kind,
     plaintext |-> plaintext]

(* Mutant: the position is not bound by the associated data. *)
opens_anywhere(key, segment, position, kind) ==
    ~segment.damaged /\ segment.key = key /\ segment.kind = kind

(* The AEAD accepts the segment under this key and segment_aad. *)
opens(key, segment, position, kind) ==
    /\ ~segment.damaged
    /\ segment.key = key
    /\ segment.position = position
    /\ segment.kind = kind

(* What a transport may make of a segment: any damage, another prefix, a   *)
(* truncation or an extension.                                             *)
Altered(segment, lengths) ==
    {[segment EXCEPT !.damaged = TRUE]}
        \cup {[segment EXCEPT !.prefix = l] : l \in lengths \cup {U32_MAX}}
        \cup {[segment EXCEPT !.length = l, !.damaged = TRUE] : l \in lengths}

-----------------------------------------------------------------------------
(* Encryption of one segment.  An EncryptionState is [keys, nonces]; the   *)
(* result says whether the call succeeded, with which state and segment.   *)

(* ciphertext_segment_size is Ok. *)
is_payload_length(p, length, kind) ==
    IF kind = "Final" THEN length <= plaintext_segment_length(p)
                      ELSE length = plaintext_segment_length(p)

Failed(state, error) == [ok |-> FALSE, state |-> state, error |-> error]

(* begin_segment_encryption and the seal: the length checks touch nothing, *)
(* a failed fill consumes no nonce, a failed derivation or seal consumes   *)
(* the nonce it took.                                                      *)
encrypt_segment(state, context, plaintext, position, kind, room, fault, batch) ==
    LET nonces == next_nonce(state.nonces, batch, fault)
        keys == key_cache_after(state.keys, context, position, fault)
    IN  IF ~is_payload_length(context.parameters, plaintext.length, kind)
        THEN Failed(state, "InvalidPlaintextLength")
        ELSE IF ~room THEN Failed(state, "OutputTooSmall")
        ELSE IF ~next_nonce_ok(state.nonces, fault)
        THEN Failed([state EXCEPT !.nonces = nonces], "RngFailure")
        ELSE IF ~key_for_position_ok(state.keys, position, fault)
        THEN Failed([keys |-> keys, nonces |-> nonces],
                    IF position >= AEAD_MAX_SEGMENTS THEN "SegmentLimit" ELSE "CryptoFailure")
        ELSE IF fault = "aead"
        THEN Failed([keys |-> keys, nonces |-> nonces], "CryptoFailure")
        ELSE [ok |-> TRUE, state |-> [keys |-> keys, nonces |-> nonces],
              segment |-> seal(key_of(keys), taken_nonce(nonces), position, kind, plaintext)]

-----------------------------------------------------------------------------
(* Decryption of one segment.  A DecryptionState is its key cache. *)

(* Mutant: the declared length of a final segment is not compared. *)
validate_segment_unframed(p, segment, kind) ==
    IF kind = "Final" THEN validate_ciphertext_segment_length(p, segment.length)
                      ELSE segment.length = p /\ segment.prefix = U32_MAX

(* validate_segment: the caller names the kind, the prefix must agree. *)
validate_segment(p, segment, kind) ==
    IF kind = "Final"
    THEN validate_ciphertext_segment_length(p, segment.length)
            /\ segment.prefix = segment.length
    ELSE segment.length = p /\ segment.prefix = U32_MAX

(* decrypt_segment_into_inner and open_segment_in_place, once the framing  *)
(* has been accepted.                                                      *)
open_segment(keys, context, segment, position, kind, room, fault) ==
    LET found == key_cache_after(keys, context, position, fault)
    IN  IF ~room THEN Failed(keys, "OutputTooSmall")
        ELSE IF ~key_for_position_ok(keys, position, fault)
        THEN Failed(found, IF position >= AEAD_MAX_SEGMENTS THEN "SegmentLimit"
                                                            ELSE "CryptoFailure")
        ELSE IF fault = "aead" THEN Failed(found, "CryptoFailure")
        ELSE IF ~opens(key_of(found), segment, position, kind)
        THEN Failed(found, "AuthenticationFailed")
        ELSE [ok |-> TRUE, state |-> found, plaintext |-> segment.plaintext]

(* decrypt_segment_*_at: validate_segment, then open. *)
decrypt_segment_at(keys, context, segment, position, kind, room, fault) ==
    IF validate_segment(context.parameters, segment, kind)
    THEN open_segment(keys, context, segment, position, kind, room, fault)
    ELSE Failed(keys, "InvalidSegment")

(* decrypt_segment_*_framed: the prefix was decoded already, and only the  *)
(* length is compared.                                                     *)
decrypt_segment_framed(keys, context, segment, position, framing, room, fault) ==
    IF segment.length = framing.ciphertext_length
    THEN open_segment(keys, context, segment, position, framing.kind, room, fault)
    ELSE Failed(keys, "InvalidCiphertextLength")

=============================================================================
