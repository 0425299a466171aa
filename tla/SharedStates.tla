----------------------------- MODULE SharedStates -----------------------------
(***************************************************************************)
(* Random-access encryption and decryption of one message by concurrent    *)
(* tasks (src/state.rs).  start_encryption returns one EncryptionState;    *)
(* into_shared keeps only its immutable message context, from which each   *)
(* task forks a state with its own key cache and nonce generator.          *)
(* Decryption has the same shape without nonces.  A task owns its state    *)
(* exclusively, so one call is one step and tasks interleave between       *)
(* calls.  The callers keep the contract of EncryptionState: no position   *)
(* is encrypted twice.                                                     *)
(*                                                                         *)
(* Calls rejected before they change anything are stuttering steps.        *)
(***************************************************************************)
EXTENDS SegmentCrypto, FiniteSets

CONSTANTS
    EncTasks, DecTasks, \* the tasks that fork encryption and decryption states
    Main,               \* the task that calls start_encryption / start_decryption
    SegmentLength,      \* the message's parameter set
    OtherLength,        \* another parameter set
    PlaintextLength,    \* of the message
    MaxBatches          \* bound on the nonce batches drawn

ASSUME SharedStatesAssumption ==
    /\ Main \in EncTasks \cap DecTasks
    /\ SegmentLength \in VALID_SEGMENT_LENGTHS
    /\ OtherLength \in VALID_SEGMENT_LENGTHS
    /\ PlaintextLength \in Nat
    /\ MaxBatches \in Nat
    /\ plaintext_layout(SegmentLength, PlaintextLength).ok

VARIABLES
    enc,        \* [EncTasks -> Option<EncryptionState>]
    encShared,  \* a SharedEncryptionContext exists
    header,     \* Option<Header>, once start_encryption has returned
    dec,        \* [DecTasks -> Option<DecryptionState>], a state being its key cache
    decContext, \* Option<MessageContext> of the decryption states
    decShared,  \* a SharedDecryptionContext exists
    drawn,      \* nonce batches drawn so far, by every generator
    sealed      \* the segments encrypted so far

encVars == <<enc, encShared, header, drawn, sealed>>
decVars == <<dec, decContext, decShared>>
vars == <<encVars, decVars>>

(* The message's secrets and associated data, and others that are not its. *)
MessageKey == "key"
MessageAad == "aad"
MessageIv == "iv"
context == Context(MessageKey, SegmentLength, MessageIv, MessageAad)
foreign == Context(MessageKey, SegmentLength, "other iv", MessageAad)

layout == plaintext_layout(SegmentLength, PlaintextLength).value
Segments == UNION {segment_for_position(layout, i) : i \in 0 .. layout.segment_count - 1}

(* The caller's slice of the message for a segment. *)
PlaintextOf(segment) ==
    [length |-> segment.plaintext_length,
     data |-> [k \in 1 .. segment.plaintext_length |-> segment.plaintext_offset + k]]

(* Headers a decryptor may be given: the message's, another message's, or  *)
(* the message's with one field replaced.                                  *)
HeadersGiven ==
    UNION {{h, Header(MessageKey, SegmentLength, "other iv", MessageAad),
            [h EXCEPT !.parameters = OtherLength], [h EXCEPT !.iv = "other iv"]} : h \in header}

Init ==
    /\ enc = [t \in EncTasks |-> None] /\ dec = [t \in DecTasks |-> None]
    /\ encShared = FALSE /\ decShared = FALSE
    /\ header = None /\ decContext = None
    /\ drawn = 0
    /\ sealed = {}

-----------------------------------------------------------------------------
(* start_encryption; a fault leaves no state behind. *)
start_encryption ==
    /\ header = None
    /\ header' = Some(Header(MessageKey, SegmentLength, MessageIv, MessageAad))
    /\ enc' = [enc EXCEPT ![Main] =
                 Some([keys |-> KeyCache_new(context), nonces |-> NonceGenerator_new])]
    /\ UNCHANGED <<encShared, drawn, sealed, decVars>>

(* EncryptionState::into_shared consumes the state. *)
into_shared_encryption ==
    /\ ~encShared
    /\ enc[Main] # None
    /\ enc' = [enc EXCEPT ![Main] = None]
    /\ encShared' = TRUE
    /\ UNCHANGED <<header, drawn, sealed, decVars>>

(* Mutant: the fork starts inside a batch nobody drew for it. *)
fork_state_zeroed == [keys |-> KeyCache_empty, nonces |-> [batch |-> 0, next |-> 0]]

fork_state == [keys |-> KeyCache_empty, nonces |-> NonceGenerator_new]

(* SharedEncryptionContext::fork; a task may replace a state it had. *)
fork_encryption(t) ==
    /\ encShared
    /\ enc' = [enc EXCEPT ![t] = Some(fork_state)]
    /\ UNCHANGED <<encShared, header, drawn, sealed, decVars>>

(* encrypt_segment, encrypt_segment_into and encrypt_segment_in_place_raw. *)
encrypt(t, segment, plaintext, room, fault) ==
    /\ segment.position \notin {s.position : s \in sealed}    \* the caller's contract
    /\ plaintext.length = segment.plaintext_length            \* validate_plaintext_layout
    /\ \E state \in enc[t] :
         LET r == encrypt_segment(state, context, plaintext, segment.position,
                                  segment.kind, room, fault, drawn + 1)
         IN  /\ enc' = [enc EXCEPT ![t] = Some(r.state)]
             /\ drawn' = IF r.state.nonces.batch = drawn + 1 THEN drawn + 1 ELSE drawn
             /\ sealed' = IF r.ok THEN sealed \cup {r.segment} ELSE sealed
    /\ drawn' <= MaxBatches
    /\ UNCHANGED <<encShared, header, decVars>>

-----------------------------------------------------------------------------
(* start_decryption and start_decryption_inferred, which takes the         *)
(* parameters from the header itself.                                      *)
start_decryption(key, aad, parameters, given) ==
    /\ decContext = None
    /\ accepts_header(key, aad, parameters, given)
    /\ decContext' = Some(Context(key, parameters, given.iv, aad))
    /\ dec' = [dec EXCEPT ![Main] =
                 Some(KeyCache_new(Context(key, parameters, given.iv, aad)))]
    /\ UNCHANGED <<decShared, encVars>>

into_shared_decryption ==
    /\ ~decShared
    /\ dec[Main] # None
    /\ dec' = [dec EXCEPT ![Main] = None]
    /\ decShared' = TRUE
    /\ UNCHANGED <<decContext, encVars>>

fork_decryption(t) ==
    /\ decShared
    /\ dec' = [dec EXCEPT ![t] = Some(KeyCache_empty)]
    /\ UNCHANGED <<decContext, decShared, encVars>>

(* Everything a caller may present as a ciphertext segment.  The steps     *)
(* need only the intact ones, of this message and the other: a damaged one *)
(* does to the key cache what another message's does, and any other        *)
(* alteration is rejected before the cache is touched, like a wrong length.*)
Foreign == {seal(derive_segment_key(foreign, masked_position(s.position)), <<0, 0>>,
                 s.position, s.kind, PlaintextOf(s)) : s \in Segments}
Arriving == sealed \cup Foreign \cup {[s EXCEPT !.damaged = TRUE] : s \in sealed}
Presented ==
    Arriving \cup UNION {Altered(s, {SEGMENT_OVERHEAD, SegmentLength}) : s \in sealed}

(* What decrypt_segment and decrypt_segment_into return, of which a layout *)
(* supplies the position and the kind: validate_ciphertext_layout wants    *)
(* the exact length.                                                       *)
decrypt_result(keys, ctx, presented, segment, room, fault) ==
    IF segment.parameters = ctx.parameters /\ presented.length = segment.ciphertext_length
    THEN decrypt_segment_at(keys, ctx, presented, segment.position, segment.kind, room, fault)
    ELSE Failed(keys, "InvalidCiphertextLength")

decrypt(t, presented, segment, room, fault) ==
    /\ \E keys \in dec[t], ctx \in decContext :
         dec' = [dec EXCEPT ![t] =
                   Some(decrypt_result(keys, ctx, presented, segment, room, fault).state)]
    /\ UNCHANGED <<decContext, decShared, encVars>>

(* A caller's storage may go on after the segment it begins with, by       *)
(* nothing or by another segment.  An extended segment is one with spare   *)
(* bytes, so that the segment at the front is at most cut short.           *)
Spare == {0, SegmentLength}
Stored == Arriving \cup UNION {Altered(s, {SEGMENT_OVERHEAD, s.length}) : s \in sealed}

(* The first bytes of the storage, as many as are required: the segment    *)
(* itself, or other bytes in the place of some of its own.                 *)
segment_at_front(presented, required) ==
    IF presented.length = required THEN presented
    ELSE [presented EXCEPT !.length = required, !.damaged = TRUE]

(* Mutant: the storage has to be as long as the segment. *)
decrypt_raw_result_exactly(keys, ctx, presented, spare, segment, fault) ==
    IF spare = 0 THEN decrypt_result(keys, ctx, presented, segment, TRUE, fault)
    ELSE Failed(keys, "InvalidCiphertextLength")

(* decrypt_segment_in_place_raw refuses storage that is too short, and     *)
(* takes the segment from the front of longer storage.                     *)
decrypt_raw_result(keys, ctx, presented, spare, segment, fault) ==
    IF /\ segment.parameters = ctx.parameters
       /\ presented.length + spare >= segment.ciphertext_length
    THEN decrypt_segment_at(keys, ctx, segment_at_front(presented, segment.ciphertext_length),
                            segment.position, segment.kind, TRUE, fault)
    ELSE Failed(keys, "InvalidCiphertextLength")

decrypt_segment_in_place_raw(t, presented, spare, segment, fault) ==
    /\ \E keys \in dec[t], ctx \in decContext :
         dec' = [dec EXCEPT ![t] =
                   Some(decrypt_raw_result(keys, ctx, presented, spare, segment, fault).state)]
    /\ UNCHANGED <<decContext, decShared, encVars>>

(* A call without room for its output does not get as far as the backend,  *)
(* so that no fault comes with it; a raw call without spare bytes does to  *)
(* the key cache what a copying one does.                                  *)
Next ==
    \/ start_encryption
    \/ into_shared_encryption
    \/ \E t \in EncTasks : fork_encryption(t)
    \/ \E t \in EncTasks, segment \in Segments, room \in BOOLEAN, fault \in Faults :
          (room \/ fault = "none") /\ encrypt(t, segment, PlaintextOf(segment), room, fault)
    \/ \E key \in {MessageKey, "other key"}, aad \in {MessageAad, "other aad"},
          parameters \in {SegmentLength, OtherLength}, given \in HeadersGiven :
          start_decryption(key, aad, parameters, given)
    \/ into_shared_decryption
    \/ \E t \in DecTasks : fork_decryption(t)
    \/ \E t \in DecTasks, presented \in sealed \cup Foreign, segment \in Segments,
          room \in BOOLEAN, fault \in Faults \ {"rng"} :
          (room \/ fault = "none") /\ decrypt(t, presented, segment, room, fault)
    \/ \E t \in DecTasks, presented \in sealed \cup Foreign, spare \in Spare \ {0},
          segment \in Segments, fault \in Faults \ {"rng"} :
          decrypt_segment_in_place_raw(t, presented, spare, segment, fault)

Spec == Init /\ [][Next]_vars

-----------------------------------------------------------------------------
(* AES-GCM's requirement: no two segments are sealed under the same key    *)
(* and nonce, whichever tasks sealed them and however many calls failed,   *)
(* were retried or ran out of nonces or randomness in between.             *)
NoncesAreUnique ==
    \A s1, s2 \in sealed : s1 # s2 /\ s1.key = s2.key => s1.nonce # s2.nonce

(* Key rotation bounds the use of a key: no key seals more than one        *)
(* rotation period of segments, whatever order the positions come in.      *)
KeysRotate ==
    \A s \in sealed : Cardinality({x \in sealed : x.key = s.key}) <= ROTATION_PERIOD

(* A decryption state only comes from a header an encryptor wrote: another *)
(* key, other associated data, other parameters or an altered header yield *)
(* no state.                                                               *)
HeadersAreAuthentic == decContext \subseteq {context, foreign}

(* A call with result r accepts exactly the intact segment of the same     *)
(* message and position, and returns what was sealed there.                *)
AcceptsExactly(r, ctx, presented, segment) ==
    LET authentic == /\ ~presented.damaged
                     /\ presented.prefix = segment_prefix(segment.kind, presented.length)
                     /\ presented.key[1] = ctx.message
                     /\ presented.position = segment.position
    IN  /\ r.ok <=> authentic
        /\ r.ok => \E s \in sealed \cup Foreign :
                      /\ s.key[1] = ctx.message /\ s.position = segment.position
                      /\ r.plaintext = s.plaintext

(* Whatever positions a task decrypted before, and after whatever          *)
(* failures, decrypting at a layout position accepts exactly the segment   *)
(* that some task sealed for that position of the same message: never an   *)
(* altered, a moved or another message's segment, and always the right     *)
(* one.  The raw call accepts it at the front of longer storage too, and   *)
(* nothing else there.                                                     *)
DecryptionIsExact ==
    \A keys \in UNION {dec[t] : t \in DecTasks}, ctx \in decContext :
        /\ \A presented \in Presented, segment \in Segments :
              AcceptsExactly(decrypt_result(keys, ctx, presented, segment, TRUE, "none"),
                             ctx, presented, segment)
        /\ \A presented \in Stored, segment \in Segments, spare \in Spare :
              AcceptsExactly(decrypt_raw_result(keys, ctx, presented, spare, segment, "none"),
                             ctx, presented, segment)

=============================================================================
