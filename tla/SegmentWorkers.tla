---------------------------- MODULE SegmentWorkers ----------------------------
(***************************************************************************)
(* Concurrent tasks that encrypt and decrypt segments of one message in    *)
(* place, each in a SegmentBuffer of its own that it uses again for the    *)
(* next segment (src/state.rs, src/buffer.rs).  A task may call with a     *)
(* buffer it did not prepare again, with another segment than it prepared  *)
(* the buffer for, or with a buffer of another parameter set.              *)
(***************************************************************************)
EXTENDS SharedStates, SegmentBuffer

VARIABLES
    buffers,   \* [task -> SegmentBuffer]
    origin     \* [task -> what the buffer's contents come from]

workerVars == <<vars, buffers, origin>>

Workers == EncTasks \cup DecTasks

(* Where the contents come from: "caller", an encryption ("used"), or a    *)
(* decryption ("opened"), with the segment it was called for.              *)
From(kind, segment) == [kind |-> kind, segment |-> segment]

InitWorkers ==
    /\ Init
    /\ buffers \in [Workers -> {buffer_new(SegmentLength)}]
          \cup [Workers -> {buffer_new(OtherLength)}]
    /\ origin = [t \in Workers |-> From("caller", None)]

(* prepare_plaintext, filled with the message's bytes for the segment. *)
prepare(t, segment) ==
    /\ prepare_plaintext_ok(buffers[t], segment.plaintext_length)
    /\ buffers' = [buffers EXCEPT ![t] = prepare_plaintext(@, PlaintextOf(segment).data)]
    /\ origin' = [origin EXCEPT ![t] = From("caller", None)]
    /\ UNCHANGED vars

(* prepare_ciphertext, filled with whatever the task was given. *)
load(t, presented) ==
    /\ prepare_ciphertext_ok(buffers[t], presented.length)
    /\ buffers' = [buffers EXCEPT ![t] = prepare_ciphertext(@, presented)]
    /\ origin' = [origin EXCEPT ![t] = From("caller", None)]
    /\ UNCHANGED vars

(* What encrypt_segment_in_place refuses before it touches anything. *)
refuses_segment(buffer, segment) ==
    \/ refuses(buffer, context)
    \/ Len(buffer.payload) # segment.plaintext_length

(* EncryptionState::encrypt_segment_in_place *)
encrypt_segment_in_place(t, segment, fault) ==
    /\ segment.position \notin {s.position : s \in sealed}    \* the caller's contract
    /\ ~refuses_segment(buffers[t], segment)
    /\ \E state \in enc[t] :
          LET r == encrypt_segment(state, context, plaintext_of(buffers[t].payload),
                                   segment.position, segment.kind, TRUE, fault, drawn + 1)
              result == IF r.ok THEN Some(r.segment) ELSE None
          IN  /\ enc' = [enc EXCEPT ![t] = Some(r.state)]
              /\ drawn' = IF r.state.nonces.batch = drawn + 1 THEN drawn + 1 ELSE drawn
              /\ sealed' = sealed \cup result
              /\ buffers' = [buffers EXCEPT ![t] = after_encryption(@, result)]
    /\ drawn' <= MaxBatches
    /\ origin' = [origin EXCEPT ![t] = From("used", Some(segment))]
    /\ UNCHANGED <<encShared, header, decVars>>

(* What the closure in decrypt_segment_in_place returns. *)
opened_in_place(keys, ctx, buffer, segment, fault) ==
    IF ~holds_ciphertext(buffer) \/ buffer.parameters # ctx.parameters
    THEN Failed(keys, "InvalidBufferState")
    ELSE decrypt_result(keys, ctx, CHOOSE s \in buffer.segment : TRUE, segment, TRUE, fault)

(* DecryptionState::decrypt_segment_in_place *)
decrypt_segment_in_place(t, segment, fault) ==
    /\ \E keys \in dec[t], ctx \in decContext :
          LET r == opened_in_place(keys, ctx, buffers[t], segment, fault)
              result == IF r.ok THEN Some(r.plaintext) ELSE None
          IN  /\ dec' = [dec EXCEPT ![t] = Some(r.state)]
              /\ buffers' = [buffers EXCEPT ![t] = decrypt_with(@, result)]
    /\ origin' = [origin EXCEPT ![t] = From("opened", Some(segment))]
    /\ UNCHANGED <<decContext, decShared, encVars>>

(* How the tasks come by their states. *)
Lifecycle ==
    \/ start_encryption
    \/ into_shared_encryption
    \/ \E t \in EncTasks : fork_encryption(t)
    \/ \E k \in {MessageKey, "other key"}, aad \in {MessageAad, "other aad"},
          parameters \in {SegmentLength, OtherLength}, given \in HeadersGiven :
          start_decryption(k, aad, parameters, given)
    \/ into_shared_decryption
    \/ \E t \in DecTasks : fork_decryption(t)

NextWorkers ==
    \/ Lifecycle /\ UNCHANGED <<buffers, origin>>
    \/ \E t \in Workers, segment \in Segments : prepare(t, segment)
    \/ \E t \in DecTasks, presented \in Arriving : load(t, presented)
    \/ \E t \in EncTasks, segment \in Segments, fault \in Faults :
          encrypt_segment_in_place(t, segment, fault)
    \/ \E t \in DecTasks, segment \in Segments, fault \in Faults \ {"rng"} :
          decrypt_segment_in_place(t, segment, fault)

SpecWorkers == InitWorkers /\ [][NextWorkers]_workerVars

-----------------------------------------------------------------------------
(* A reused buffer never passes for more than it is.  It holds plaintext   *)
(* only if its task put that there and no encryption has started on it     *)
(* since, or if a decryption has just authenticated it as the plaintext of *)
(* the very segment asked for; a failed call of either kind leaves nothing *)
(* behind, and ciphertext after an encryption is the sealed segment.       *)
BuffersAreHonest ==
    \A t \in Workers : \A segment \in origin[t].segment :
        CASE origin[t].kind = "used" ->
               /\ ~holds_plaintext(buffers[t])
               /\ buffers[t].segment \subseteq {s \in sealed : s.position = segment.position}
          [] origin[t].kind = "opened" ->
               /\ ~holds_ciphertext(buffers[t])
               /\ holds_plaintext(buffers[t]) =>
                     \E s \in sealed \cup Foreign :
                        /\ decContext = Some([parameters |-> SegmentLength, message |-> s.key[1]])
                        /\ s.position = segment.position
                        /\ s.plaintext = plaintext_of(buffers[t].payload)

=============================================================================
