-------------------------------- MODULE Online --------------------------------
(***************************************************************************)
(* One message sent through an Encryptor, an unreliable transport and a    *)
(* Decryptor (src/online.rs).                                              *)
(*                                                                         *)
(* The transport holds every segment ever sealed and hands the decryptor   *)
(* any of them at any time, any alteration of them, or segments of another *)
(* message under the same key: loss, reordering, duplication, splicing and *)
(* truncation are all choices of what to hand over next.  Calls of the     *)
(* encryptor fail for a wrong payload length, a small output buffer or a   *)
(* backend fault, and the caller retries them, if it does, with any        *)
(* payload.                                                                *)
(***************************************************************************)
EXTENDS OnlineState, Sequences

CONSTANTS
    SegmentLength,    \* the message's parameter set
    Data,             \* contents that distinguish payloads of one length
    MaxBatches        \* bound on the nonce batches drawn

ASSUME OnlineAssumption ==
    /\ SegmentLength \in VALID_SEGMENT_LENGTHS
    /\ MaxBatches \in Nat

VARIABLES
    encryptor,    \* Option<Encryptor>, None once the final segment is sealed
    decryptor,    \* Option<Decryptor>, None once finish consumed it
    drawn,        \* nonce batches drawn
    wire,         \* the segments sealed so far
    sent,         \* their plaintexts in order
    delivered,    \* the plaintexts decrypt_segment returned, in order
    verdict       \* what finish returned, "none" before

encVars == <<encryptor, drawn, wire, sent>>
decVars == <<decryptor, delivered, verdict>>
vars == <<encVars, decVars>>

context == Context("key", SegmentLength, "iv", "aad")
foreign == Context("key", SegmentLength, "other iv", "aad")

(* Payloads up to one byte longer than a segment can carry. *)
Payloads ==
    {[length |-> n, data |-> [i \in 1 .. n |-> d]] :
       n \in 0 .. plaintext_segment_length(SegmentLength) + 1, d \in Data}

Init ==
    /\ encryptor = Some(Encryptor_new(context))
    /\ decryptor = Some(Decryptor_new(context))
    /\ drawn = 0
    /\ wire = {}
    /\ sent = <<>> /\ delivered = <<>>
    /\ verdict = "none"

(* The caller's side of an encryption and of a decryption call. *)
Encrypted(r, plaintext) ==
    /\ encryptor' = r.encryptor
    /\ drawn' = IF r.drew THEN drawn + 1 ELSE drawn
    /\ drawn' <= MaxBatches
    /\ wire' = wire \cup r.segment
    /\ sent' = IF r.segment = None THEN sent ELSE Append(sent, plaintext)
    /\ UNCHANGED decVars

Decrypted(r) ==
    /\ decryptor' = Some(r.decryptor)
    /\ delivered' = IF r.plaintext = None THEN delivered
                    ELSE Append(delivered, CHOOSE p \in r.plaintext : TRUE)
    /\ UNCHANGED <<verdict, encVars>>

(* encrypt_non_final_segment and encrypt_non_final_segment_into. *)
encrypt_non_final_segment(plaintext, room, fault) ==
    \E e \in encryptor :
        Encrypted(encrypt_non_final(e, context, plaintext, room, fault, drawn + 1), plaintext)

(* encrypt_final_segment and encrypt_final_segment_into. *)
encrypt_final_segment(plaintext, room, fault) ==
    \E e \in encryptor :
        Encrypted(encrypt_final(e, context, plaintext, room, fault, drawn + 1), plaintext)

(* Segments of another message, sealed with every position and kind. *)
Foreign ==
    {seal(derive_segment_key(foreign, masked_position(i)), <<0, 0>>, i, kind,
          plaintext) :
       i \in 0 .. AEAD_MAX_SEGMENTS - 1, kind \in Kinds,
       plaintext \in {x \in Payloads : x.length = plaintext_segment_length(SegmentLength)}}

Arriving ==
    wire \cup Foreign
        \cup UNION {Altered(s, {0, SEGMENT_OVERHEAD, SegmentLength}) : s \in wire}

(* decrypt_segment and decrypt_segment_into. *)
receive(segment, room, fault) ==
    \E d \in decryptor : Decrypted(decrypt_segment(d, context, segment, room, fault))

(* finish consumes the decryptor. *)
finish_decryption ==
    /\ \E d \in decryptor : verdict' = finish(d)
    /\ decryptor' = None
    /\ UNCHANGED <<delivered, encVars>>

Next ==
    \/ \E plaintext \in Payloads, room \in BOOLEAN, fault \in Faults :
          \/ encrypt_non_final_segment(plaintext, room, fault)
          \/ encrypt_final_segment(plaintext, room, fault)
    \/ \E segment \in Arriving, room \in BOOLEAN, fault \in Faults :
          receive(segment, room, fault)
    \/ finish_decryption

Spec == Init /\ [][Next]_vars

-----------------------------------------------------------------------------
(* Every variable has its type; the counters never pass the last position. *)
TypeInvariant ==
    /\ \A e \in encryptor : /\ e.counter.next \in 0 .. AEAD_MAX_SEGMENTS - 1
                            /\ e.counter.closed = FALSE
                            /\ e.state.nonces.next \in 0 .. NONCE_BATCH_SIZE
                            /\ e.state.nonces.batch \in 0 .. drawn
    /\ \A d \in decryptor : /\ d.counter.next \in 0 .. AEAD_MAX_SEGMENTS - 1
                            /\ d.counter.closed \in BOOLEAN
    /\ drawn \in 0 .. MaxBatches
    /\ sent \in Seq(Payloads) /\ delivered \in Seq(Payloads)
    /\ verdict \in {"none", "Ok", "Truncated"}

(* No nonce seals two segments of the message, whatever was retried. *)
NoncesAreUnique == \A s1, s2 \in wire : s1 # s2 => s1.nonce # s2.nonce

(* However many calls failed and were retried with other payloads, the     *)
(* segments that exist are exactly one per position, without gaps, each    *)
(* with the payload of that position, and the final one, if any, is last.  *)
OneSegmentPerPosition ==
    /\ {s.position : s \in wire} = 0 .. Len(sent) - 1
    /\ \A s1, s2 \in wire : s1.position = s2.position => s1 = s2
    /\ \A s \in wire : /\ s.plaintext = sent[s.position + 1]
                       /\ s.kind = "Final" <=> encryptor = None /\ s.position = Len(sent) - 1

(* An encryptor that exists can still end its message: the limit on        *)
(* non-final segments keeps the last position for the final one.           *)
AlwaysFinalizable ==
    \A e \in encryptor :
        encrypt_final(e, context, [length |-> 0, data |-> <<>>], TRUE, "none", drawn + 1)
            .encryptor = None

(* A rejected segment or a failed call never wedges the decryptor: it      *)
(* accepts the segment that follows what it has delivered, once that one   *)
(* is sealed, and nothing else.                                            *)
AcceptsExactlyTheNext ==
    \A d \in decryptor : \A segment \in Arriving :
        decrypt_segment(d, context, segment, TRUE, "none").plaintext # None
            <=> segment \in wire /\ segment.position = Len(delivered)

(* A decryptor that has authenticated a final segment stays finished and   *)
(* returns no further plaintext.                                           *)
NothingAfterFinal ==
    [][\A d \in decryptor : d.counter.closed => delivered' = delivered]_vars

(* Online encryption over this transport implements MessageStream.         *)
Stream == INSTANCE MessageStream
            WITH Payload <- Payloads, ended <- (encryptor = None)

(* The receiver obtains the sender's segments in order, each once, and     *)
(* finish reports Ok exactly when it has all of an ended message.          *)
ImplementsStream == Stream!Spec

=============================================================================
