----------------------------- MODULE Ciphertexts -----------------------------
(***************************************************************************)
(* The ciphertexts a reader may be put on: what storage or a transport can *)
(* make of a message.  One message is the subject; another, under the same *)
(* key, supplies foreign headers and segments and may follow the first.    *)
(***************************************************************************)
EXTENDS ByteStream

CONSTANTS
    SegmentLength,    \* the parameter set of the messages
    Lengths           \* the lengths of the messages' plaintexts

ASSUME CiphertextsAssumption ==
    SegmentLength \in VALID_SEGMENT_LENGTHS /\ Lengths \subseteq Nat /\ Lengths # {}

LOCAL INSTANCE SequencesExt

key == "key"
aad == "aad"

contexts == [ours |-> Context(key, SegmentLength, "iv", aad),
             other |-> Context(key, SegmentLength, "other iv", aad)]
headers == [ours |-> Header(key, SegmentLength, "iv", aad),
            other |-> Header(key, SegmentLength, "other iv", aad)]

capacity == plaintext_segment_length(SegmentLength)

(* The segments of a message: as EncryptReader emits it, or closed by an   *)
(* empty final segment as EncryptWriter may.                               *)
segments_of(ctx, bytes, count) ==
    [i \in 1 .. count |->
       LET start == (i - 1) * capacity
       IN  seal(derive_segment_key(ctx, masked_position(i - 1)), <<0, i>>, i - 1,
                IF i = count THEN "Final" ELSE "NonFinal",
                plaintext_of(Slice(bytes, start, least(capacity, Len(bytes) - start))))]

counts(n) ==
    LET canonical == plaintext_layout(SegmentLength, n).value.segment_count
    IN  {canonical}
          \cup (IF n > 0 /\ n % capacity = 0 /\ canonical < AEAD_MAX_SEGMENTS
                THEN {canonical + 1} ELSE {})

Messages ==
    UNION {LET bytes == [i \in 1 .. n |-> i]
           IN  {[bytes |-> bytes, segments |-> segments_of(contexts.ours, bytes, count)] :
                  count \in counts(n)} :
           n \in Lengths}

other == LET bytes == [i \in 1 .. capacity + 1 |-> 100 + i]
         IN  [bytes |-> bytes, segments |-> segments_of(contexts.other, bytes, 2)]

bytes_of_items(items) ==
    FlattenSeq([i \in DOMAIN items |-> IF is_header(items[i]) THEN header_bytes(items[i])
                                       ELSE segment_bytes(items[i])])

message_items(header, message) == <<header>> \o message.segments
intact(message) == bytes_of_items(message_items(headers.ours, message))
other_bytes == bytes_of_items(message_items(headers.other, other))

junk == bytes_of([junk |-> TRUE], 1)

(* What may stand in place of a header or a segment. *)
Forged(item, position) ==
    IF is_header(item)
    THEN {headers.other, Header("other key", SegmentLength, "iv", aad),
          Header(key, SegmentLength, "iv", "other aad"),
          [item EXCEPT !.parameters = SegmentLength + 1]}
    ELSE Altered(item, {SEGMENT_OVERHEAD, SegmentLength})
            \cup {other.segments[i] : i \in {position} \cap DOMAIN other.segments}

Spliced(items) ==
    {RemoveAt(items, i) : i \in DOMAIN items}
        \cup {InsertAt(items, i, items[i]) : i \in DOMAIN items}
        \cup {[items EXCEPT ![i] = items[j], ![j] = items[i]] : i, j \in DOMAIN items}
        \cup UNION {{[items EXCEPT ![i] = x] : x \in Forged(items[i], i - 1)} : i \in DOMAIN items}

Held(message) ==
    {bytes_of_items(items) : items \in Spliced(message_items(headers.ours, message))}
        \cup {Slice(intact(message), 0, n) : n \in 0 .. Len(intact(message))}
        \cup {intact(message) \o junk, intact(message) \o other_bytes}

-----------------------------------------------------------------------------
(* The message that a context belongs to, given the subject. *)
message_of(ctx, sent) == IF ctx = contexts.ours THEN sent ELSE other
bytes_of_message(ctx, sent) == IF ctx = contexts.ours THEN intact(sent) ELSE other_bytes

(* The source holds the whole message, unaltered, from `start` on. *)
holds_whole(source, start, ctx, sent) ==
    LET bytes == bytes_of_message(ctx, sent)
    IN  Slice(source, start, least(Len(bytes), Len(source) - start)) = bytes

=============================================================================
