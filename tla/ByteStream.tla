------------------------------ MODULE ByteStream ------------------------------
(***************************************************************************)
(* Ciphertexts as byte streams, for the adapters that find headers and     *)
(* segments in them.  A byte is named by the header or segment it belongs  *)
(* to and its index there.  Bytes read from a stream are a header or a     *)
(* segment again only if they are all of its bytes in order; anything else *)
(* has the length that was read, and no key opens it.                      *)
(***************************************************************************)
EXTENDS SegmentBuffer, Wire

bytes_of(item, length) == [k \in 1 .. length |-> [item |-> item, at |-> k, of |-> length]]

header_bytes(header) == bytes_of(header, HEADER_LENGTH)
segment_bytes(segment) == bytes_of(segment, segment.length)

is_header(item) == "tag" \in DOMAIN item
is_segment(item) == "prefix" \in DOMAIN item

(* The bytes are the first of some item, and all of them. *)
is_start(bytes) ==
    bytes # <<>> /\ \A k \in 1 .. Len(bytes) : bytes[k] = [bytes[1] EXCEPT !.at = k]
is_whole(bytes) == is_start(bytes) /\ Len(bytes) = bytes[1].of

(* The prefix the bytes declare.  Bytes that are not the prefix of a       *)
(* segment declare no valid length; had they declared one, what follows    *)
(* would not open.                                                         *)
prefix_in(bytes) ==
    IF is_start(bytes) /\ is_segment(bytes[1].item) THEN bytes[1].item.prefix ELSE 0

garbled(bytes) == [prefix |-> prefix_in(bytes), length |-> Len(bytes), damaged |-> TRUE]

segment_in(bytes) ==
    IF is_whole(bytes) /\ is_segment(bytes[1].item) THEN bytes[1].item ELSE garbled(bytes)

(* Option<Header>; other bytes of a header's length carry no valid tag. *)
header_in(bytes) ==
    IF is_whole(bytes) /\ is_header(bytes[1].item) THEN Some(bytes[1].item) ELSE None

-----------------------------------------------------------------------------
(* read_header: a header, or an error when the source ends or fails. *)
read_header(source, at, budget) ==
    LET r == read_fully(source, at, HEADER_LENGTH, budget)
    IN  [ok |-> r.ok /\ r.got = HEADER_LENGTH, at |-> at + r.got,
         header |-> header_in(Slice(source, at, r.got))]

(* read_exact_segment: the segment in the next `length` bytes. *)
read_exact_segment(source, at, length, budget) ==
    LET r == read_fully(source, at, length, budget)
    IN  [ok |-> r.ok /\ r.got = length, at |-> at + r.got,
         segment |-> segment_in(Slice(source, at, r.got))]

(* The context that a decryptor, given these parameters or None to take    *)
(* the header's, derives from a header it accepts.                         *)
opened_context(key, aad, parameters, header) ==
    {Context(key, h.parameters, h.iv, aad) :
       h \in {x \in header : /\ x.parameters \in VALID_SEGMENT_LENGTHS
                             /\ parameters = None \/ x.parameters \in parameters
                             /\ accepts_header(key, aad, x.parameters, x)}}

=============================================================================
