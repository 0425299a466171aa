------------------------------ MODULE Parameters ------------------------------
(***************************************************************************)
(* Lengths, layouts and segment framing of a FLOE message                  *)
(* (src/parameters.rs).  A Parameters value differs from another only in   *)
(* its encrypted segment length, so a parameter set is that length.  The   *)
(* format's numbers are constants, so that TLC can use a format with short *)
(* segments, few positions and narrow integers; the shipped values are in  *)
(* the comments.                                                           *)
(***************************************************************************)
EXTENDS Integers

CONSTANTS
    HEADER_LENGTH,           \* 74
    SEGMENT_PREFIX_LENGTH,   \* 4
    AEAD_IV_LENGTH,          \* 12
    AEAD_TAG_LENGTH,         \* 16
    AEAD_MAX_SEGMENTS,       \* 2^40
    ROTATION_PERIOD,         \* 2^ROTATION_BITS = 2^20 positions share a key
    MIN_SEGMENT_LENGTH,      \* 64, the start of VALID_SEGMENT_LENGTHS
    U32_MAX,                 \* 2^32 - 1, also the prefix of a non-final segment
    U64_MAX                  \* 2^64 - 1

SEGMENT_OVERHEAD == SEGMENT_PREFIX_LENGTH + AEAD_IV_LENGTH + AEAD_TAG_LENGTH

ASSUME ParametersAssumption ==
    /\ HEADER_LENGTH \in Nat \ {0}
    /\ SEGMENT_PREFIX_LENGTH \in Nat \ {0}
    /\ AEAD_IV_LENGTH \in Nat \ {0}
    /\ AEAD_TAG_LENGTH \in Nat \ {0}
    /\ AEAD_MAX_SEGMENTS \in Nat \ {0}
    /\ ROTATION_PERIOD \in Nat \ {0}
    /\ MIN_SEGMENT_LENGTH \in Nat
    /\ U32_MAX \in Nat
    /\ U64_MAX \in Nat
    /\ SEGMENT_OVERHEAD < MIN_SEGMENT_LENGTH
    /\ MIN_SEGMENT_LENGTH < U32_MAX
    /\ U32_MAX <= U64_MAX

Kinds == {"NonFinal", "Final"}

(* Mutant: the range ends at u32::MAX inclusive. *)
VALID_SEGMENT_LENGTHS_inclusive == MIN_SEGMENT_LENGTH .. U32_MAX

VALID_SEGMENT_LENGTHS == MIN_SEGMENT_LENGTH .. (U32_MAX - 1)

(* Rust's Result, and its Option as a set with at most one element. *)
Ok(value) == [ok |-> TRUE, value |-> value]
Err(error) == [ok |-> FALSE, error |-> error]
Some(value) == {value}
None == {}

(* Mutant: rounds up multiples too. *)
DivCeil_off_by_one(n, d) == n \div d + 1

(* u64::div_ceil *)
DivCeil(n, d) == IF n % d = 0 THEN n \div d ELSE n \div d + 1

plaintext_segment_length(p) == p - SEGMENT_OVERHEAD

masked_position(position) == position - (position % ROTATION_PERIOD)

-----------------------------------------------------------------------------
(* MessageLayout and its two constructors. *)

(* Mutant: the additions are not checked. *)
fits_u64_unchecked(length) == length \in Nat

(* What the checked_mul and checked_add of plaintext_layout let through: a *)
(* sum of naturals fits only if each partial sum does.                     *)
fits_u64(length) == length <= U64_MAX

plaintext_layout(p, plaintext_length) ==
    LET blocks == DivCeil(plaintext_length, plaintext_segment_length(p))
        segment_count == IF blocks < 1 THEN 1 ELSE blocks
        ciphertext_length ==
            HEADER_LENGTH + plaintext_length + segment_count * SEGMENT_OVERHEAD
    IN  CASE segment_count > AEAD_MAX_SEGMENTS -> Err("SegmentLimit")
          [] segment_count <= AEAD_MAX_SEGMENTS /\ ~fits_u64(ciphertext_length) ->
                Err("LengthOverflow")
          [] OTHER -> Ok([parameters |-> p,
                          plaintext_length |-> plaintext_length,
                          ciphertext_length |-> ciphertext_length,
                          segment_count |-> segment_count])

(* Mutant: any non-empty rest is taken for a final segment. *)
is_final_length_any(final_length) == final_length > 0

(* Mutant: a final segment without payload is rejected. *)
is_final_length_nonempty(final_length) == final_length > SEGMENT_OVERHEAD

is_final_length(final_length) == final_length >= SEGMENT_OVERHEAD

ciphertext_layout(p, ciphertext_length) ==
    LET body_length == ciphertext_length - HEADER_LENGTH
        segment_count == DivCeil(body_length, p)
        final_length == body_length - (segment_count - 1) * p
    IN  CASE body_length < 0 -> Err("InvalidHeaderLength")
          [] body_length = 0 -> Err("Truncated")
          [] body_length > 0 /\ segment_count > AEAD_MAX_SEGMENTS ->
                Err("SegmentLimit")
          [] body_length > 0 /\ segment_count <= AEAD_MAX_SEGMENTS
                /\ ~is_final_length(final_length) ->
                Err("InvalidCiphertextLength")
          [] OTHER -> Ok([parameters |-> p,
                          plaintext_length |->
                              body_length - segment_count * SEGMENT_OVERHEAD,
                          ciphertext_length |-> ciphertext_length,
                          segment_count |-> segment_count])

(* Mutant: the header is forgotten. *)
ciphertext_offset_no_header(p, position) == position * p

ciphertext_offset(p, position) == HEADER_LENGTH + position * p

segment_for_position(layout, position) ==
    LET p == layout.parameters
        plaintext_offset == position * plaintext_segment_length(p)
        kind == IF position + 1 = layout.segment_count THEN "Final" ELSE "NonFinal"
        plaintext_length == IF kind = "Final"
                            THEN layout.plaintext_length - plaintext_offset
                            ELSE plaintext_segment_length(p)
    IN  IF position >= layout.segment_count
        THEN None
        ELSE Some([parameters |-> p,
                   position |-> position,
                   plaintext_offset |-> plaintext_offset,
                   plaintext_length |-> plaintext_length,
                   ciphertext_offset |-> ciphertext_offset(p, position),
                   ciphertext_length |-> SEGMENT_OVERHEAD + plaintext_length,
                   kind |-> kind])

final_segment(layout) == segment_for_position(layout, layout.segment_count - 1)

(* Mutant: divides by the ciphertext segment length. *)
position_for_ciphertext_offset(layout, offset) == offset \div layout.parameters

position_for_plaintext_offset(layout, offset) ==
    offset \div plaintext_segment_length(layout.parameters)

-----------------------------------------------------------------------------
(* The prefix that declares a segment's kind and length. *)

segment_prefix(kind, ciphertext_length) ==
    IF kind = "NonFinal" THEN U32_MAX ELSE ciphertext_length

validate_ciphertext_segment_length(p, actual) == actual \in SEGMENT_OVERHEAD .. p

Framing(ciphertext_length, kind) ==
    [ciphertext_length |-> ciphertext_length,
     plaintext_length |-> ciphertext_length - SEGMENT_OVERHEAD,
     kind |-> kind]

(* SegmentFraming::decode *)
decode_framing(p, prefix) ==
    CASE prefix = U32_MAX -> Ok(Framing(p, "NonFinal"))
      [] prefix # U32_MAX /\ prefix \in SEGMENT_OVERHEAD .. p -> Ok(Framing(prefix, "Final"))
      [] OTHER -> Err("InvalidCiphertextLength")

=============================================================================
