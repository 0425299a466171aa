-------------------------------- MODULE Layout --------------------------------
(***************************************************************************)
(* A layout request and the double-ended iterator over the result: a       *)
(* caller computes plaintext_layout or ciphertext_layout for a length and  *)
(* takes segments from the front and from the back of layout.segments()    *)
(* (src/parameters.rs).                                                    *)
(***************************************************************************)
EXTENDS Parameters, Sequences, SequencesExt

CONSTANT MaxLength      \* bound on the requested length

(* A length is a u64. *)
ASSUME LayoutAssumption == MaxLength \in Nat /\ MaxLength <= U64_MAX

VARIABLES
    request,    \* the call: [parameters, from, length]
    result,     \* what the layout constructor returned
    positions,  \* Segments::positions, the half-open range still to yield
    front,      \* what next() has yielded, in order
    back        \* what next_back() has yielded, in order

layoutVars == <<request, result, positions, front, back>>

Requests == [parameters : VALID_SEGMENT_LENGTHS,
             from : {"plaintext", "ciphertext"},
             length : 0 .. MaxLength]

layout_for(r) ==
    IF r.from = "plaintext" THEN plaintext_layout(r.parameters, r.length)
                            ELSE ciphertext_layout(r.parameters, r.length)

(* MessageLayout::segments *)
segments(layout) == [start |-> 0, end |-> layout.segment_count]

InitLayout ==
    /\ request \in Requests
    /\ result = layout_for(request)
    /\ positions = IF result.ok THEN segments(result.value)
                                ELSE [start |-> 0, end |-> 0]
    /\ front = <<>>
    /\ back = <<>>

(* The element segment_at unwraps with expect. *)
segment_at(position) ==
    CHOOSE s \in segment_for_position(result.value, position) : TRUE

(* Segments::next *)
next ==
    /\ positions.start < positions.end
    /\ front' = Append(front, segment_at(positions.start))
    /\ positions' = [positions EXCEPT !.start = @ + 1]
    /\ UNCHANGED <<request, result, back>>

(* Segments::next_back *)
next_back ==
    /\ positions.start < positions.end
    /\ back' = Append(back, segment_at(positions.end - 1))
    /\ positions' = [positions EXCEPT !.end = @ - 1]
    /\ UNCHANGED <<request, result, front>>

(* Both ends return None, again and again (FusedIterator). *)
exhausted ==
    /\ positions.start = positions.end
    /\ UNCHANGED layoutVars

NextLayout == next \/ next_back \/ exhausted

SpecLayout == InitLayout /\ [][NextLayout]_layoutVars

-----------------------------------------------------------------------------
(* plaintext_layout against its reference: a length has a layout exactly   *)
(* when some number of positions can hold it and the ciphertext length     *)
(* still is a u64, and the layout uses the fewest such positions (one for  *)
(* the empty message).                                                     *)
PlaintextLayoutIsLeast ==
    request.from = "plaintext" =>
        LET psl == plaintext_segment_length(request.parameters)
            n == request.length
            Holds(k) == k * psl >= n
            Fits(k) == HEADER_LENGTH + n + k * SEGMENT_OVERHEAD <= U64_MAX
            Counts == {k \in 1 .. AEAD_MAX_SEGMENTS : Holds(k) /\ Fits(k)}
        IN  /\ result.ok <=> Counts # {}
            /\ result.ok =>
                  /\ result.value.segment_count \in Counts
                  /\ \A k \in Counts : result.value.segment_count <= k

(* ciphertext_layout against its reference: a length is accepted exactly   *)
(* when it is the header, k - 1 full segments and one final segment whose  *)
(* payload may be anything from empty to full, for a k within the limit;   *)
(* the layout then reports that k and that much plaintext.                 *)
CiphertextLayoutIsExact ==
    request.from = "ciphertext" =>
        LET p == request.parameters
            Shapes == {sh \in (1 .. AEAD_MAX_SEGMENTS) \X (0 .. plaintext_segment_length(p)) :
                         request.length = HEADER_LENGTH + (sh[1] - 1) * p
                                            + SEGMENT_OVERHEAD + sh[2]}
        IN  /\ result.ok <=> Shapes # {}
            /\ result.ok => \A sh \in Shapes :
                  /\ result.value.segment_count = sh[1]
                  /\ result.value.plaintext_length =
                       (sh[1] - 1) * plaintext_segment_length(p) + sh[2]

(* Both layout constructors agree with their references. *)
LayoutsAreExact == PlaintextLayoutIsLeast /\ CiphertextLayoutIsExact

(* A reader that only knows the file size computes the layout the writer   *)
(* computed from the plaintext size.  The converse fails in one way only:  *)
(* a ciphertext length whose layout is not the canonical one has an empty  *)
(* final segment after full ones, and is exactly one empty segment longer  *)
(* than the canonical ciphertext.                                          *)
LayoutsRoundTrip ==
    LET layout == result.value
        canonical == plaintext_layout(layout.parameters, layout.plaintext_length)
    IN  /\ result.ok /\ request.from = "plaintext" =>
              ciphertext_layout(request.parameters, layout.ciphertext_length) = result
        /\ result.ok /\ request.from = "ciphertext" =>
              /\ canonical.ok
              /\ canonical # result =>
                    /\ layout.segment_count > 1
                    /\ layout.plaintext_length =
                         (layout.segment_count - 1) * plaintext_segment_length(layout.parameters)
                    /\ layout.ciphertext_length =
                         canonical.value.ciphertext_length + SEGMENT_OVERHEAD

-----------------------------------------------------------------------------
PlaintextEnd(s) == s.plaintext_offset + s.plaintext_length
CiphertextEnd(s) == s.ciphertext_offset + s.ciphertext_length

Contiguous(run) ==
    \A i \in 1 .. Len(run) - 1 :
        /\ run[i + 1].position = run[i].position + 1
        /\ run[i + 1].plaintext_offset = PlaintextEnd(run[i])
        /\ run[i + 1].ciphertext_offset = CiphertextEnd(run[i])

StartsMessage(s) ==
    s.position = 0 /\ s.plaintext_offset = 0 /\ s.ciphertext_offset = HEADER_LENGTH

EndsMessage(s) ==
    /\ s.kind = "Final"
    /\ PlaintextEnd(s) = result.value.plaintext_length
    /\ CiphertextEnd(s) = result.value.ciphertext_length

Yielded == ToSet(front) \cup ToSet(back)

(* However next and next_back are interleaved, what has been yielded is a  *)
(* gapless run from the start of the message and a gapless run up to its   *)
(* end; once the iterator is exhausted the two meet, so that the segments  *)
(* tile the plaintext and the ciphertext exactly once and only the last    *)
(* one is final.  Every byte offset of a yielded segment maps back to its  *)
(* position, so that a range read opens the segment that holds the byte.   *)
YieldedSegmentsTile ==
    result.ok =>
        LET tail == Reverse(back)
            all == front \o tail
        IN  /\ Contiguous(front) /\ Contiguous(tail)
            /\ front # <<>> => StartsMessage(front[1])
            /\ tail # <<>> => EndsMessage(tail[Len(tail)])
            /\ \A i \in 1 .. Len(all) :
                  (all[i].kind = "Final") <=> (all[i].position + 1 = result.value.segment_count)
            /\ \A s \in Yielded : \A o \in s.plaintext_offset .. PlaintextEnd(s) - 1 :
                  position_for_plaintext_offset(result.value, o) = s.position
            /\ positions.start = positions.end =>
                  all # <<>> /\ Contiguous(all) /\ StartsMessage(all[1])
                             /\ EndsMessage(all[Len(all)])

(* The prefix the encryptor writes for a laid-out segment decodes back to  *)
(* the segment's kind and lengths: no final segment is long enough to be   *)
(* mistaken for the non-final marker, and none is rejected.                *)
PrefixDecodesToLayout ==
    \A s \in Yielded :
        decode_framing(s.parameters, segment_prefix(s.kind, s.ciphertext_length))
            = Ok(Framing(s.ciphertext_length, s.kind))

(* The unchecked u64 arithmetic of segment_for_position cannot wrap and    *)
(* its subtraction cannot underflow, for any layout a constructor returned.*)
UncheckedArithmeticFits ==
    \A s \in Yielded :
        /\ s.plaintext_length \in 0 .. plaintext_segment_length(s.parameters)
        /\ s.plaintext_offset <= U64_MAX
        /\ s.ciphertext_offset <= U64_MAX

=============================================================================
