-------------------------- MODULE RandomAccessReader --------------------------
(***************************************************************************)
(* The random-access Reader over an unreliable seekable source             *)
(* (src/random_access.rs).                                                 *)
(*                                                                         *)
(* The source holds a message, cut off anywhere, altered, or followed by   *)
(* something else.  Its seeks and reads may fail at any point, leaving it  *)
(* at another position, and the backend may fail.  The caller mixes        *)
(* sequential reads, seeks, segment and range reads, and moves the wrapped *)
(* reader through get_mut.  A range read takes one step per segment.       *)
(***************************************************************************)
EXTENDS Ciphertexts

CONSTANTS
    MaxRead,    \* bound on the length of one sequential read
    Starts,     \* where a message may start in its source
    Positions,  \* the positions that seeks reach
    Distances,  \* how far a relative seek goes, either way
    RangeEnds   \* the bounds of ranges

ASSUME RandomAccessReaderAssumption ==
    /\ MaxRead \in Nat /\ Starts \subseteq Nat
    /\ Positions \subseteq 0 .. U64_MAX /\ Distances \subseteq Nat
    /\ RangeEnds \subseteq 0 .. U64_MAX
    /\ \A n \in Lengths : plaintext_layout(SegmentLength, n).ok    \* a message was encrypted

VARIABLES
    sent,      \* the message the source is made of, as [bytes, segments]
    source,    \* the bytes of the wrapped reader, which do not change
    at,        \* the true position of the wrapped reader
    reader,    \* Option<Reader>
    ranging,   \* Option of the range read under way
    answer     \* what a call returned, until the caller takes it: [op, ok, from, to, bytes]

vars == <<sent, source, at, reader, ranging, answer>>

no_answer == [op |-> "none", ok |-> TRUE, from |-> 0, to |-> 0, bytes |-> <<>>]

padding(start) == [i \in 1 .. start |-> junk[1]]

Init ==
    /\ sent \in Messages
    /\ \E start \in Starts :
          /\ at = start
          /\ \/ start = 0 /\ source \in Held(sent)
             \/ source \in {padding(start) \o intact(sent), padding(start) \o intact(sent) \o junk}
    /\ reader = None /\ ranging = None
    /\ answer = no_answer

Answers(op, ok, from, to, bytes) ==
    answer' = [op |-> op, ok |-> ok, from |-> from, to |-> to, bytes |-> bytes]

-----------------------------------------------------------------------------
(* Reaching and opening a segment.  A step is the reader and the position  *)
(* of the wrapped reader after it, whether it succeeded and its bytes.     *)

Reached(r, position, ok, bytes) == [reader |-> r, at |-> position, ok |-> ok, bytes |-> bytes]

(* What may go wrong in reaching and opening a segment, at most one thing: *)
(* a failing seek moves the wrapped reader or not.                         *)
Troubles ==
    [seek : {"ok"}, budget : {1, SegmentLength}, fault : {"none"}]
        \cup [seek : {"stays", "moves"}, budget : {SegmentLength}, fault : {"none"}]
        \cup [seek : {"ok"}, budget : {SegmentLength}, fault : {"kdf", "aead"}]

no_trouble == [seek |-> "ok", budget |-> SegmentLength, fault |-> "none"]

checked_add(m, n) == IF fits_u64(m + n) THEN Some(m + n) ELSE None

(* Mutant: the tracked position is given up only by a seek that succeeds. *)
seek_inner_to_tracked(r, offset, outcome) ==
    IF r.inner_position = Some(offset) THEN Reached(r, at, TRUE, <<>>)
    ELSE IF outcome = "ok"
    THEN Reached([r EXCEPT !.inner_position = Some(offset)], offset, TRUE, <<>>)
    ELSE Reached(r, IF outcome = "stays" THEN at ELSE offset, FALSE, <<>>)

(* No seek if the tracked position is the wanted one. *)
seek_inner_to(r, offset, outcome) ==
    IF r.inner_position = Some(offset) THEN Reached(r, at, TRUE, <<>>)
    ELSE IF outcome = "ok"
    THEN Reached([r EXCEPT !.inner_position = Some(offset)], offset, TRUE, <<>>)
    ELSE Reached([r EXCEPT !.inner_position = None],
                 IF outcome = "stays" THEN at ELSE offset, FALSE, <<>>)

seek_to_segment(r, segment, outcome) ==
    LET offset == checked_add(r.message_start, segment.ciphertext_offset)
    IN  IF offset = None THEN Reached(r, at, FALSE, <<>>)
        ELSE seek_inner_to(r, CHOOSE o \in offset : TRUE, outcome)

(* Mutant: the cache is left to be overwritten. *)
uncached_not(r) == r

uncached(r) == [r EXCEPT !.cached_position = None]

(* The tracked position is given up while the read is outstanding. *)
position_after_read(tracked, length, ok) ==
    IF ok THEN UNION {checked_add(p, length) : p \in tracked} ELSE None

fetch_segment_ciphertext(r, segment, trouble) ==
    LET s == seek_to_segment(uncached(r), segment, trouble.seek)
        length == segment.ciphertext_length
        got == read_exact_segment(source, s.at, length, trouble.budget)
    IN  IF ~s.ok THEN s
        ELSE Reached([s.reader EXCEPT
                        !.inner_position = position_after_read(@, length, got.ok),
                        !.scratch = prepare_ciphertext(@, [got.segment EXCEPT !.length = length])],
                     got.at, got.ok, <<>>)

(* The segment in the scratch buffer, opened where the layout has it. *)
opening(r, segment, fault) ==
    decrypt_segment_at(r.keys, r.context, CHOOSE s \in r.scratch.segment : TRUE,
                       segment.position, segment.kind, TRUE, fault)

(* load_segment: opened in the scratch buffer, which failure wipes. *)
load_segment(r, segment, trouble) ==
    LET f == fetch_segment_ciphertext(r, segment, trouble)
        o == opening(f.reader, segment, trouble.fault)
        plaintext == IF o.ok THEN Some(o.plaintext) ELSE None
    IN  IF ~f.ok THEN f
        ELSE Reached([f.reader EXCEPT
                        !.keys = o.state,
                        !.scratch = decrypt_with(@, plaintext),
                        !.cached_position = IF o.ok THEN Some(segment.position) ELSE @],
                     f.at, o.ok, <<>>)

load_cached_segment(r, segment, trouble) ==
    IF r.cached_position = Some(segment.position) THEN Reached(r, at, TRUE, <<>>)
    ELSE load_segment(r, segment, trouble)

(* decrypt_segment_direct: opened into the caller's slice. *)
decrypt_segment_direct(r, segment, trouble) ==
    LET f == fetch_segment_ciphertext(r, segment, trouble)
        o == opening(f.reader, segment, trouble.fault)
    IN  IF ~f.ok THEN f
        ELSE Reached([f.reader EXCEPT !.keys = o.state], f.at, o.ok,
                     IF o.ok THEN o.plaintext.data ELSE <<>>)

-----------------------------------------------------------------------------
(* The constructors. *)

(* Mutant: the final segment is not authenticated. *)
final_is_authentic_assumed(loaded) == TRUE

final_is_authentic(loaded) == loaded.ok

(* from_parts, without the seek back to the body. *)
from_parts(ctx, start, length, trouble) ==
    LET layout == ciphertext_layout(ctx.parameters, length)
        fresh == [context |-> ctx, keys |-> KeyCache_new(ctx), layout |-> layout.value,
                  message_start |-> start, scratch |-> buffer_new(ctx.parameters),
                  plaintext_position |-> 0, cached_position |-> None, inner_position |-> None]
        loaded == load_segment(fresh, CHOOSE s \in final_segment(layout.value) : TRUE, trouble)
    IN  IF ~layout.ok \/ ~final_is_authentic(loaded) THEN None
        ELSE Some([loaded.reader EXCEPT !.scratch = clear(@), !.cached_position = None])

(* new, new_with_parameters, new_with_length and                           *)
(* new_with_length_and_parameters: without a given length the message      *)
(* extends to the end of the source.  An I/O error outside the loading of  *)
(* the final segment fails the constructor, and a failed constructor drops *)
(* the wrapped reader.                                                     *)
new(parameters, given, io_ok, trouble) ==
    LET h == read_header(source, at, HEADER_LENGTH)
        ctx == IF h.ok THEN opened_context(key, aad, parameters, h.header) ELSE None
        length == IF given = None THEN Len(source) - at ELSE CHOOSE l \in given : TRUE
        made == UNION {from_parts(c, at, length, trouble) : c \in ctx}
        body == at + HEADER_LENGTH
    IN  /\ reader = None /\ answer = no_answer
        /\ reader' = IF io_ok /\ length >= HEADER_LENGTH
                     THEN {[r EXCEPT !.inner_position = Some(body)] : r \in made} ELSE None
        /\ at' = IF reader' = None THEN at ELSE body
        /\ Answers("new", reader' # None, 0, 0, <<>>)
        /\ UNCHANGED <<sent, source, ranging>>

-----------------------------------------------------------------------------
(* Sequential access. *)

idle == ranging = None /\ answer = no_answer

(* A call that opened a segment has ended. *)
Ends(op, step, from, to, bytes) ==
    /\ reader' = Some(step.reader)
    /\ at' = step.at
    /\ IF step.ok THEN Answers(op, TRUE, from, to, bytes) ELSE Answers(op, FALSE, 0, 0, <<>>)
    /\ UNCHANGED <<sent, source>>

read_nothing(r, n) ==
    /\ n = 0 \/ r.plaintext_position >= r.layout.plaintext_length
    /\ IF n = 0 THEN Answers("read_empty", TRUE, 0, 0, <<>>)
       ELSE Answers("read", TRUE, r.plaintext_position, r.plaintext_position, <<>>)
    /\ UNCHANGED <<sent, source, at, reader, ranging>>

segment_with(r, offset) ==
    CHOOSE s \in segment_for_position(r.layout, position_for_plaintext_offset(r.layout, offset)) : TRUE

read(r, n, trouble) ==
    LET position == r.plaintext_position
        segment == segment_with(r, position)
        step == load_cached_segment(r, segment, trouble)
        local == position - segment.plaintext_offset
        payload == step.reader.scratch.payload
        length == least(n, Len(payload) - local)
    IN  /\ n > 0 /\ position < r.layout.plaintext_length
        /\ IF step.ok
           THEN Ends("read", [step EXCEPT !.reader.plaintext_position = position + length],
                     position, position + length, Slice(payload, local, length))
           ELSE Ends("read", step, 0, 0, <<>>)
        /\ UNCHANGED ranging

(* u64::checked_add_signed *)
checked_add_signed(base, delta) ==
    IF base + delta \in 0 .. U64_MAX THEN Some(base + delta) ELSE None

(* Seek from the start, the end or the current position. *)
seek(r, whence, offset) ==
    LET base == CASE whence = "Start" -> 0
                  [] whence = "End" -> r.layout.plaintext_length
                  [] whence = "Current" -> r.plaintext_position
        resolved == checked_add_signed(base, offset)
    IN  /\ reader' = IF resolved = None THEN reader
                     ELSE {[r EXCEPT !.plaintext_position = p] : p \in resolved}
        /\ IF resolved = None THEN Answers("seek", FALSE, 0, 0, <<>>)
           ELSE \E p \in resolved : Answers("seek", TRUE, base + offset, p, <<>>)
        /\ UNCHANGED <<sent, source, at, ranging>>

-----------------------------------------------------------------------------
(* Positioned access. *)

Refused(op) == Answers(op, FALSE, 0, 0, <<>>) /\ UNCHANGED <<sent, source, at, reader, ranging>>

(* read_segment and read_segment_into. *)
read_segment(r, position, room, trouble) ==
    LET found == segment_for_position(r.layout, position)
        segment == CHOOSE s \in found : TRUE
        step == decrypt_segment_direct(r, segment, trouble)
    IN  IF found = None \/ ~room THEN Refused("read_at")
        ELSE /\ Ends("read_at", step, segment.plaintext_offset,
                     segment.plaintext_offset + segment.plaintext_length, step.bytes)
             /\ UNCHANGED ranging

(* resolve_bounds; a bound is [kind, value]. *)
resolve_start(bound) == CASE bound.kind = "Included" -> Some(bound.value)
                          [] bound.kind = "Excluded" -> checked_add(bound.value, 1)
                          [] bound.kind = "Unbounded" -> Some(0)

resolve_end(bound, length) == CASE bound.kind = "Included" -> checked_add(bound.value, 1)
                                [] bound.kind = "Excluded" -> Some(bound.value)
                                [] bound.kind = "Unbounded" -> Some(length)

(* Mutant: the end of a range is not compared with the message's length. *)
resolve_bounds_unvalidated(from, to, length) ==
    {range \in [start : resolve_start(from), end : resolve_end(to, length)] :
       range.start <= range.end}

resolve_bounds(from, to, length) ==
    {range \in [start : resolve_start(from), end : resolve_end(to, length)] :
       range.start <= range.end /\ range.end <= length}

(* read_range and read_range_into, up to the loop over the segments. *)
read_range(r, from, to, room) ==
    LET resolved == resolve_bounds(from, to, r.layout.plaintext_length)
    IN  IF resolved = None \/ ~room THEN Refused("read_at")
        ELSE \E range \in resolved :
                IF range.start = range.end
                THEN /\ Answers("read_at", TRUE, range.start, range.end, <<>>)
                     /\ UNCHANGED <<sent, source, at, reader, ranging>>
                ELSE /\ ranging' = Some([range |-> range, written |-> <<>>,
                            next |-> position_for_plaintext_offset(r.layout, range.start)])
                     /\ UNCHANGED <<sent, source, at, reader, answer>>

is_covered_fully(range, segment) ==
    /\ range.start <= segment.plaintext_offset
    /\ segment.plaintext_offset + segment.plaintext_length <= range.end

(* Mutant: a range is cut from the start of every segment. *)
chunk_of_unshifted(range, segment, payload) ==
    Slice(payload, 0, least(range.end, segment.plaintext_offset + Len(payload))
                        - segment.plaintext_offset)

chunk_of(range, segment, payload) ==
    LET shift == range.start - segment.plaintext_offset
        local_start == IF shift < 0 THEN 0 ELSE least(shift, Len(payload))
        local_end == least(range.end, segment.plaintext_offset + Len(payload))
                       - segment.plaintext_offset
    IN  Slice(payload, local_start, local_end - local_start)

(* One round of the loop of read_resolved_range_into, and its end. *)
read_range_segment(r, trouble) ==
    \E call \in ranging :
        LET range == call.range
            segment == CHOOSE s \in segment_for_position(r.layout, call.next) : TRUE
            covered == is_covered_fully(range, segment)
            step == IF covered THEN decrypt_segment_direct(r, segment, trouble)
                               ELSE load_cached_segment(r, segment, trouble)
            chunk == IF covered THEN step.bytes
                     ELSE chunk_of(range, segment, step.reader.scratch.payload)
            written == call.written \o chunk
            last == position_for_plaintext_offset(r.layout, range.end - 1)
        IN  IF step.ok /\ call.next < last
            THEN /\ ranging' = Some([call EXCEPT !.next = @ + 1, !.written = written])
                 /\ reader' = Some(step.reader) /\ at' = step.at
                 /\ UNCHANGED <<sent, source, answer>>
            ELSE /\ ranging' = None
                 /\ Ends("read_at", step, range.start, range.end, written)

-----------------------------------------------------------------------------
(* Mutant: the tracked position is kept. *)
after_get_mut_kept(r) == r

after_get_mut(r) == [r EXCEPT !.inner_position = None]

(* get_mut, through which the caller may move the wrapped reader. *)
get_mut(r, position) ==
    /\ reader' = Some(after_get_mut(r))
    /\ at' = position
    /\ Answers("get_mut", TRUE, 0, 0, <<>>)
    /\ UNCHANGED <<sent, source, ranging>>

into_inner ==
    /\ reader # None /\ idle
    /\ reader' = None
    /\ Answers("into_inner", TRUE, 0, 0, <<>>)
    /\ UNCHANGED <<sent, source, at, ranging>>

(* The caller goes on with what was returned. *)
take_answer ==
    /\ reader # None /\ answer # no_answer
    /\ answer' = no_answer
    /\ UNCHANGED <<sent, source, at, reader, ranging>>

Deltas == Distances \cup {0 - d : d \in Distances}

Bounds == [kind : {"Included", "Excluded"}, value : RangeEnds]
            \cup {[kind |-> "Unbounded", value |-> 0]}

Next ==
    \/ \E parameters \in {None, Some(SegmentLength), Some(SegmentLength + 1)},
          given \in {None} \cup {Some(l) : l \in 0 .. U64_MAX}, io_ok \in BOOLEAN,
          trouble \in Troubles : new(parameters, given, io_ok, trouble)
    \/ /\ idle
       /\ \E r \in reader :
             \/ \E n \in 0 .. MaxRead : read_nothing(r, n)
             \/ \E n \in 0 .. MaxRead, trouble \in Troubles : read(r, n, trouble)
             \/ \E offset \in Positions : seek(r, "Start", offset)
             \/ \E whence \in {"End", "Current"}, delta \in Deltas :
                   /\ seek(r, whence, delta)
                   /\ answer'.to \in Positions
             \/ \E position \in 0 .. r.layout.segment_count, room \in BOOLEAN, trouble \in Troubles :
                   read_segment(r, position, room, trouble)
             \/ \E from, to \in Bounds, room \in BOOLEAN : read_range(r, from, to, room)
             \/ get_mut(r, Len(source))
    \/ \E r \in reader, trouble \in Troubles : read_range_segment(r, trouble)
    \/ into_inner
    \/ take_answer

Spec == Init /\ [][Next]_vars

-----------------------------------------------------------------------------
(* The position the Reader tracks is where the wrapped reader really is,   *)
(* after failed seeks, short reads and get_mut too: a skipped seek never   *)
(* makes it read somewhere else.                                           *)
TrackedPositionIsTrue == \A r \in reader : r.inner_position \in {None, Some(at)}

(* The scratch buffer of a Reader that claims to have a segment cached     *)
(* holds the authentic plaintext of just that segment.                     *)
CacheIsFresh ==
    \A r \in reader : \A i \in r.cached_position :
        /\ holds_plaintext(r.scratch)
        /\ plaintext_of(r.scratch.payload) = sent.segments[i + 1].plaintext

(* The segment of this position is unaltered in its place. *)
IntactAt(r, segment) ==
    LET bytes == segment_bytes(sent.segments[segment.position + 1])
    IN  Slice(source, r.message_start + segment.ciphertext_offset, Len(bytes)) = bytes

(* A Reader exists only on a source, and with a length, that has the       *)
(* message's own header and final segment in the places of its true        *)
(* layout: neither a cut at a segment boundary nor a wrong length opens.   *)
OpensOnlyTheWholeLength ==
    \A r \in reader :
        /\ r.context = contexts.ours
        /\ Ok(r.layout) = ciphertext_layout(SegmentLength, Len(intact(sent)))
        /\ Slice(source, r.message_start, HEADER_LENGTH) = header_bytes(headers.ours)
        /\ r.message_start + Len(intact(sent)) <= Len(source)
        /\ \A segment \in final_segment(r.layout) : IntactAt(r, segment)

(* No failure is for good: whatever failed before, a segment that is       *)
(* unaltered in the source can be read by the next call that meets no      *)
(* trouble, through the cache and past it.  A range read under way has a   *)
(* segment left to read, so that the error which the Reader's segment      *)
(* returns for a position past the layout cannot end it.                   *)
AlwaysReadable ==
    /\ \A range \in ranging, r \in reader : range.next < r.layout.segment_count
    /\ idle => \A r \in reader : \A i \in 0 .. r.layout.segment_count - 1 :
           \A segment \in segment_for_position(r.layout, i) :
               IntactAt(r, segment) =>
                   LET cached == load_cached_segment(r, segment, no_trouble)
                       direct == decrypt_segment_direct(r, segment, no_trouble)
                       bytes == sent.segments[i + 1].plaintext.data
                   IN  /\ cached.ok /\ cached.reader.scratch.payload = bytes
                       /\ direct.ok /\ direct.bytes = bytes

(* The Reader implements SeekableFile on the message's plaintext.          *)
File == INSTANCE SeekableFile
          WITH PositionMax <- U64_MAX, contents <- sent.bytes, open <- (reader # None),
               position <- IF reader = None THEN 0
                           ELSE (CHOOSE r \in reader : TRUE).plaintext_position

(* Sequential, segment and range reads return exactly the message's bytes  *)
(* at the position asked for, at least one before the end, or an error     *)
(* that moves nothing.                                                     *)
ImplementsFile == File!Spec

=============================================================================
