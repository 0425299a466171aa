---------------------------- MODULE EncryptReader ----------------------------
(***************************************************************************)
(* The encrypting reader over an unreliable plaintext reader (src/io.rs).  *)
(*                                                                         *)
(* The wrapped reader holds the bytes 1, 2, 3, ... of a message and may    *)
(* fail at any byte or instead of its end.  The caller reads ciphertext in *)
(* pieces of any size, whole segments and more included.                   *)
(***************************************************************************)
EXTENDS ByteStream

CONSTANTS
    SegmentLength,    \* the reader's parameter set
    MaxBytes,         \* bound on the length of the message
    MaxRead           \* bound on the length of one read

ASSUME EncryptReaderAssumption ==
    /\ SegmentLength \in VALID_SEGMENT_LENGTHS
    /\ MaxBytes \in Nat /\ MaxRead \in Nat

VARIABLES
    plain,       \* the bytes the wrapped reader holds
    taken,       \* how many of them it has delivered
    encrypting,  \* Option<EncryptReader>
    emitted,     \* the bytes that read has returned to the caller
    last,        \* the last call and its result
    broken       \* whether the wrapped reader or the backend has ever failed

encryptVars == <<plain, taken, encrypting, emitted, last, broken>>

context == Context("key", SegmentLength, "iv", "aad")
header == Header("key", SegmentLength, "iv", "aad")
capacity == plaintext_segment_length(SegmentLength)

Init ==
    /\ plain \in {[i \in 1 .. n |-> i] : n \in 0 .. MaxBytes}
    /\ taken = 0
    /\ encrypting = None
    /\ emitted = <<>>
    /\ last = [op |-> "none", ok |-> TRUE, eof |-> FALSE]
    /\ broken = FALSE

(* What a call returned; eof is Ok(0) for a non-empty slice. *)
Returned(op, ok, eof) == last' = [op |-> op, ok |-> ok, eof |-> eof]

(* EncryptReader::new, which fails if the encryptor cannot be made. *)
new(fault) ==
    /\ last.op = "none"
    /\ encrypting' = IF fault = "none"
                     THEN Some([encryptor |-> Some(Encryptor_new(context)),
                                header_position |-> 0,
                                buffer |-> buffer_new(SegmentLength),
                                ciphertext_position |-> 0, ciphertext_length |-> 0,
                                lookahead |-> None, status |-> "Open"])
                     ELSE None
    /\ Returned("new", fault = "none", FALSE)
    /\ broken' = (fault # "none")
    /\ UNCHANGED <<plain, taken, emitted>>

-----------------------------------------------------------------------------
(* Filling the buffer. *)

(* The prepared slice with its first bytes filled. *)
filled(bytes) == [i \in 1 .. capacity |-> IF i <= Len(bytes) THEN bytes[i] ELSE 0]

(* Mutant: the byte read ahead for the previous segment is forgotten. *)
staged_lookahead_dropped(r) == <<>>

(* The lookahead byte starts the segment. *)
staged_lookahead(r) == IF r.lookahead = None THEN <<>> ELSE <<CHOOSE b \in r.lookahead : TRUE>>

(* Mutant: a segment is final if its plaintext is short. *)
is_last_short(length, next) == length < capacity

(* Mutant: a full segment is final too. *)
is_last_eager(length, next) == length <= capacity

(* A full segment is final if nothing follows it. *)
is_last(length, next) == length < capacity \/ next.got = 0

(* fill_plaintext, once bytes are staged and next was read behind them. *)
after_filling(r, buffer, bytes, rest, next) ==
    IF rest.ok /\ next.ok
    THEN [ok |-> TRUE, taken |-> taken + rest.got + next.got,
          is_final |-> is_last(Len(bytes), next),
          reader |-> [r EXCEPT !.buffer = truncate_plaintext(buffer, Len(bytes)),
                               !.lookahead = IF next.got = 0 THEN None
                                             ELSE Some(plain[taken + rest.got + 1])]]
    ELSE [ok |-> FALSE, taken |-> taken + rest.got + next.got, is_final |-> FALSE,
          reader |-> [r EXCEPT !.buffer = buffer, !.lookahead = None]]

(* One byte ahead, if the segment is full. *)
look_ahead(r, bytes, rest, budget) ==
    after_filling(r, prepare_plaintext(r.buffer, filled(bytes)), bytes, rest,
        IF Len(bytes) = capacity
        THEN read_fully(plain, taken + rest.got, 1, budget - rest.got)
        ELSE [ok |-> TRUE, got |-> 0])

(* fill_plaintext: the rest of a segment, then the lookahead.  Both reads  *)
(* share the place of an error.                                            *)
fill_plaintext(r, budget) ==
    LET ahead == staged_lookahead(r)
        rest == read_fully(plain, taken, capacity - Len(ahead), budget)
    IN  look_ahead(r, ahead \o Slice(plain, taken, rest.got), rest, budget)

-----------------------------------------------------------------------------
(* Producing a segment.  A step is the reader after it, what it took from  *)
(* the wrapped reader, whether it succeeded and the bytes it returns.      *)

Produced(r, consumed, ok, bytes) == [reader |-> r, taken |-> consumed, ok |-> ok, bytes |-> bytes]

(* Mutant: an error is returned and the reader stays open. *)
poisoned_never(step) == step

poisoned(step) == IF step.ok THEN step ELSE [step EXCEPT !.reader.status = "Failed"]

next_batch(e) == e.state.nonces.batch + 1

loaded(r, length) == [r EXCEPT !.ciphertext_position = 0, !.ciphertext_length = length]

the(option) == CHOOSE x \in option : TRUE

(* A final segment consumes the encryptor whether it is sealed or not. *)
with_encryptor(f, encryptor) ==
    [f.reader EXCEPT !.encryptor = IF f.is_final THEN None ELSE encryptor]

sealed_status(f) == IF f.is_final THEN "Finished" ELSE f.reader.status

after_loading(f, call) ==
    LET r == [with_encryptor(f, call.call.encryptor) EXCEPT !.buffer = call.buffer]
    IN  IF call.ok
        THEN Produced([loaded(r, the(call.buffer.segment).length)
                         EXCEPT !.status = sealed_status(f)],
                      f.taken, TRUE, <<>>)
        ELSE Produced([r EXCEPT !.ciphertext_position = 0], f.taken, FALSE, <<>>)

load_filled(r, e, f, fault) ==
    IF ~f.ok \/ r.encryptor = None THEN Produced(f.reader, f.taken, FALSE, <<>>)
    ELSE after_loading(f,
           IF f.is_final
           THEN encrypt_final_in_place(e, context, f.reader.buffer, fault, next_batch(e))
           ELSE encrypt_non_final_in_place(e, context, f.reader.buffer, fault, next_batch(e)))

(* load_segment, after fill_plaintext returned f: the segment is sealed in *)
(* the buffer.                                                             *)
load_segment(r, f, fault) == poisoned(load_filled(r, the(r.encryptor), f, fault))

after_emitting(f, call) ==
    IF call.segment = None
    THEN Produced(with_encryptor(f, call.encryptor), f.taken, FALSE, <<>>)
    ELSE Produced([with_encryptor(f, call.encryptor) EXCEPT !.status = sealed_status(f)],
                  f.taken, TRUE, segment_bytes(the(call.segment)))

emit_filled(r, e, f, plaintext, fault) ==
    IF ~f.ok \/ r.encryptor = None THEN Produced(f.reader, f.taken, FALSE, <<>>)
    ELSE after_emitting(f,
           IF f.is_final
           THEN encrypt_final(e, context, plaintext, TRUE, fault, next_batch(e))
           ELSE encrypt_non_final(e, context, plaintext, TRUE, fault, next_batch(e)))

(* emit_segment_direct, after fill_plaintext returned f: the segment is    *)
(* sealed into the caller's slice, and the buffer keeps its plaintext.     *)
emit_segment_direct(r, f, fault) ==
    poisoned(emit_filled(r, the(r.encryptor), f, plaintext_of(f.reader.buffer.payload), fault))

(* The end of read: as much of the loaded segment as fits. *)
copy_out(step, n) ==
    LET r == step.reader
        bytes == segment_bytes(CHOOSE s \in r.buffer.segment : TRUE)
        read == least(n, r.ciphertext_length - r.ciphertext_position)
    IN  IF ~step.ok THEN step
        ELSE Produced([r EXCEPT !.ciphertext_position = @ + read], step.taken, TRUE,
                      Slice(bytes, r.ciphertext_position, read))

-----------------------------------------------------------------------------
(* read(n), by the path it takes. *)

(* The call ended in a step; errors without an outer cause are its own. *)
Gave(ended, n, cause) ==
    \E step \in {ended} :
        /\ encrypting' = Some(step.reader)
        /\ taken' = step.taken
        /\ emitted' = emitted \o step.bytes
        /\ Returned("read", step.ok, step.ok /\ n > 0 /\ step.bytes = <<>>)
        /\ broken' = (broken \/ cause)
        /\ UNCHANGED plain

read_refused(r, n) ==
    /\ n = 0 \/ r.status = "Failed"
    /\ Gave(Produced(r, taken, n = 0, <<>>), n, FALSE)

reads(r, n) == n > 0 /\ r.status # "Failed"
past_header(r) == r.header_position = HEADER_LENGTH
at_segment_end(r) == r.ciphertext_position = r.ciphertext_length

read_in_header(r, n) ==
    LET read == least(n, HEADER_LENGTH - r.header_position)
    IN  /\ reads(r, n) /\ ~past_header(r)
        /\ Gave(Produced([r EXCEPT !.header_position = @ + read], taken, TRUE,
                         Slice(header_bytes(header), r.header_position, read)),
                n, FALSE)

read_at_end(r, n) ==
    /\ reads(r, n) /\ past_header(r) /\ at_segment_end(r) /\ r.status = "Finished"
    /\ Gave(Produced(r, taken, TRUE, <<>>), n, FALSE)

(* An error of the wrapped reader, or a fault of the backend that the      *)
(* sealing of a segment can meet.                                          *)
caused(f, fault) == ~f.ok \/ fault # "none"

read_direct(r, n, fault, budget) ==
    /\ reads(r, n) /\ past_header(r) /\ at_segment_end(r) /\ r.status = "Open"
    /\ n >= SegmentLength
    /\ \E f \in {fill_plaintext(r, budget)} :
          Gave(emit_segment_direct(r, f, fault), n, caused(f, fault))

read_loading(r, n, fault, budget) ==
    /\ reads(r, n) /\ past_header(r) /\ at_segment_end(r) /\ r.status = "Open"
    /\ n < SegmentLength
    /\ \E f \in {fill_plaintext(r, budget)} : \E step \in {load_segment(r, f, fault)} :
          Gave(copy_out(step, n), n, caused(f, fault))

read_loaded(r, n) ==
    /\ reads(r, n) /\ past_header(r) /\ ~at_segment_end(r)
    /\ Gave(copy_out(Produced(r, taken, TRUE, <<>>), n), n, FALSE)

(* One call of read; budgets past a segment and its lookahead never fail. *)
read(r, n, fault, budget) ==
    \/ read_refused(r, n)
    \/ read_in_header(r, n)
    \/ read_at_end(r, n)
    \/ read_direct(r, n, fault, budget)
    \/ read_loading(r, n, fault, budget)
    \/ read_loaded(r, n)

(* into_inner_unfinished, or dropping the reader. *)
into_inner_unfinished ==
    /\ encrypting # None
    /\ encrypting' = None
    /\ Returned("drop", TRUE, FALSE)
    /\ UNCHANGED <<plain, taken, emitted, broken>>

(* What may go wrong in a call, at most one thing: an error of the wrapped *)
(* reader ends the call, so that the backend fails only without one.       *)
Troubles ==
    [fault : {"none"}, budget : 0 .. capacity + 1]
        \cup [fault : Faults, budget : {capacity + 1}]

Next ==
    \/ \E fault \in {"none", "rng", "kdf"} : new(fault)
    \/ \E r \in encrypting, n \in 0 .. MaxRead, trouble \in Troubles :
          read(r, n, trouble.fault, trouble.budget)
    \/ into_inner_unfinished

Spec == Init /\ [][Next]_encryptVars

-----------------------------------------------------------------------------
(* What the caller has read, by whichever mixture of direct and buffered   *)
(* reads and with whatever errors, is the start of the one message that    *)
(* the source's bytes make: the header, then full non-final segments, and  *)
(* a final one only for the bytes that nothing follows.                    *)
OutputIsTheMessage ==
    \A k \in 1 .. Len(emitted) :
        LET body == k - HEADER_LENGTH - 1
            position == body \div SegmentLength
            start == position * capacity
            length == least(capacity, Len(plain) - start)
            token == emitted[k]
        IN  IF k <= HEADER_LENGTH THEN token = header_bytes(header)[k]
            ELSE /\ token.at = (body % SegmentLength) + 1
                 /\ token.of = SEGMENT_OVERHEAD + length
                 /\ token.item.position = position
                 /\ token.item.kind = "Final" <=> start + capacity >= Len(plain)
                 /\ token.item.plaintext = plaintext_of(Slice(plain, start, length))
                 /\ token.at > 1 => token.item = emitted[k - 1].item

is_finished(r) == r.status = "Finished" /\ at_segment_end(r)

(* A reader that reports its end, by Ok(0) to a non-empty read or by       *)
(* is_finished, has returned the whole message, of the length that         *)
(* plaintext_layout computes, and the source was at its end.  It refuses   *)
(* only a ciphertext whose length is past u64.                             *)
EndMeansComplete ==
    LET layout == plaintext_layout(SegmentLength, Len(plain))
    IN  \A r \in encrypting :
            is_finished(r) \/ last.eof =>
                /\ taken = Len(plain)
                /\ IF layout.ok THEN Len(emitted) = layout.value.ciphertext_length
                                ELSE Len(emitted) > U64_MAX

(* Once a read has failed, no byte follows: the caller never obtains a     *)
(* stream with a hole where the error was.                                 *)
NothingAfterError ==
    [][(\E r \in encrypting : r.status = "Failed") \/ (last.op = "read" /\ ~last.ok)
         => emitted' = emitted]_encryptVars

=============================================================================
