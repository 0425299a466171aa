---------------------------- MODULE EncryptWriter ----------------------------
(***************************************************************************)
(* The encrypting writer over an unreliable wrapped writer (src/io.rs).    *)
(*                                                                         *)
(* The caller writes the bytes 1, 2, 3, ... of a message in pieces of any  *)
(* size, flushes and finishes.  A write_all of the wrapped writer succeeds *)
(* or fails, and when it fails any part of what it was given may have been *)
(* written; a segment that arrived in part is kept in the output as torn.  *)
(* The backend may fail in any encryption.                                 *)
(***************************************************************************)
EXTENDS SegmentBuffer

CONSTANTS
    SegmentLength,    \* the writer's parameter set
    MaxBytes,         \* bound on the bytes a caller has to write
    MaxWrite          \* bound on the length of one write

ASSUME EncryptWriterAssumption ==
    /\ SegmentLength \in VALID_SEGMENT_LENGTHS
    /\ MaxBytes \in Nat /\ MaxWrite \in Nat

VARIABLES
    writer,      \* Option<EncryptWriter>: [encryptor, buffer, status]
    inner,       \* what reached the wrapped writer: [whole, segment]
    header,      \* the header's fate: "none", "whole" or "torn"
    accepted,    \* the bytes that write has reported as written
    ret          \* the last call and its result

vars == <<writer, inner, header, accepted, ret>>

context == Context("key", SegmentLength, "iv", "aad")
capacity == plaintext_segment_length(SegmentLength)

(* What a failing write_all may leave: nothing or a part. *)
Outputs == {"whole", "nothing", "torn"}

Init ==
    /\ writer = None
    /\ inner = <<>>
    /\ header = "none"
    /\ accepted = 0
    /\ ret = [op |-> "none", ok |-> TRUE, asked |-> 0, n |-> 0]

Returns(op, ok, asked, n) == ret' = [op |-> op, ok |-> ok, asked |-> asked, n |-> n]

(* EncryptWriter::new writes the header; without it there is no writer. *)
new(io) ==
    /\ header = "none" /\ writer = None
    /\ header' = IF io = "nothing" THEN "none" ELSE io
    /\ writer' = IF io = "whole"
                 THEN Some([encryptor |-> Some(Encryptor_new(context)),
                            buffer |-> buffer_new(SegmentLength), status |-> "Open"])
                 ELSE None
    /\ Returns("new", io = "whole", 0, 0)
    /\ UNCHANGED <<inner, accepted>>

-----------------------------------------------------------------------------
(* The methods below act on a pair of a writer and its output. *)

Step(w, output, ok) == [writer |-> w, inner |-> output, ok |-> ok]

next_batch(e) == e.state.nonces.batch + 1

written(output, segment, io) ==
    IF io = "nothing" THEN output
    ELSE Append(output, [whole |-> io = "whole", segment |-> segment])

(* Mutant: an error is returned and the writer stays open. *)
poison_on_error_never(step) == step

poison_on_error(step) ==
    IF step.ok THEN step ELSE [step EXCEPT !.writer.status = "Failed"]

segment_of(buffer) == CHOOSE s \in buffer.segment : TRUE

emit_non_final(w, output, fault, io) ==
    LET e == CHOOSE x \in w.encryptor : TRUE
        r == encrypt_non_final_in_place(e, context, w.buffer, fault, next_batch(e))
        w2 == [w EXCEPT !.encryptor = r.call.encryptor, !.buffer = r.buffer]
    IN  poison_on_error(
          IF w.encryptor = None THEN Step(w, output, FALSE)
          ELSE IF ~r.ok THEN Step(w2, output, FALSE)
          ELSE Step(w2, written(output, segment_of(r.buffer), io), io = "whole"))

(* encrypt_non_final_segment_into the buffer's storage, which only then is *)
(* marked as a segment.                                                    *)
write_segment_direct(w, output, chunk, fault, io) ==
    LET e == CHOOSE x \in w.encryptor : TRUE
        r == encrypt_non_final(e, context, plaintext_of(chunk), TRUE, fault, next_batch(e))
        s == CHOOSE x \in r.segment : TRUE
        w2 == [w EXCEPT !.encryptor = r.encryptor, !.buffer = mark_ciphertext(@, s)]
    IN  poison_on_error(
          IF w.encryptor = None THEN Step(w, output, FALSE)
          ELSE IF r.segment = None
          THEN Step([w EXCEPT !.encryptor = r.encryptor], output, FALSE)
          ELSE Step(w2, written(output, s, io), io = "whole"))

(* finish_message takes the encryptor first: no failure gives it back. *)
finish_message(w, output, fault, io, flushed) ==
    LET e == CHOOSE x \in w.encryptor : TRUE
        buffer == IF holds_plaintext(w.buffer) THEN w.buffer
                                               ELSE prepare_plaintext(w.buffer, <<>>)
        r == encrypt_final_in_place(e, context, buffer, fault, next_batch(e))
        w2 == [w EXCEPT !.encryptor = None, !.buffer = r.buffer]
    IN  IF w.encryptor = None THEN Step(w, output, FALSE)
        ELSE IF ~r.ok THEN Step(w2, output, FALSE)
        ELSE IF io = "whole" /\ flushed
        THEN Step([w2 EXCEPT !.status = "Finished"], written(output, segment_of(r.buffer), io), TRUE)
        ELSE Step(w2, written(output, segment_of(r.buffer), io), FALSE)

-----------------------------------------------------------------------------
(* The next n bytes of the caller's message. *)
Input(n) == [i \in 1 .. n |-> accepted + i]

(* The call ended in step, having taken n of the asked bytes if it is Ok. *)
Wrote(op, step, asked, n) ==
    /\ writer' = Some(step.writer)
    /\ inner' = step.inner
    /\ accepted' = IF step.ok THEN accepted + n ELSE accepted
    /\ Returns(op, step.ok, asked, IF step.ok THEN n ELSE 0)
    /\ UNCHANGED header

(* write returns before it does anything. *)
write_refused(w, n) ==
    /\ n = 0 \/ w.status # "Open"
    /\ Returns("write", n = 0, n, 0)
    /\ UNCHANGED <<writer, inner, header, accepted>>

(* Mutant: the input overtakes the staged bytes. *)
takes_direct_overtaking(w, n) == n >= capacity

takes_direct(w, n) == n >= capacity /\ ~holds_plaintext(w.buffer)

(* A full segment of input and nothing staged. *)
write_direct(w, n, fault, io) ==
    /\ w.status = "Open" /\ takes_direct(w, n)
    /\ Wrote("write", write_segment_direct(w, inner, Input(capacity), fault, io), n, capacity)

copied(w, n) == IF n < extend_room(w.buffer) THEN n ELSE extend_room(w.buffer)

(* The input, or as much of it as fits, is staged. *)
write_staged(w, n) ==
    /\ w.status = "Open" /\ n > 0 /\ ~takes_direct(w, n)
    /\ copied(w, n) > 0
    /\ Wrote("write",
             Step([w EXCEPT !.buffer = extend_plaintext(@, Input(copied(w, n)))], inner, TRUE),
             n, copied(w, n))

(* Mutant: the call returns once the staged segment has been emitted. *)
after_emit_stop(emitted, n, fault, io) ==
    [step |-> emitted, n |-> 0]

(* What write does with its input after it emitted the staged segment. *)
after_emit(emitted, n, fault, io) ==
    IF ~emitted.ok THEN [step |-> emitted, n |-> 0]
    ELSE IF n >= capacity
    THEN [step |-> write_segment_direct(emitted.writer, emitted.inner, Input(capacity), fault, io),
          n |-> capacity]
    ELSE [step |-> [emitted EXCEPT !.writer.buffer = extend_plaintext(@, Input(n))], n |-> n]

(* The staged segment is full: emit it, then take the input. *)
write_full(w, n, fault, io, fault2, io2) ==
    /\ w.status = "Open" /\ n > 0 /\ ~takes_direct(w, n)
    /\ copied(w, n) = 0
    /\ LET done == after_emit(emit_non_final(w, inner, fault, io), n, fault2, io2)
       IN  Wrote("write", done.step, n, done.n)

(* Write::flush: a failure of the wrapped flush does not poison. *)
flush(w, flushed) ==
    /\ Returns("flush", w.status # "Failed" /\ flushed, 0, 0)
    /\ UNCHANGED <<writer, inner, header, accepted>>

(* try_finish, also as called by finish. *)
try_finish(w, fault, io, flushed) ==
    IF w.status = "Open"
    THEN Wrote("finish", poison_on_error(finish_message(w, inner, fault, io, flushed)), 0, 0)
    ELSE /\ Returns("finish", w.status = "Finished", 0, 0)
         /\ UNCHANGED <<writer, inner, header, accepted>>

(* into_inner_unfinished, or dropping the writer. *)
into_inner_unfinished ==
    /\ writer # None
    /\ writer' = None
    /\ Returns("drop", TRUE, 0, 0)
    /\ UNCHANGED <<inner, header, accepted>>

Next ==
    \/ \E io \in Outputs : new(io)
    \/ \E w \in writer, n \in 0 .. MaxWrite, fault, fault2 \in Faults, io, io2 \in Outputs :
          /\ accepted + n <= MaxBytes
          /\ \/ write_refused(w, n)
             \/ write_direct(w, n, fault, io)
             \/ write_staged(w, n)
             \/ write_full(w, n, fault, io, fault2, io2)
    \/ \E w \in writer, flushed \in BOOLEAN : flush(w, flushed)
    \/ \E w \in writer, fault \in Faults, io \in Outputs, flushed \in BOOLEAN :
          try_finish(w, fault, io, flushed)
    \/ into_inner_unfinished

Spec == Init /\ [][Next]_vars

-----------------------------------------------------------------------------
(* The bytes are those of the message that follow the first n. *)
Follow(bytes, n) == \A j \in 1 .. Len(bytes) : bytes[j] = n + j

(* What reached the wrapped writer is, in order and without gaps, the      *)
(* segments of the caller's bytes: every one but the last is whole, full   *)
(* and non-final.                                                          *)
OutputIsInOrder ==
    \A i \in 1 .. Len(inner) :
        LET s == inner[i].segment
        IN  /\ s.position = i - 1
            /\ Follow(s.plaintext.data, (i - 1) * capacity)
            /\ i < Len(inner) => inner[i].whole /\ s.kind = "NonFinal"
            /\ s.kind = "NonFinal" => s.plaintext.length = capacity

StagedBytes(w) == IF holds_plaintext(w.buffer) THEN w.buffer.payload ELSE <<>>

(* Every byte that write reported as written is in the output or staged,   *)
(* once, as long as the writer is open; when it is finished, every byte is *)
(* in the output, which a final segment ends.  In both cases no segment is *)
(* torn: only a failed writer leaves one.  A write of a non-empty          *)
(* input that succeeds takes at least one byte and no more than it was     *)
(* given, so that write_all neither stops with WriteZero nor skips input.  *)
NoByteIsLost ==
    /\ ret.op = "write" /\ ret.ok /\ ret.asked > 0 => ret.n \in 1 .. ret.asked
    /\ \A w \in writer :
        /\ w.status = "Open" =>
              /\ accepted = Len(inner) * capacity + Len(StagedBytes(w))
              /\ Follow(StagedBytes(w), Len(inner) * capacity)
              /\ \A i \in 1 .. Len(inner) : inner[i].whole /\ inner[i].segment.kind = "NonFinal"
        /\ w.status = "Finished" =>
              LET last == inner[Len(inner)]
              IN  /\ inner # <<>> /\ last.whole /\ last.segment.kind = "Final"
                  /\ accepted = (Len(inner) - 1) * capacity + last.segment.plaintext.length

(* Nothing follows a segment that arrived in part, and nothing follows a   *)
(* final segment: an error poisons the writer for good.                    *)
NothingAfterTornOrFinal ==
    [][(\E i \in 1 .. Len(inner) : ~inner[i].whole \/ inner[i].segment.kind = "Final")
         => inner' = inner]_vars

(* README.md recommends plaintext_layout for storage sizing: a finished    *)
(* message has as many segments as the layout of its length says.          *)
FinishedMatchesPlaintextLayout ==
    \A w \in writer :
        w.status = "Finished" =>
            Len(inner) = plaintext_layout(SegmentLength, accepted).value.segment_count

=============================================================================
