---------------------------- MODULE DecryptReader ----------------------------
(***************************************************************************)
(* The decrypting reader over an unreliable ciphertext source (src/io.rs). *)
(*                                                                         *)
(* The source holds a message, cut off anywhere, altered, spliced with     *)
(* another message, or followed by one; the wrapped reader may also fail   *)
(* at any byte.  The caller mixes reads of any size with the four ways to  *)
(* finish, whose draining loop takes one step per segment, and may look at *)
(* the wrapped reader through get_mut while the source grows.              *)
(***************************************************************************)
EXTENDS Ciphertexts

CONSTANT MaxRead    \* bound on the length of one read

(* The messages are messages: each has a layout, and the other one, of two *)
(* segments, has positions enough.                                         *)
ASSUME DecryptReaderAssumption ==
    /\ MaxRead \in Nat
    /\ AEAD_MAX_SEGMENTS > 1
    /\ \A n \in Lengths : plaintext_layout(SegmentLength, n).ok

VARIABLES
    sent,        \* the message the source is made of, as [bytes, segments]
    source,      \* the bytes the wrapped reader holds
    at,          \* how many of them it has delivered
    began,       \* where the present DecryptReader was put on the source
    decrypting,  \* Option<DecryptReader>
    delivered,   \* the bytes read has returned since then
    drained,     \* whether a finishing call has discarded plaintext since then
    call,        \* the finishing call under way, or "idle"
    result,      \* the last call and its result
    failing      \* whether the wrapped reader or the backend has ever failed

decryptVars == <<sent, source, at, began, decrypting, delivered, drained, call, result, failing>>

Init ==
    /\ sent \in Messages
    /\ source \in Held(sent)
    /\ at = 0 /\ began = 0
    /\ decrypting = None
    /\ delivered = <<>> /\ drained = FALSE
    /\ call = "idle"
    /\ result = [op |-> "none", ok |-> TRUE, eof |-> FALSE]
    /\ failing = FALSE

(* What a call returned; eof is Ok(0) for a non-empty slice. *)
Results(op, ok, eof) == result' = [op |-> op, ok |-> ok, eof |-> eof]

from_decryptor(ctx) ==
    [context |-> ctx, decryptor |-> Some(Decryptor_new(ctx)),
     buffer |-> buffer_new(ctx.parameters), consumed |-> 0, available |-> 0, status |-> "Open"]

(* new (parameters is None) and new_with_parameters, on a source or on     *)
(* what finish_frame left of it.                                           *)
new(parameters, fault, budget) ==
    LET h == read_header(source, at, budget)
        ctx == IF h.ok /\ fault = "none" THEN opened_context(key, aad, parameters, h.header)
                                         ELSE None
    IN  /\ decrypting = None
        /\ result.op = "none" \/ (result.op = "finish_frame" /\ result.ok)
        /\ decrypting' = {from_decryptor(c) : c \in ctx}
        /\ at' = h.at /\ began' = at
        /\ delivered' = <<>> /\ drained' = FALSE
        /\ failing' = (failing \/ fault # "none" \/ budget < HEADER_LENGTH)
        /\ Results("new", ctx # None, FALSE)
        /\ UNCHANGED <<sent, source, call>>

-----------------------------------------------------------------------------
the(option) == CHOOSE x \in option : TRUE

(* Fetching and opening a segment.  A step is the reader and the position  *)
(* of the source after it, whether it succeeded and the bytes it returns.  *)

Opened(r, position, ok, bytes) == [reader |-> r, at |-> position, ok |-> ok, bytes |-> bytes]

(* The rest of a segment whose prefix declares this length. *)
fetch_body(r, length, budget) ==
    LET read == SEGMENT_PREFIX_LENGTH
        rest == read_fully(source, at + read, length - read, budget - read)
        bytes == Slice(source, at, read + rest.got)
    IN  Opened([r EXCEPT !.buffer =
                  prepare_ciphertext(@, [segment_in(bytes) EXCEPT !.length = length])],
               at + read + rest.got, rest.ok /\ read + rest.got = length, <<>>)

fetch_framed(r, prefix, framed, budget) ==
    IF ~prefix.ok \/ prefix.got < SEGMENT_PREFIX_LENGTH \/ ~framed.ok
    THEN Opened(r, at + prefix.got, FALSE, <<>>)
    ELSE fetch_body(r, framed.value.ciphertext_length, budget)

(* fetch_segment: the prefix, then as much as it declares.  Both reads     *)
(* share the place of an error.                                            *)
fetch_segment(r, budget) ==
    LET prefix == read_fully(source, at, SEGMENT_PREFIX_LENGTH, budget)
    IN  fetch_framed(r, prefix, decode_framing(r.context.parameters,
                                               prefix_in(Slice(source, at, prefix.got))), budget)

(* Mutant: a final segment without payload is refused. *)
finish_if_final_nonempty(r, segment, ok) ==
    IF ~ok \/ segment.prefix = U32_MAX THEN [reader |-> r, ok |-> ok]
    ELSE [reader |-> [r EXCEPT !.decryptor = None, !.status = "FrameComplete"],
          ok |-> segment.length > SEGMENT_OVERHEAD]

(* finish_if_final, once the segment has been opened. *)
finish_if_final(r, segment, ok) ==
    IF ~ok \/ segment.prefix = U32_MAX THEN [reader |-> r, ok |-> ok]
    ELSE IF finish(the(r.decryptor)) # "Ok"
    THEN [reader |-> [r EXCEPT !.decryptor = None], ok |-> FALSE]
    ELSE [reader |-> [r EXCEPT !.decryptor = None, !.status = "FrameComplete"], ok |-> TRUE]

(* Mutant: an error is returned and the reader is as it was. *)
poisoned_never(step) == step

poisoned(step) == IF step.ok THEN step ELSE [step EXCEPT !.reader.status = "Failed"]

(* A segment was fetched and opened, and done is what finish_if_final      *)
(* returned.                                                               *)
after_opening(f, done, available, bytes) ==
    IF done.ok
    THEN Opened([done.reader EXCEPT !.consumed = 0, !.available = available], f.at, TRUE, bytes)
    ELSE Opened(done.reader, f.at, FALSE, <<>>)

after_loading(f, opening) ==
    after_opening(f,
        finish_if_final([f.reader EXCEPT !.decryptor = Some(opening.call.decryptor),
                                         !.buffer = opening.buffer],
                        the(f.reader.buffer.segment), opening.call.plaintext # None),
        Len(opening.buffer.payload), <<>>)

load_fetched(r, f, fault) ==
    IF ~f.ok \/ r.decryptor = None THEN [f EXCEPT !.ok = FALSE]
    ELSE after_loading(f, decrypt_in_place(the(r.decryptor), r.context, f.reader.buffer, fault))

(* load_segment, after fetch_segment returned f: the segment is opened in  *)
(* the buffer.                                                             *)
load_segment(r, f, fault) == poisoned(load_fetched(r, f, fault))

after_direct(f, opening) ==
    after_opening(f,
        finish_if_final([f.reader EXCEPT !.decryptor = Some(opening.decryptor)],
                        the(f.reader.buffer.segment), opening.plaintext # None),
        0, the(opening.plaintext).data)

open_fetched(r, f, fault) ==
    IF ~f.ok \/ r.decryptor = None THEN [f EXCEPT !.ok = FALSE]
    ELSE after_direct(f, decrypt_segment(the(r.decryptor), r.context,
                                         the(f.reader.buffer.segment), TRUE, fault))

(* read_segment_direct, after fetch_segment returned f: the segment is     *)
(* opened into the caller's slice, and the buffer keeps the ciphertext.    *)
read_segment_direct(r, f, fault) == poisoned(open_fetched(r, f, fault))

(* Mutant: what was returned before is returned again. *)
copy_out_again(step, n) ==
    LET r == step.reader
        read == least(n, r.available)
    IN  IF ~step.ok \/ r.available = r.consumed THEN step
        ELSE Opened([r EXCEPT !.consumed = read], step.at, TRUE, Slice(r.buffer.payload, 0, read))

(* The end of read: as much of the opened segment as fits. *)
copy_out(step, n) ==
    LET r == step.reader
        read == least(n, r.available - r.consumed)
    IN  IF ~step.ok \/ r.available = r.consumed THEN step
        ELSE Opened([r EXCEPT !.consumed = @ + read], step.at, TRUE,
                    Slice(r.buffer.payload, r.consumed, read))

-----------------------------------------------------------------------------
(* read(n), by the path it takes. *)

Gave(ended, n, cause) ==
    \E step \in {ended} :
        /\ decrypting' = Some(step.reader)
        /\ at' = step.at
        /\ delivered' = delivered \o step.bytes
        /\ Results("read", step.ok, step.ok /\ n > 0 /\ step.bytes = <<>>)
        /\ failing' = (failing \/ cause)
        /\ UNCHANGED <<sent, source, began, drained, call>>

read_refused(r, n) ==
    /\ n = 0 \/ r.status = "Failed"
    /\ Gave(Opened(r, at, n = 0, <<>>), n, FALSE)

reads(r, n) == n > 0 /\ r.status # "Failed"
all_consumed(r) == r.consumed = r.available
frame_complete(r) == r.status \in {"FrameComplete", "StreamComplete"}

(* Mutant: the end of the source is the end of the message. *)
read_at_end_of_source(r, n) ==
    /\ reads(r, n) /\ all_consumed(r) /\ (frame_complete(r) \/ at = Len(source))
    /\ Gave(Opened(r, at, TRUE, <<>>), n, FALSE)

read_at_end(r, n) ==
    /\ reads(r, n) /\ all_consumed(r) /\ frame_complete(r)
    /\ Gave(Opened(r, at, TRUE, <<>>), n, FALSE)

capacity_of(r) == plaintext_segment_length(r.context.parameters)

(* Whether the wrapped reader or the backend fails in the call; a budget   *)
(* past a whole segment never does.                                        *)
caused(fault, budget) == fault # "none" \/ budget < SegmentLength

read_direct(r, n, fault, budget) ==
    /\ reads(r, n) /\ all_consumed(r) /\ ~frame_complete(r) /\ n >= capacity_of(r)
    /\ \E f \in {fetch_segment(r, budget)} :
          Gave(read_segment_direct(r, f, fault), n, caused(fault, budget))

(* The debug assertion there, that only a final segment can be empty, is   *)
(* part of EndIsHonest.                                                    *)
read_loading(r, n, fault, budget) ==
    /\ reads(r, n) /\ all_consumed(r) /\ ~frame_complete(r) /\ n < capacity_of(r)
    /\ \E f \in {fetch_segment(r, budget)} : \E step \in {load_segment(r, f, fault)} :
          Gave(copy_out(step, n), n, caused(fault, budget))

read_loaded(r, n) ==
    /\ reads(r, n) /\ ~all_consumed(r)
    /\ Gave(copy_out(Opened(r, at, TRUE, <<>>), n), n, FALSE)

read(r, n, fault, budget) ==
    \/ read_refused(r, n)
    \/ read_at_end(r, n)
    \/ read_direct(r, n, fault, budget)
    \/ read_loading(r, n, fault, budget)
    \/ read_loaded(r, n)

-----------------------------------------------------------------------------
(* try_finish, try_finish_frame, finish and finish_frame. *)

whole_stream(op) == op \in {"try_finish", "finish"}
consuming(op) == op \in {"finish", "finish_frame"}

(* The call returns; finish and finish_frame consume the reader. *)
Finishes(op, r, ok) ==
    /\ decrypting' = IF consuming(op) THEN None ELSE Some(r)
    /\ call' = "idle"
    /\ Results(op, ok, FALSE)

(* No further I/O once the end of the stream was verified. *)
finish_again(r, op) ==
    /\ whole_stream(op) /\ r.status = "StreamComplete"
    /\ Finishes(op, r, TRUE)
    /\ UNCHANGED <<sent, source, at, began, delivered, drained, failing>>

(* The call enters drain_message. *)
finish_begin(r, op) ==
    /\ ~(whole_stream(op) /\ r.status = "StreamComplete")
    /\ decrypting' = Some([r EXCEPT !.consumed = r.available])
    /\ drained' = (drained \/ r.consumed # r.available \/ r.status = "Open")
    /\ call' = op
    /\ UNCHANGED <<sent, source, at, began, delivered, result, failing>>

Drained(ended) ==
    \E step \in {ended} :
        /\ IF step.ok
           THEN /\ decrypting' = Some([step.reader EXCEPT !.consumed = step.reader.available])
                /\ UNCHANGED <<call, result>>
           ELSE Finishes(call, step.reader, FALSE)
        /\ at' = step.at

(* One round of drain_message's loop. *)
drain_segment(r, fault, budget) ==
    /\ r.status = "Open"
    /\ \E f \in {fetch_segment(r, budget)} : Drained(load_segment(r, f, fault))
    /\ failing' = (failing \/ caused(fault, budget))
    /\ UNCHANGED <<sent, source, began, delivered, drained>>

(* The loop has ended, and with it a finishing of the frame. *)
drain_returns(r) ==
    /\ r.status # "Open"
    /\ r.status = "Failed" \/ ~whole_stream(call)
    /\ Finishes(call, r, r.status # "Failed")
    /\ UNCHANGED <<sent, source, at, began, delivered, drained, failing>>

(* Mutant: only an error means that the stream does not end there. *)
after_trailing_any(trailing) == IF trailing.ok THEN "StreamComplete" ELSE "Failed"

after_trailing(trailing) == IF trailing.ok /\ trailing.got = 0 THEN "StreamComplete" ELSE "Failed"

(* try_finish looks for one byte after the message. *)
check_trailing(r, budget) ==
    LET trailing == read_fully(source, at, 1, budget)
        status == after_trailing(trailing)
    IN  /\ frame_complete(r) /\ whole_stream(call)
        /\ Finishes(call, [r EXCEPT !.status = status], status = "StreamComplete")
        /\ at' = at + trailing.got
        /\ failing' = (failing \/ ~trailing.ok)
        /\ UNCHANGED <<sent, source, began, delivered, drained>>

finishing(fault, budget) ==
    /\ call # "idle"
    /\ \E r \in decrypting : \/ drain_segment(r, fault, budget)
                             \/ drain_returns(r)
                             \/ check_trailing(r, budget)

-----------------------------------------------------------------------------
(* Mutant: the verified end stays verified. *)
after_get_mut_kept(r) == r

after_get_mut(r) ==
    IF r.status = "StreamComplete" THEN [r EXCEPT !.status = "FrameComplete"] ELSE r

(* get_mut, through which the caller sees that the source may have grown,  *)
(* by one byte at most once.                                               *)
get_mut(r, grown) ==
    /\ grown = <<>> \/ source = <<>> \/ source[Len(source)] # junk[1]
    /\ decrypting' = Some(after_get_mut(r))
    /\ source' = source \o grown
    /\ Results("get_mut", TRUE, FALSE)
    /\ UNCHANGED <<sent, at, began, delivered, drained, call, failing>>

(* into_inner_unchecked, or dropping the reader. *)
into_inner_unchecked ==
    /\ call = "idle" /\ decrypting # None
    /\ decrypting' = None
    /\ Results("drop", TRUE, FALSE)
    /\ UNCHANGED <<sent, source, at, began, delivered, drained, call, failing>>

(* What may go wrong in a call, at most one thing: an error of the wrapped *)
(* reader ends the call, so that the backend fails only without one.       *)
Troubles ==
    [fault : {"none"}, budget : 0 .. SegmentLength]
        \cup [fault : {"kdf", "aead"}, budget : {SegmentLength}]

Next ==
    \/ \E parameters \in {None, Some(SegmentLength), Some(SegmentLength + 1)},
          trouble \in Troubles : new(parameters, trouble.fault, trouble.budget)
    \/ /\ call = "idle"
       /\ \E r \in decrypting :
             \/ \E n \in 0 .. MaxRead, trouble \in Troubles : read(r, n, trouble.fault, trouble.budget)
             \/ \E op \in {"try_finish", "try_finish_frame", "finish", "finish_frame"} :
                   finish_again(r, op) \/ finish_begin(r, op)
             \/ \E grown \in {<<>>, junk} : get_mut(r, grown)
    \/ \E trouble \in Troubles : finishing(trouble.fault, trouble.budget)
    \/ into_inner_unchecked

Spec == Init /\ [][Next]_decryptVars

-----------------------------------------------------------------------------
(* Whatever the source holds and however it fails, read returns the        *)
(* authentic plaintext of one message from its first byte on, without gap, *)
(* repetition or a byte of another message.                                *)
DeliversAPrefix ==
    \A r \in decrypting :
        LET bytes == message_of(r.context, sent).bytes
        IN  Len(delivered) <= Len(bytes) /\ delivered = Slice(bytes, 0, Len(delivered))

(* A reader reports a complete frame only for a whole unaltered message,   *)
(* and then has left the wrapped reader exactly after its final segment    *)
(* (finish_frame hands it on there); it reports a complete stream only if  *)
(* that is also where the source ends, as far as the reader can know.      *)
CompleteIsWhole ==
    \A r \in decrypting :
        frame_complete(r) =>
            /\ holds_whole(source, began, r.context, sent)
            /\ at = began + Len(bytes_of_message(r.context, sent))
            /\ r.status = "StreamComplete" => at = Len(source)

is_finished(r) == frame_complete(r) /\ all_consumed(r)

(* No silent truncation: a reader that reports its end, by Ok(0) to a      *)
(* non-empty read or by is_finished, has returned the whole message, but   *)
(* for what a finishing call of the same caller discarded.                 *)
EndIsHonest ==
    \A r \in decrypting :
        is_finished(r) \/ result.eof =>
            /\ frame_complete(r)
            /\ drained \/ delivered = message_of(r.context, sent).bytes

(* Without an error of the wrapped reader or the backend, read, try_finish *)
(* and try_finish_frame never poison a reader of a whole unaltered         *)
(* message, in whatever portions it is read, except for bytes after it     *)
(* when the whole stream was to be finished.  (finish and finish_frame     *)
(* take the same steps and drop the reader; a refusal by new leaves none.) *)
RefusesOnlyForCause ==
    \A r \in decrypting :
        r.status = "Failed" /\ ~failing /\ holds_whole(source, began, r.context, sent) =>
            /\ Len(source) > began + Len(bytes_of_message(r.context, sent))
            /\ at = began + Len(bytes_of_message(r.context, sent)) + 1

(* A reader that returned an error is poisoned: it returns no more bytes,  *)
(* touches the wrapped reader no more, and never becomes complete.         *)
PoisonedForGood ==
    [][\A r \in decrypting :
          r.status = "Failed" \/ (result.op \in {"read", "try_finish", "try_finish_frame"} /\ ~result.ok)
            => /\ at' = at /\ delivered' = delivered
               /\ \A r2 \in decrypting' : ~frame_complete(r2)]_decryptVars

=============================================================================
