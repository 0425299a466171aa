------------------------- MODULE EncryptWriterProofs -------------------------
(***************************************************************************)
(* Proofs of the encrypting writer for every segment length, every length  *)
(* and split of the input, every fault of the backend and every failure of *)
(* the wrapped writer.                                                     *)
(***************************************************************************)
EXTENDS EncryptWriter, SegmentProofs

-----------------------------------------------------------------------------
(* The invariant. *)

(* What reached the wrapped writer is in order; OutputIsInOrder says this  *)
(* of inner.                                                               *)
Ordered(output) ==
    \A i \in 1 .. Len(output) :
        LET s == output[i].segment
        IN  /\ s.position = i - 1
            /\ Follow(s.plaintext.data, (i - 1) * capacity)
            /\ i < Len(output) => output[i].whole /\ s.kind = "NonFinal"
            /\ s.kind = "NonFinal" => s.plaintext.length = capacity

(* So far no segment was torn and none was final. *)
Unfinished(output) ==
    \A i \in 1 .. Len(output) : output[i].whole /\ output[i].segment.kind = "NonFinal"

GoodOutput(output) == IsSeq(output) /\ Ordered(output)

IsWriter(w) == w = [encryptor |-> w.encryptor, buffer |-> w.buffer, status |-> w.status]

(* The writer's staging buffer: its own parameters, and no more plaintext  *)
(* than a segment holds.                                                   *)
GoodBuffer(b) ==
    /\ IsBuffer(b) /\ b.parameters = SegmentLength
    /\ holds_plaintext(b) => b.payload \in Seq(Nat) /\ Len(b.payload) <= capacity

(* An open writer after `total` bytes were accepted: its encryptor stands  *)
(* at the position of the next segment, and output and staging buffer hold *)
(* the bytes.                                                              *)
OpenState(w, output, total) ==
    /\ w.status = "Open"
    /\ \E state : w.encryptor = Some(EncryptorAt(state, Len(output)))
    /\ GoodBuffer(w.buffer)
    /\ Unfinished(output)
    /\ total = Len(output) * capacity + Len(StagedBytes(w))
    /\ Follow(StagedBytes(w), Len(output) * capacity)

(* A finished writer's output ends with the only final segment. *)
FinishedState(output, total) ==
    LET last == output[Len(output)]
    IN  /\ output # <<>> /\ last.whole /\ last.segment.kind = "Final"
        /\ total = (Len(output) - 1) * capacity + last.segment.plaintext.length

GoodWriter(w, output, total) ==
    /\ IsWriter(w)
    /\ w.status = "Open" => OpenState(w, output, total)
    /\ w.status = "Finished" => FinishedState(output, total)

(* What a write that took a byte reports. *)
GoodReturn == ret.op = "write" /\ ret.ok /\ ret.asked > 0 => ret.n \in 1 .. ret.asked

WriterInv ==
    /\ GoodOutput(inner)
    /\ accepted \in Nat
    /\ header = "none" => writer = None /\ inner = <<>> /\ accepted = 0
    /\ \A w \in writer : writer = Some(w) /\ GoodWriter(w, inner, accepted)
    /\ GoodReturn

LEMMA Capacity ==
    /\ capacity \in Nat \ {0} /\ SEGMENT_OVERHEAD \in Nat
    /\ context.parameters = SegmentLength
BY EncryptWriterAssumption, SegmentLengths DEF capacity, context, Context

(* What the runs check follows from the invariant. *)
LEMMA InvImpliesProperties == WriterInv => OutputIsInOrder /\ NoByteIsLost
<1> SUFFICES ASSUME WriterInv PROVE OutputIsInOrder /\ NoByteIsLost
  OBVIOUS
<1>1. OutputIsInOrder
  BY DEF WriterInv, GoodOutput, Ordered, OutputIsInOrder
<1>2. ASSUME NEW w \in writer, w.status = "Open"
      PROVE  /\ accepted = Len(inner) * capacity + Len(StagedBytes(w))
             /\ Follow(StagedBytes(w), Len(inner) * capacity)
             /\ \A i \in 1 .. Len(inner) : inner[i].whole /\ inner[i].segment.kind = "NonFinal"
  BY <1>2 DEF WriterInv, GoodWriter, OpenState, Unfinished
<1>3. ASSUME NEW w \in writer, w.status = "Finished"
      PROVE  FinishedState(inner, accepted)
  BY <1>3 DEF WriterInv, GoodWriter
<1>4. NoByteIsLost
  BY <1>2, <1>3 DEF WriterInv, GoodReturn, NoByteIsLost, FinishedState
<1> QED BY <1>1, <1>4

-----------------------------------------------------------------------------
(* What one encryption adds. *)

(* A segment that is written, in whole or in part, behind an unfinished    *)
(* output is the next one.                                                 *)
LEMMA WrittenInOrder ==
    ASSUME NEW output, GoodOutput(output), Unfinished(output), NEW s, NEW kind, NEW bytes,
           SegmentNumber(s, Len(output), kind, bytes), NEW io \in Outputs,
           Follow(bytes, Len(output) * capacity),
           kind = "NonFinal" => Len(bytes) = capacity
    PROVE  /\ GoodOutput(written(output, s, io))
           /\ io = "whole" =>
                 /\ Len(written(output, s, io)) = Len(output) + 1
                 /\ kind = "NonFinal" => Unfinished(written(output, s, io))
                 /\ written(output, s, io) # <<>>
                 /\ written(output, s, io)[Len(output) + 1].whole
                 /\ written(output, s, io)[Len(output) + 1].segment = s
<1> DEFINE e == [whole |-> io = "whole", segment |-> s]
           out == Append(output, e)
<1>0. CASE io = "nothing"
  BY <1>0 DEF written
<1>1. CASE io # "nothing"
  <2>1. written(output, s, io) = out /\ IsSeq(output)
    BY <1>1 DEF written, GoodOutput
  <2>2. e.segment = s /\ e.whole = (io = "whole")
    OBVIOUS
  <2> HIDE DEF e
  <2>3. /\ IsSeq(out) /\ Len(output) \in Nat /\ Len(out) = Len(output) + 1
        /\ \A i \in 1 .. Len(output) : out[i] = output[i]
        /\ out[Len(output) + 1] = e
    BY <2>1, AppendToSeq
  <2> HIDE DEF out
  <2>4. /\ s.plaintext.data = bytes /\ s.plaintext.length = Len(bytes)
        /\ s.position = Len(output) /\ s.kind = kind
    BY DEF SegmentNumber, plaintext_of
  <2>5. ASSUME NEW i \in 1 .. Len(out)
        PROVE  /\ out[i].segment.position = i - 1
               /\ Follow(out[i].segment.plaintext.data, (i - 1) * capacity)
               /\ i < Len(out) => out[i].whole /\ out[i].segment.kind = "NonFinal"
               /\ out[i].segment.kind = "NonFinal" => out[i].segment.plaintext.length = capacity
    <3>1. CASE i = Len(output) + 1
      <4>1. out[i].segment = s /\ i - 1 = Len(output) /\ ~(i < Len(out))
        BY <2>2, <2>3, <3>1
      <4> QED BY <2>4, <4>1
    <3>2. CASE i # Len(output) + 1
      <4>1. i \in 1 .. Len(output) /\ out[i] = output[i]
        BY <2>3, <3>2
      <4> QED BY <4>1 DEF GoodOutput, Ordered, Unfinished
    <3> QED BY <3>1, <3>2
  <2>6. GoodOutput(out)
    BY <2>3, <2>5 DEF GoodOutput, Ordered
  <2>7. ASSUME io = "whole"
        PROVE  /\ kind = "NonFinal" => Unfinished(out)
               /\ out[Len(output) + 1].whole /\ out[Len(output) + 1].segment = s
    <3>1. e.whole
      BY <2>2, <2>7
    <3>2. ASSUME kind = "NonFinal", NEW i \in 1 .. Len(out)
          PROVE  out[i].whole /\ out[i].segment.kind = "NonFinal"
      <4>1. CASE i = Len(output) + 1
        BY <2>2, <2>3, <2>4, <3>1, <3>2, <4>1
      <4>2. CASE i # Len(output) + 1
        <5>1. i \in 1 .. Len(output) /\ out[i] = output[i]
          BY <2>3, <4>2
        <5> QED BY <5>1 DEF Unfinished
      <4> QED BY <4>1, <4>2
    <3> QED BY <2>2, <2>3, <3>1, <3>2 DEF Unfinished
  <2>8. out # <<>>
    BY <2>3
  <2> QED BY <2>1, <2>3, <2>6, <2>7, <2>8
<1> QED BY <1>0, <1>1

-----------------------------------------------------------------------------
(* What the methods on a writer and its output do. *)

(* An error poisons; success leaves an open writer with nothing staged     *)
(* that has accepted `total` bytes.                                        *)
Emitted(st, total) ==
    /\ st = Step(st.writer, st.inner, st.ok)
    /\ GoodOutput(st.inner) /\ IsWriter(st.writer)
    /\ st.ok \in BOOLEAN
    /\ ~st.ok => st.writer.status = "Failed"
    /\ st.ok => OpenState(st.writer, st.inner, total) /\ ~holds_plaintext(st.writer.buffer)

Writer(encryptor, buffer, status) ==
    [encryptor |-> encryptor, buffer |-> buffer, status |-> status]

LEMMA WriterFields ==
    ASSUME NEW encryptor, NEW buffer, NEW status
    PROVE  LET w == Writer(encryptor, buffer, status)
           IN  /\ IsWriter(w) /\ w.encryptor = encryptor /\ w.buffer = buffer
               /\ w.status = status
BY DEF Writer, IsWriter

(* The updates of a writer. *)
SetBuffer(w, x) == [w EXCEPT !.buffer = x]
SetEncryptor(w, x) == [w EXCEPT !.encryptor = x]
SetStatus(w, x) == [w EXCEPT !.status = x]
SetBoth(w, x, y) == [w EXCEPT !.encryptor = x, !.buffer = y]

LEMMA WriterUpdates ==
    ASSUME NEW w, IsWriter(w), NEW x, NEW y
    PROVE  /\ SetEncryptor(w, x) = Writer(x, w.buffer, w.status)
           /\ SetBuffer(w, x) = Writer(w.encryptor, x, w.status)
           /\ SetStatus(w, x) = Writer(w.encryptor, w.buffer, x)
           /\ SetBoth(w, x, y) = Writer(x, y, w.status)
<1>1. PICK e, b, s : w = Writer(e, b, s)
  BY DEF IsWriter, Writer
<1>2. w.encryptor = e /\ w.buffer = b /\ w.status = s
  BY <1>1 DEF Writer
<1>3. SetEncryptor(w, x) = Writer(x, b, s)
  BY <1>1 DEF Writer, SetEncryptor
<1>4. SetBuffer(w, x) = Writer(e, x, s)
  BY <1>1 DEF Writer, SetBuffer
<1>5. SetStatus(w, x) = Writer(e, b, x)
  BY <1>1 DEF Writer, SetStatus
<1>6. SetBuffer(Writer(x, b, s), y) = Writer(x, y, s)
  BY DEF Writer, SetBuffer
<1>7. SetBoth(w, x, y) = SetBuffer(SetEncryptor(w, x), y)
  BY DEF SetBoth, SetBuffer, SetEncryptor
<1> QED BY <1>2, <1>3, <1>4, <1>5, <1>6, <1>7

LEMMA StepFields ==
    ASSUME NEW w, NEW output, NEW ok, NEW v
    PROVE  LET st == Step(w, output, ok)
           IN  /\ st.writer = w /\ st.inner = output /\ st.ok = ok
               /\ [st EXCEPT !.writer = v] = Step(v, output, ok)
BY DEF Step

(* A failed step is poisoned, and only its writer's status changes. *)
LEMMA Poisoning ==
    ASSUME NEW w, IsWriter(w), NEW output
    PROVE  /\ poison_on_error(Step(w, output, TRUE)) = Step(w, output, TRUE)
           /\ poison_on_error(Step(w, output, FALSE))
                = Step(Writer(w.encryptor, w.buffer, "Failed"), output, FALSE)
<1>1. poison_on_error(Step(w, output, TRUE)) = Step(w, output, TRUE)
  BY DEF poison_on_error, Step
<1>2. PICK st : st = Step(w, output, FALSE)
  OBVIOUS
<1>3. poison_on_error(st) = [st EXCEPT !.writer = [st.writer EXCEPT !.status = "Failed"]]
  BY <1>2 DEF poison_on_error, Step
<1>4. [st.writer EXCEPT !.status = "Failed"] = Writer(w.encryptor, w.buffer, "Failed")
  <2>1. st.writer = w
    BY <1>2 DEF Step
  <2>2. SetStatus(w, "Failed") = Writer(w.encryptor, w.buffer, "Failed")
    BY WriterUpdates
  <2> QED BY <2>1, <2>2 DEF SetStatus
<1>5. PICK v : v = Writer(w.encryptor, w.buffer, "Failed")
  OBVIOUS
<1>6. [st EXCEPT !.writer = v] = Step(v, output, FALSE)
  <2>1. PICK ok : ok = FALSE
    OBVIOUS
  <2>2. st = Step(w, output, ok)
    BY <1>2, <2>1
  <2>3. Step(v, output, ok) = Step(v, output, FALSE)
    BY <2>1
  <2>4. [st EXCEPT !.writer = v] = Step(v, output, ok)
    BY <2>2, StepFields
  <2> QED BY <2>3, <2>4
<1> QED BY <1>1, <1>2, <1>3, <1>4, <1>5, <1>6

LEMMA FailedIsEmitted ==
    ASSUME NEW w, IsWriter(w), NEW output, GoodOutput(output), NEW total
    PROVE  Emitted(poison_on_error(Step(w, output, FALSE)), total)
<1>1. PICK v : v = Writer(w.encryptor, w.buffer, "Failed")
  OBVIOUS
<1>2. poison_on_error(Step(w, output, FALSE)) = Step(v, output, FALSE)
  BY <1>1, Poisoning
<1>3. IsWriter(v) /\ v.status = "Failed"
  BY <1>1, WriterFields
<1>4. PICK st : st = Step(v, output, FALSE)
  OBVIOUS
<1>5. st.writer = v /\ st.inner = output /\ ~st.ok /\ st.ok \in BOOLEAN
  BY <1>4 DEF Step
<1>6. Emitted(st, total)
  <2>1. PICK ok : ok = FALSE
    OBVIOUS
  <2>2. st = Step(v, output, ok)
    BY <1>4, <2>1
  <2>3. st = Step(st.writer, st.inner, st.ok)
    BY <2>2, StepFields
  <2> QED BY <1>3, <1>5, <2>3 DEF Emitted
<1> QED BY <1>2, <1>4, <1>6

(* A sealed non-final segment that is written, or not, by an open writer.  *)
LEMMA SealedIsEmitted ==
    ASSUME NEW b, GoodBuffer(b), ~holds_plaintext(b), NEW state,
           NEW output, GoodOutput(output), Unfinished(output), Len(output) \in Nat,
           NEW s, NEW bytes, SegmentNumber(s, Len(output), "NonFinal", bytes),
           Len(bytes) = capacity, Follow(bytes, Len(output) * capacity), NEW io \in Outputs,
           NEW w, w = Writer(Some(EncryptorAt(state, Len(output) + 1)), b, "Open")
    PROVE  Emitted(poison_on_error(Step(w, written(output, s, io), io = "whole")),
                   Len(output) * capacity + capacity)
<1>1. /\ IsWriter(w) /\ w.encryptor = Some(EncryptorAt(state, Len(output) + 1))
      /\ w.buffer = b /\ w.status = "Open"
  BY WriterFields
<1>2. PICK out : out = written(output, s, io)
  OBVIOUS
<1>3. GoodOutput(out)
      /\ (io = "whole" => Len(out) = Len(output) + 1 /\ Unfinished(out))
  BY <1>2, WrittenInOrder
<1>4. CASE io = "whole"
  <2>1. StagedBytes(w) = <<>> /\ Len(<<>>) = 0
    BY <1>1 DEF StagedBytes
  <2>2. Len(out) * capacity + 0 = Len(output) * capacity + capacity
    BY <1>3, <1>4, Capacity
  <2>3. OpenState(w, out, Len(output) * capacity + capacity)
    BY <1>1, <1>3, <1>4, <2>1, <2>2 DEF OpenState, Follow
  <2>4. poison_on_error(Step(w, out, TRUE)) = Step(w, out, TRUE)
    BY <1>1, Poisoning
  <2>5. Step(w, out, io = "whole") = Step(w, out, TRUE)
    BY <1>4 DEF Step
  <2>6. Emitted(Step(w, out, TRUE), Len(output) * capacity + capacity)
    BY <1>1, <1>3, <2>3 DEF Emitted, Step
  <2> QED BY <1>2, <2>4, <2>5, <2>6
<1>5. CASE io # "whole"
  <2>1. Step(w, out, io = "whole") = Step(w, out, FALSE)
    BY <1>5 DEF Step
  <2> QED BY <1>1, <1>2, <1>3, <2>1, FailedIsEmitted
<1> QED BY <1>4, <1>5

(* The encryptor of an open writer, and its staged bytes. *)
LEMMA OpenFields ==
    ASSUME NEW w, NEW output, NEW total, OpenState(w, output, total)
    PROVE  /\ w.encryptor # None
           /\ \E state : (CHOOSE x \in w.encryptor : TRUE) = EncryptorAt(state, Len(output))
           /\ holds_plaintext(w.buffer) => StagedBytes(w) = w.buffer.payload
           /\ ~holds_plaintext(w.buffer) => StagedBytes(w) = <<>>
           /\ w.buffer.parameters = SegmentLength /\ IsBuffer(w.buffer)
BY ChooseSome DEF OpenState, StagedBytes, GoodBuffer

(* emit_non_final of a full staging buffer. *)
LEMMA EmitIsGood ==
    ASSUME NEW w, IsWriter(w), NEW output, GoodOutput(output), Len(output) \in Nat,
           NEW total, OpenState(w, output, total), holds_plaintext(w.buffer),
           Len(w.buffer.payload) = capacity, NEW fault, NEW io \in Outputs
    PROVE  Emitted(emit_non_final(w, output, fault, io), total)
<1> DEFINE e == CHOOSE x \in w.encryptor : TRUE
           r == encrypt_non_final_in_place(e, context, w.buffer, fault, next_batch(e))
           w2 == SetBoth(w, r.call.encryptor, r.buffer)
<1>1. emit_non_final(w, output, fault, io) = poison_on_error(
         IF w.encryptor = None THEN Step(w, output, FALSE)
         ELSE IF ~r.ok THEN Step(w2, output, FALSE)
         ELSE Step(w2, written(output, segment_of(r.buffer), io), io = "whole"))
  BY DEF emit_non_final, SetBoth
<1>2. PICK state : e = EncryptorAt(state, Len(output))
  BY OpenFields
<1>3. PICK bytes : bytes = w.buffer.payload
  OBVIOUS
<1>4. /\ w.encryptor # None /\ w.status = "Open" /\ Unfinished(output)
      /\ Follow(bytes, Len(output) * capacity) /\ Len(bytes) = capacity
      /\ total = Len(output) * capacity + capacity
      /\ w.buffer.parameters = SegmentLength /\ IsBuffer(w.buffer)
  BY <1>3, OpenFields DEF OpenState
<1>5. PICK q : q = encrypt_non_final(e, context, plaintext_of(bytes), TRUE, fault, next_batch(e))
  OBVIOUS
<1>6. Advanced(q, context, Len(output), bytes)
  BY <1>2, <1>5, NonFinalAdvances
<1>7. r = encrypt_non_final_in_place(e, context, w.buffer, fault, next_batch(e))
  OBVIOUS
<1> HIDE DEF e, r
<1>8. \/ ~r.ok
      \/ /\ r.ok /\ q.segment # None /\ r.call = q
         /\ r.buffer = mark_ciphertext(w.buffer, CHOOSE s \in q.segment : TRUE)
  <2>1. \/ r = InPlaceResult(EncryptorResult(Some(e), None, FALSE), w.buffer)
        \/ r = InPlaceResult(q, after_encryption(w.buffer, q.segment))
    BY <1>3, <1>5, <1>7 DEF encrypt_non_final_in_place
  <2>2. CASE r = InPlaceResult(EncryptorResult(Some(e), None, FALSE), w.buffer)
    BY <2>2 DEF InPlaceResult, EncryptorResult
  <2>3. CASE r = InPlaceResult(q, after_encryption(w.buffer, q.segment))
    BY <2>3 DEF InPlaceResult, after_encryption
  <2> QED BY <2>1, <2>2, <2>3
<1>9. w2 = Writer(r.call.encryptor, r.buffer, "Open")
  BY <1>4, WriterUpdates
<1>10. IsWriter(w2)
  BY <1>9, WriterFields
<1> HIDE DEF w2
<1>11. CASE ~r.ok
  <2>1. emit_non_final(w, output, fault, io) = poison_on_error(Step(w2, output, FALSE))
    BY <1>1, <1>4, <1>11
  <2> QED BY <1>10, <2>1, FailedIsEmitted
<1>12. CASE r.ok
  <2>1. /\ q.segment # None /\ r.call = q
        /\ r.buffer = mark_ciphertext(w.buffer, CHOOSE s \in q.segment : TRUE)
    BY <1>8, <1>12
  <2>2. PICK s, state2 : /\ q.segment = Some(s)
                         /\ SegmentNumber(s, Len(output), "NonFinal", bytes)
                         /\ q.encryptor = Some(EncryptorAt(state2, Len(output) + 1))
    BY <1>6, <2>1 DEF Advanced
  <2>3. r.buffer = Buffer(SegmentLength, "Ciphertext", <<>>, Some(s))
    <3>1. (CHOOSE x \in q.segment : TRUE) = s
      BY <2>2, ChooseSome
    <3> QED BY <1>4, <2>1, <3>1, BufferOperations
  <2>4. /\ segment_of(r.buffer) = s /\ ~holds_plaintext(r.buffer) /\ GoodBuffer(r.buffer)
    <3>1. /\ IsBuffer(r.buffer) /\ r.buffer.parameters = SegmentLength
          /\ r.buffer.segment = Some(s) /\ ~holds_plaintext(r.buffer)
      BY <2>3, BufferFields
    <3> QED BY <3>1, ChooseSome DEF segment_of, GoodBuffer
  <2>5. w2 = Writer(Some(EncryptorAt(state2, Len(output) + 1)), r.buffer, "Open")
    BY <1>9, <2>1, <2>2
  <2>6. Emitted(poison_on_error(Step(w2, written(output, s, io), io = "whole")), total)
    BY <1>4, <2>2, <2>4, <2>5, SealedIsEmitted
  <2>7. emit_non_final(w, output, fault, io)
          = poison_on_error(Step(w2, written(output, s, io), io = "whole"))
    BY <1>1, <1>4, <1>12, <2>4
  <2> QED BY <2>6, <2>7
<1> QED BY <1>11, <1>12

(* write_segment_direct of a full segment of input, with nothing staged.   *)
LEMMA DirectIsGood ==
    ASSUME NEW w, IsWriter(w), NEW output, GoodOutput(output), Len(output) \in Nat,
           NEW total, OpenState(w, output, total), ~holds_plaintext(w.buffer),
           NEW bytes, Len(bytes) = capacity, Follow(bytes, total),
           NEW fault, NEW io \in Outputs
    PROVE  Emitted(write_segment_direct(w, output, bytes, fault, io), total + capacity)
<1> DEFINE e == CHOOSE x \in w.encryptor : TRUE
           r == encrypt_non_final(e, context, plaintext_of(bytes), TRUE, fault, next_batch(e))
           s == CHOOSE x \in r.segment : TRUE
           w1 == SetEncryptor(w, r.encryptor)
           w2 == SetBoth(w, r.encryptor, mark_ciphertext(w.buffer, s))
<1>1. write_segment_direct(w, output, bytes, fault, io) = poison_on_error(
         IF w.encryptor = None THEN Step(w, output, FALSE)
         ELSE IF r.segment = None THEN Step(w1, output, FALSE)
         ELSE Step(w2, written(output, s, io), io = "whole"))
  BY DEF write_segment_direct, SetEncryptor, SetBoth
<1>2. PICK state : e = EncryptorAt(state, Len(output))
  BY OpenFields
<1>3. /\ w.encryptor # None /\ w.status = "Open" /\ Unfinished(output)
      /\ w.buffer.parameters = SegmentLength /\ IsBuffer(w.buffer)
      /\ total = Len(output) * capacity
  <2>1. StagedBytes(w) = <<>> /\ Len(<<>>) = 0 /\ Len(output) * capacity \in Nat
    BY OpenFields, Capacity
  <2> QED BY <2>1, OpenFields DEF OpenState
<1> HIDE DEF e
<1>4. Advanced(r, context, Len(output), bytes)
  BY <1>2, NonFinalAdvances
<1>5. s = CHOOSE x \in r.segment : TRUE
  OBVIOUS
<1> HIDE DEF r, s
<1>6. /\ w1 = Writer(r.encryptor, w.buffer, "Open")
      /\ w2 = Writer(r.encryptor, mark_ciphertext(w.buffer, s), "Open")
  BY <1>3, WriterUpdates
<1>7. IsWriter(w1) /\ IsWriter(w2)
  BY <1>6, WriterFields
<1> HIDE DEF w1, w2
<1>8. CASE r.segment = None
  <2>1. write_segment_direct(w, output, bytes, fault, io)
          = poison_on_error(Step(w1, output, FALSE))
    BY <1>1, <1>3, <1>8
  <2> QED BY <1>7, <2>1, FailedIsEmitted
<1>9. CASE r.segment # None
  <2>1. PICK x, state2 : /\ r.segment = Some(x)
                         /\ SegmentNumber(x, Len(output), "NonFinal", bytes)
                         /\ r.encryptor = Some(EncryptorAt(state2, Len(output) + 1))
    BY <1>4, <1>9 DEF Advanced
  <2>2. s = x
    BY <1>5, <2>1, ChooseSome
  <2>3. PICK b : b = mark_ciphertext(w.buffer, s)
    OBVIOUS
  <2>4. b = Buffer(SegmentLength, "Ciphertext", <<>>, Some(s))
    BY <1>3, <2>3, BufferOperations
  <2>5. GoodBuffer(b) /\ ~holds_plaintext(b)
    <3>1. IsBuffer(b) /\ b.parameters = SegmentLength /\ ~holds_plaintext(b)
      BY <2>4, BufferFields
    <3> QED BY <3>1 DEF GoodBuffer
  <2>6. w2 = Writer(Some(EncryptorAt(state2, Len(output) + 1)), b, "Open")
    BY <1>6, <2>1, <2>3
  <2>7. Emitted(poison_on_error(Step(w2, written(output, s, io), io = "whole")),
                Len(output) * capacity + capacity)
    BY <1>3, <2>1, <2>2, <2>5, <2>6, SealedIsEmitted
  <2>8. write_segment_direct(w, output, bytes, fault, io)
          = poison_on_error(Step(w2, written(output, s, io), io = "whole"))
    BY <1>1, <1>3, <1>9
  <2> QED BY <1>3, <2>7, <2>8
<1> QED BY <1>8, <1>9

(* finish_message: success leaves a finished message, failure an output in *)
(* order, whatever part of the final segment was written.                  *)
FinishedStep(st, total) ==
    /\ GoodOutput(st.inner) /\ IsWriter(st.writer)
    /\ st.ok \in BOOLEAN
    /\ st.ok => st.writer.status = "Finished" /\ FinishedState(st.inner, total)
    /\ ~st.ok => st.writer.status = "Failed"

LEMMA FailedIsFinished ==
    ASSUME NEW w, IsWriter(w), NEW output, GoodOutput(output), NEW total
    PROVE  FinishedStep(poison_on_error(Step(w, output, FALSE)), total)
<1>1. Emitted(poison_on_error(Step(w, output, FALSE)), total)
  BY FailedIsEmitted
<1>2. ~poison_on_error(Step(w, output, FALSE)).ok
  <2>1. PICK v : v = Writer(w.encryptor, w.buffer, "Failed")
    OBVIOUS
  <2>2. poison_on_error(Step(w, output, FALSE)) = Step(v, output, FALSE)
    BY <2>1, Poisoning
  <2> QED BY <2>2 DEF Step
<1> QED BY <1>1, <1>2 DEF Emitted, FinishedStep

LEMMA FinishIsGood ==
    ASSUME NEW w, IsWriter(w), NEW output, GoodOutput(output), Len(output) \in Nat,
           NEW total, OpenState(w, output, total), NEW fault, NEW io \in Outputs,
           NEW flushed \in BOOLEAN
    PROVE  FinishedStep(poison_on_error(finish_message(w, output, fault, io, flushed)), total)
<1> DEFINE e == CHOOSE x \in w.encryptor : TRUE
           b == IF holds_plaintext(w.buffer) THEN w.buffer
                                             ELSE prepare_plaintext(w.buffer, <<>>)
           r == encrypt_final_in_place(e, context, b, fault, next_batch(e))
           w2 == SetBoth(w, None, r.buffer)
           w3 == SetStatus(w2, "Finished")
           out == written(output, segment_of(r.buffer), io)
<1>1. finish_message(w, output, fault, io, flushed) =
         IF w.encryptor = None THEN Step(w, output, FALSE)
         ELSE IF ~r.ok THEN Step(w2, output, FALSE)
         ELSE IF io = "whole" /\ flushed THEN Step(w3, out, TRUE)
         ELSE Step(w2, out, FALSE)
  BY DEF finish_message, SetBoth, SetStatus
<1>2. PICK state : e = EncryptorAt(state, Len(output))
  BY OpenFields
<1>3. b = IF holds_plaintext(w.buffer) THEN w.buffer ELSE prepare_plaintext(w.buffer, <<>>)
  OBVIOUS
<1> HIDE DEF e, b
<1>4. /\ w.encryptor # None /\ w.status = "Open" /\ Unfinished(output)
      /\ w.buffer.parameters = SegmentLength /\ IsBuffer(w.buffer)
      /\ total = Len(output) * capacity + Len(StagedBytes(w))
      /\ Follow(StagedBytes(w), Len(output) * capacity)
  BY OpenFields DEF OpenState
<1>5. b.payload = StagedBytes(w) /\ IsBuffer(b) /\ b.parameters = SegmentLength
  <2>1. CASE holds_plaintext(w.buffer)
    BY <1>3, <1>4, <2>1, OpenFields
  <2>2. CASE ~holds_plaintext(w.buffer)
    <3>1. b = Buffer(SegmentLength, "Plaintext", <<>>, None)
      BY <1>3, <1>4, <2>2, BufferOperations
    <3> QED BY <2>2, <3>1, BufferFields, OpenFields
  <2> QED BY <2>1, <2>2
<1>6. PICK bytes : bytes = b.payload
  OBVIOUS
<1>7. PICK q : q = encrypt_final(e, context, plaintext_of(bytes), TRUE, fault, next_batch(e))
  OBVIOUS
<1>8. r = encrypt_final_in_place(e, context, b, fault, next_batch(e))
  OBVIOUS
<1> HIDE DEF r
<1>9. \/ ~r.ok
      \/ /\ r.ok /\ q.segment # None
         /\ r.buffer = mark_ciphertext(b, CHOOSE s \in q.segment : TRUE)
  <2>1. \/ r = InPlaceResult(EncryptorResult(Some(e), None, FALSE), b)
        \/ r = InPlaceResult(q, after_encryption(b, q.segment))
    BY <1>6, <1>7, <1>8 DEF encrypt_final_in_place
  <2>2. CASE r = InPlaceResult(EncryptorResult(Some(e), None, FALSE), b)
    BY <2>2 DEF InPlaceResult, EncryptorResult
  <2>3. CASE r = InPlaceResult(q, after_encryption(b, q.segment))
    BY <2>3 DEF InPlaceResult, after_encryption
  <2> QED BY <2>1, <2>2, <2>3
<1>10. w2 = Writer(None, r.buffer, "Open")
  BY <1>4, WriterUpdates
<1>11. IsWriter(w2)
  BY <1>10, WriterFields
<1> HIDE DEF w2
<1>12. w3 = Writer(w2.encryptor, w2.buffer, "Finished")
  BY <1>11, WriterUpdates
<1>13. IsWriter(w3) /\ w3.status = "Finished"
  BY <1>12, WriterFields
<1>14. out = written(output, segment_of(r.buffer), io)
  OBVIOUS
<1> HIDE DEF w3, out
<1>15. CASE ~r.ok
  <2>1. finish_message(w, output, fault, io, flushed) = Step(w2, output, FALSE)
    BY <1>1, <1>4, <1>15
  <2> QED BY <1>11, <2>1, FailedIsFinished
<1>16. CASE r.ok
  <2>1. PICK s : q.segment = Some(s) /\ SegmentNumber(s, Len(output), "Final", bytes)
    <3>1. q.segment # None
      BY <1>9, <1>16
    <3>2. Closed(q, Len(output), bytes)
      BY <1>2, <1>7, FinalCloses
    <3> QED BY <3>1, <3>2 DEF Closed
  <2>2. r.buffer = Buffer(SegmentLength, "Ciphertext", <<>>, Some(s))
    <3>1. r.buffer = mark_ciphertext(b, CHOOSE x \in q.segment : TRUE)
      BY <1>9, <1>16
    <3>2. (CHOOSE x \in q.segment : TRUE) = s
      BY <2>1, ChooseSome
    <3> QED BY <1>5, <3>1, <3>2, BufferOperations
  <2>3. segment_of(r.buffer) = s
    BY <2>2, BufferFields, ChooseSome DEF segment_of
  <2>4. /\ GoodOutput(out)
        /\ io = "whole" =>
              /\ Len(out) = Len(output) + 1 /\ out # <<>>
              /\ out[Len(output) + 1].whole /\ out[Len(output) + 1].segment = s
    BY <1>4, <1>5, <1>6, <1>14, <2>1, <2>3, WrittenInOrder
  <2>5. CASE io = "whole" /\ flushed
    <3>1. s.kind = "Final" /\ s.plaintext.length = Len(bytes)
      BY <2>1 DEF SegmentNumber, plaintext_of
    <3>2. Len(out) = Len(output) + 1 /\ Len(out) - 1 = Len(output)
      BY <2>4, <2>5
    <3>3. FinishedState(out, total)
      BY <1>4, <1>5, <1>6, <2>4, <2>5, <3>1, <3>2 DEF FinishedState
    <3>4. poison_on_error(Step(w3, out, TRUE)) = Step(w3, out, TRUE)
      BY <1>13, Poisoning
    <3>5. FinishedStep(Step(w3, out, TRUE), total)
      BY <1>13, <2>4, <3>3 DEF FinishedStep, Step
    <3>6. finish_message(w, output, fault, io, flushed) = Step(w3, out, TRUE)
      BY <1>1, <1>4, <1>16, <2>5
    <3> QED BY <3>4, <3>5, <3>6
  <2>6. CASE ~(io = "whole" /\ flushed)
    <3>1. finish_message(w, output, fault, io, flushed) = Step(w2, out, FALSE)
      BY <1>1, <1>4, <1>16, <2>6
    <3> QED BY <1>11, <2>4, <3>1, FailedIsFinished
  <2> QED BY <2>5, <2>6
<1> QED BY <1>15, <1>16

-----------------------------------------------------------------------------
(* The actions. *)

(* The next bytes of the caller's message follow those accepted. *)
LEMMA InputFollows ==
    ASSUME accepted \in Nat, NEW n \in Nat
    PROVE  Input(n) \in Seq(Nat) /\ Len(Input(n)) = n /\ Follow(Input(n), accepted)
<1>1. Input(n) \in [1 .. n -> Nat]
  BY DEF Input
<1>2. Input(n) \in Seq(Nat) /\ Len(Input(n)) = n
  BY <1>1, SeqDef, LenProperties
<1> QED BY <1>2 DEF Follow, Input

LEMMA OutputLength == GoodOutput(inner) => Len(inner) \in Nat
BY LenProperties DEF GoodOutput, IsSeq

(* A call that ends in a step leaves the invariant if the step does. *)
LEMMA WroteKeepsInv ==
    ASSUME WriterInv, NEW w \in writer, NEW op, NEW step, NEW asked, NEW n,
           n \in Nat, Wrote(op, step, asked, n),
           GoodOutput(step.inner),
           GoodWriter(step.writer, step.inner, IF step.ok THEN accepted + n ELSE accepted),
           op = "write" /\ step.ok /\ asked > 0 => n \in 1 .. asked
    PROVE  WriterInv'
<1>1. /\ writer' = Some(step.writer) /\ inner' = step.inner /\ header' = header
      /\ accepted' = IF step.ok THEN accepted + n ELSE accepted
      /\ ret' = [op |-> op, ok |-> step.ok, asked |-> asked, n |-> IF step.ok THEN n ELSE 0]
  BY DEF Wrote, Returns
<1>2. accepted' \in Nat
  BY <1>1 DEF WriterInv
<1>3. header # "none"
  BY DEF WriterInv, None
<1>4. PICK v, out, total : v = step.writer /\ out = step.inner /\ total = accepted'
  OBVIOUS
<1>5. GoodWriter(v, out, total) /\ GoodOutput(out)
  BY <1>1, <1>4
<1>6. \A x \in writer' : x = v
  BY <1>1, <1>4 DEF Some
<1>7. GoodReturn'
  <2>1. ret'.op = op /\ ret'.asked = asked /\ (ret'.ok <=> step.ok)
        /\ (step.ok => ret'.n = n)
    BY <1>1
  <2> QED BY <2>1 DEF GoodReturn
<1>8. (GoodOutput(inner))'
  BY <1>1, <1>4, <1>5 DEF GoodOutput, Ordered, IsSeq, Follow, capacity
<1>9. \A x \in writer' : GoodWriter(x, inner', accepted')
  BY <1>1, <1>4, <1>5, <1>6
<1> QED BY <1>1, <1>2, <1>3, <1>4, <1>6, <1>7, <1>8, <1>9 DEF WriterInv

(* Steps that leave the writer and its output alone. *)
LEMMA UntouchedKeepsInv ==
    ASSUME WriterInv, UNCHANGED <<writer, inner, header, accepted>>, GoodReturn'
    PROVE  WriterInv'
BY DEF WriterInv, GoodOutput, Ordered, IsSeq, Follow, capacity, GoodWriter, OpenState,
       FinishedState, Unfinished, StagedBytes

LEMMA InitIsGood == Init => WriterInv
<1> SUFFICES ASSUME Init PROVE WriterInv
  OBVIOUS
<1>1. inner = <<>> /\ writer = {} /\ accepted = 0 /\ ret.op = "none"
  BY DEF Init, None
<1>2. GoodOutput(inner)
  <2>1. inner \in Seq({})
    BY <1>1
  <2> QED BY <1>1, <2>1 DEF GoodOutput, IsSeq, Ordered
<1> QED BY <1>1, <1>2 DEF WriterInv, GoodReturn, None

(* EncryptWriter::new starts at position 0 with nothing staged. *)
LEMMA NewKeepsInv ==
    ASSUME WriterInv, NEW io \in Outputs, new(io)
    PROVE  WriterInv'
<1>1. inner = <<>> /\ accepted = 0 /\ inner' = inner /\ accepted' = accepted
  BY DEF WriterInv, new
<1>2. GoodOutput(inner)'
  BY <1>1 DEF WriterInv, GoodOutput, Ordered, IsSeq, Follow, capacity
<1>3. GoodReturn'
  BY DEF new, Returns, GoodReturn
<1>4. CASE io = "whole"
  <2>1. PICK w : w = Writer(Some(Encryptor_new(context)), buffer_new(SegmentLength), "Open")
    OBVIOUS
  <2>2. writer' = Some(w) /\ header' = "whole"
    BY <1>4, <2>1 DEF new, Writer
  <2>3. /\ IsWriter(w) /\ w.encryptor = Some(Encryptor_new(context))
        /\ w.buffer = buffer_new(SegmentLength) /\ w.status = "Open"
    BY <2>1, WriterFields
  <2>4. \E state : Encryptor_new(context) = EncryptorAt(state, 0)
    BY DEF Encryptor_new, EncryptorAt, counter_new
  <2>5. buffer_new(SegmentLength) = Buffer(SegmentLength, "Empty", <<>>, None)
    BY DEF buffer_new, Buffer
  <2>6. GoodBuffer(w.buffer) /\ ~holds_plaintext(w.buffer)
    <3>1. IsBuffer(w.buffer) /\ w.buffer.parameters = SegmentLength /\ ~holds_plaintext(w.buffer)
      BY <2>3, <2>5, BufferFields
    <3> QED BY <3>1 DEF GoodBuffer
  <2>7. StagedBytes(w) = <<>> /\ Len(<<>>) = 0 /\ 0 * capacity = 0
    BY <2>6, Capacity DEF StagedBytes
  <2>8. OpenState(w, <<>>, 0)
    BY <2>3, <2>4, <2>6, <2>7 DEF OpenState, Unfinished, Follow
  <2>9. GoodWriter(w, inner', accepted')
    BY <1>1, <2>3, <2>8 DEF GoodWriter
  <2>10. \A x \in writer' : x = w
    BY <2>2 DEF Some
  <2> QED BY <1>1, <1>2, <1>3, <2>2, <2>9, <2>10 DEF WriterInv
<1>5. CASE io # "whole"
  <2>1. writer' = {}
    BY <1>5 DEF new, None
  <2> QED BY <1>1, <1>2, <1>3, <2>1 DEF WriterInv, None
<1> QED BY <1>4, <1>5

(* The facts about an open writer that its writes start from. *)
LEMMA OpenWriter ==
    ASSUME WriterInv, NEW w \in writer, w.status = "Open"
    PROVE  /\ IsWriter(w) /\ OpenState(w, inner, accepted)
           /\ GoodOutput(inner) /\ Len(inner) \in Nat /\ accepted \in Nat
BY OutputLength DEF WriterInv, GoodWriter

(* An emission that ends a call. *)
LEMMA EmittedIsGood ==
    ASSUME NEW st, NEW total, NEW old, Emitted(st, total)
    PROVE  GoodOutput(st.inner) /\ GoodWriter(st.writer, st.inner, IF st.ok THEN total ELSE old)
BY DEF Emitted, GoodWriter, OpenState

LEMMA DirectKeepsInv ==
    ASSUME WriterInv, NEW w \in writer, NEW n \in Nat, NEW fault, NEW io \in Outputs,
           write_direct(w, n, fault, io)
    PROVE  WriterInv'
<1>1. /\ w.status = "Open" /\ n >= capacity /\ ~holds_plaintext(w.buffer)
  BY DEF write_direct, takes_direct
<1>2. PICK st : st = write_segment_direct(w, inner, Input(capacity), fault, io)
  OBVIOUS
<1>3. Len(Input(capacity)) = capacity /\ Follow(Input(capacity), accepted)
  BY <1>1, OpenWriter, InputFollows, Capacity
<1>4. Emitted(st, accepted + capacity)
  BY <1>1, <1>2, <1>3, OpenWriter, DirectIsGood
<1>5. Wrote("write", st, n, capacity)
  BY <1>2 DEF write_direct
<1>6. GoodOutput(st.inner)
      /\ GoodWriter(st.writer, st.inner, IF st.ok THEN accepted + capacity ELSE accepted)
  BY <1>4, EmittedIsGood
<1>7. capacity \in Nat /\ capacity \in 1 .. n
  BY <1>1, Capacity
<1> QED BY <1>5, <1>6, <1>7, WroteKeepsInv

(* Extending the staged bytes, which the room bounds. *)
LEMMA ExtendIsGood ==
    ASSUME NEW w, IsWriter(w), NEW output, NEW total \in Nat, OpenState(w, output, total),
           Len(output) \in Nat, NEW bytes \in Seq(Nat), Follow(bytes, total),
           Len(bytes) <= extend_room(w.buffer), NEW v,
           v = SetBuffer(w, extend_plaintext(w.buffer, bytes))
    PROVE  GoodWriter(v, output, total + Len(bytes))
<1>1. /\ w.status = "Open" /\ GoodBuffer(w.buffer) /\ Unfinished(output)
      /\ \E state : w.encryptor = Some(EncryptorAt(state, Len(output)))
      /\ total = Len(output) * capacity + Len(StagedBytes(w))
      /\ Follow(StagedBytes(w), Len(output) * capacity)
  BY DEF OpenState
<1>2. PICK old : old = StagedBytes(w)
  OBVIOUS
<1>3. old \in Seq(Nat) /\ Len(old) \in Nat /\ Len(bytes) \in Nat
  <2>1. CASE holds_plaintext(w.buffer)
    BY <1>1, <1>2, <2>1, LenProperties DEF StagedBytes, GoodBuffer
  <2>2. CASE ~holds_plaintext(w.buffer)
    BY <1>2, <2>2, LenProperties DEF StagedBytes
  <2> QED BY <2>1, <2>2
<1>4. PICK all : all = IF holds_plaintext(w.buffer) THEN w.buffer.payload \o bytes ELSE bytes
  OBVIOUS
<1>5. all = old \o bytes
  <2>1. CASE holds_plaintext(w.buffer)
    BY <1>2, <1>4, <2>1 DEF StagedBytes
  <2>2. CASE ~holds_plaintext(w.buffer)
    BY <1>2, <1>4, <2>2, ConcatEmptySeq DEF StagedBytes
  <2> QED BY <2>1, <2>2
<1>6. /\ all \in Seq(Nat) /\ Len(all) = Len(old) + Len(bytes)
      /\ \A i \in 1 .. Len(old) + Len(bytes) :
            all[i] = IF i <= Len(old) THEN old[i] ELSE bytes[i - Len(old)]
  BY <1>3, <1>5, ConcatProperties
<1>7. Len(old) + Len(bytes) <= capacity
  <2>1. extend_room(w.buffer) = capacity - Len(old)
    BY <1>1, <1>2 DEF extend_room, capacity, GoodBuffer, StagedBytes
  <2> QED BY <1>3, <2>1, Capacity
<1>8. PICK b : b = extend_plaintext(w.buffer, bytes)
  OBVIOUS
<1>9. b = Buffer(SegmentLength, "Plaintext", all, None)
  BY <1>1, <1>4, <1>8, BufferOperations DEF extend_plaintext, GoodBuffer
<1>10. /\ IsBuffer(b) /\ b.parameters = SegmentLength /\ holds_plaintext(b) /\ b.payload = all
  BY <1>9, BufferFields
<1>11. GoodBuffer(b)
  BY <1>6, <1>7, <1>10 DEF GoodBuffer
<1>12. v = Writer(w.encryptor, b, "Open")
  BY <1>1, <1>8, WriterUpdates
<1>13. IsWriter(v) /\ v.encryptor = w.encryptor /\ v.buffer = b /\ v.status = "Open"
  BY <1>12, WriterFields
<1>14. StagedBytes(v) = all
  BY <1>10, <1>13 DEF StagedBytes
<1>15. PICK k \in Nat : k = Len(output) * capacity
  BY Capacity
<1>16. Follow(all, k)
  <2> SUFFICES ASSUME NEW j \in 1 .. Len(all) PROVE all[j] = k + j
    BY DEF Follow
  <2>1. CASE j <= Len(old)
    <3>1. j \in 1 .. Len(old) /\ all[j] = old[j]
      <4>1. j \in 1 .. Len(old) /\ j \in 1 .. Len(old) + Len(bytes)
        BY <1>3, <1>6, <2>1
      <4>2. all[j] = IF j <= Len(old) THEN old[j] ELSE bytes[j - Len(old)]
        BY <1>6, <4>1, Zenon
      <4> QED BY <2>1, <4>1, <4>2, Zenon
    <3> QED BY <1>1, <1>2, <1>15, <3>1 DEF Follow
  <2>2. CASE ~(j <= Len(old))
    <3>1. j \in 1 .. Len(old) + Len(bytes)
      BY <1>6
    <3>2. j - Len(old) \in 1 .. Len(bytes)
      BY <1>3, <2>2, <3>1
    <3>3. all[j] = bytes[j - Len(old)]
      BY <1>6, <2>2, <3>1
    <3>4. bytes[j - Len(old)] = total + (j - Len(old))
      BY <3>2 DEF Follow
    <3> QED BY <1>1, <1>2, <1>3, <1>15, <3>1, <3>3, <3>4
  <2> QED BY <2>1, <2>2
<1>17. total + Len(bytes) = k + Len(all)
  BY <1>1, <1>2, <1>3, <1>6, <1>15
<1>18. OpenState(v, output, total + Len(bytes))
  BY <1>1, <1>11, <1>13, <1>14, <1>15, <1>16, <1>17 DEF OpenState
<1> QED BY <1>13, <1>18 DEF GoodWriter

LEMMA StagedKeepsInv ==
    ASSUME WriterInv, NEW w \in writer, NEW n \in Nat, write_staged(w, n)
    PROVE  WriterInv'
<1>1. w.status = "Open" /\ n > 0 /\ copied(w, n) > 0
  BY DEF write_staged
<1>2. PICK m : m = copied(w, n)
  OBVIOUS
<1>3. /\ IsWriter(w) /\ OpenState(w, inner, accepted) /\ GoodOutput(inner)
      /\ Len(inner) \in Nat /\ accepted \in Nat
  BY <1>1, OpenWriter
<1>4. extend_room(w.buffer) \in Nat
  <2>1. GoodBuffer(w.buffer)
    BY <1>3 DEF OpenState
  <2>2. CASE holds_plaintext(w.buffer)
    BY <2>1, <2>2, Capacity, LenProperties DEF extend_room, GoodBuffer, capacity
  <2>3. CASE ~holds_plaintext(w.buffer)
    BY <2>1, <2>3, Capacity DEF extend_room, GoodBuffer, capacity
  <2> QED BY <2>2, <2>3
<1>5. m \in 1 .. n /\ m \in Nat /\ m <= extend_room(w.buffer)
  BY <1>1, <1>2, <1>4 DEF copied
<1>6. Input(m) \in Seq(Nat) /\ Len(Input(m)) = m /\ Follow(Input(m), accepted)
  BY <1>3, <1>5, InputFollows
<1>7. PICK v : v = SetBuffer(w, extend_plaintext(w.buffer, Input(m)))
  OBVIOUS
<1>8. GoodWriter(v, inner, accepted + m)
  BY <1>3, <1>5, <1>6, <1>7, ExtendIsGood
<1>9. Wrote("write", Step(v, inner, TRUE), n, m)
  BY <1>2, <1>7 DEF write_staged, SetBuffer
<1>10. PICK st : st = Step(v, inner, TRUE)
  OBVIOUS
<1>11. st.writer = v /\ st.inner = inner /\ st.ok
  BY <1>10 DEF Step
<1> QED BY <1>3, <1>5, <1>8, <1>9, <1>10, <1>11, WroteKeepsInv

(* extend_plaintext on the writer inside a step. *)
StepBuffer(st, b) == [st EXCEPT !.writer.buffer = b]

LEMMA StepBufferFields ==
    ASSUME NEW st, st = Step(st.writer, st.inner, st.ok), NEW b, NEW v, v = SetBuffer(st.writer, b)
    PROVE  /\ StepBuffer(st, b).writer = v
           /\ StepBuffer(st, b).inner = st.inner
           /\ StepBuffer(st, b).ok = st.ok
<1>1. PICK w, out, ok : st = Step(w, out, ok) /\ w = st.writer /\ out = st.inner /\ ok = st.ok
  OBVIOUS
<1>2. StepBuffer(st, b) = [st EXCEPT !.writer = [st.writer EXCEPT !.buffer = b]]
  BY <1>1 DEF StepBuffer, Step
<1>3. [st EXCEPT !.writer = v] = Step(v, out, ok)
  BY <1>1 DEF Step
<1>4. StepBuffer(st, b) = Step(v, out, ok)
  BY <1>2, <1>3 DEF SetBuffer
<1> QED BY <1>1, <1>4 DEF Step

(* A write whose staged segment is full emits it before it takes input. *)
LEMMA FullKeepsInv ==
    ASSUME WriterInv, NEW w \in writer, NEW n \in Nat, NEW fault, NEW fault2,
           NEW io \in Outputs, NEW io2 \in Outputs,
           write_full(w, n, fault, io, fault2, io2)
    PROVE  WriterInv'
<1>1. w.status = "Open" /\ n > 0 /\ ~takes_direct(w, n) /\ copied(w, n) = 0
  BY DEF write_full
<1>2. /\ IsWriter(w) /\ OpenState(w, inner, accepted) /\ GoodOutput(inner)
      /\ Len(inner) \in Nat /\ accepted \in Nat
  BY <1>1, OpenWriter
<1>3. GoodBuffer(w.buffer)
  BY <1>2 DEF OpenState
<1>4. extend_room(w.buffer) = 0
  BY <1>1 DEF copied
<1>5. holds_plaintext(w.buffer)
  BY <1>3, <1>4, Capacity DEF extend_room, GoodBuffer, capacity
<1>6. Len(w.buffer.payload) = capacity
  <2>1. Len(w.buffer.payload) \in Nat
    BY <1>3, <1>5, LenProperties DEF GoodBuffer
  <2> QED BY <1>3, <1>4, <1>5, <2>1, Capacity DEF extend_room, GoodBuffer, capacity
<1>7. PICK em : em = emit_non_final(w, inner, fault, io)
  OBVIOUS
<1>8. Emitted(em, accepted)
  BY <1>2, <1>5, <1>6, <1>7, EmitIsGood
<1>9. Wrote("write", after_emit(em, n, fault2, io2).step, n, after_emit(em, n, fault2, io2).n)
  BY <1>7 DEF write_full
<1>10. CASE ~em.ok
  <2>1. Wrote("write", em, n, 0)
    <3>1. after_emit(em, n, fault2, io2) = [step |-> em, n |-> 0]
      BY <1>10 DEF after_emit
    <3> QED BY <1>9, <3>1
  <2>2. GoodOutput(em.inner) /\ GoodWriter(em.writer, em.inner, IF em.ok THEN accepted + 0 ELSE accepted)
    BY <1>2, <1>8, <1>10, EmittedIsGood
  <2> QED BY <1>10, <2>1, <2>2, WroteKeepsInv
<1>11. CASE em.ok
  <2>1. /\ OpenState(em.writer, em.inner, accepted) /\ ~holds_plaintext(em.writer.buffer)
        /\ GoodOutput(em.inner) /\ IsWriter(em.writer)
        /\ em = Step(em.writer, em.inner, em.ok)
    BY <1>8, <1>11 DEF Emitted
  <2>2. Len(em.inner) \in Nat
    BY <2>1, LenProperties DEF GoodOutput, IsSeq
  <2>3. CASE n >= capacity
    <3>1. PICK st : st = write_segment_direct(em.writer, em.inner, Input(capacity), fault2, io2)
      OBVIOUS
    <3>2. Wrote("write", st, n, capacity)
      <4>1. after_emit(em, n, fault2, io2) = [step |-> st, n |-> capacity]
        BY <1>11, <2>3, <3>1 DEF after_emit
      <4> QED BY <1>9, <4>1
    <3>3. Len(Input(capacity)) = capacity /\ Follow(Input(capacity), accepted)
      BY <1>2, InputFollows, Capacity
    <3>4. Emitted(st, accepted + capacity)
      BY <2>1, <2>2, <3>1, <3>3, DirectIsGood
    <3>5. GoodOutput(st.inner)
          /\ GoodWriter(st.writer, st.inner, IF st.ok THEN accepted + capacity ELSE accepted)
      BY <3>4, EmittedIsGood
    <3>6. capacity \in Nat /\ capacity \in 1 .. n
      BY <2>3, Capacity
    <3> QED BY <3>2, <3>5, <3>6, WroteKeepsInv
  <2>4. CASE ~(n >= capacity)
    <3>1. PICK b : b = extend_plaintext(em.writer.buffer, Input(n))
      OBVIOUS
    <3>2. PICK v : v = SetBuffer(em.writer, b)
      OBVIOUS
    <3>3. PICK st : st = StepBuffer(em, b)
      OBVIOUS
    <3>4. st.writer = v /\ st.inner = em.inner /\ st.ok = em.ok
      BY <2>1, <3>2, <3>3, StepBufferFields
    <3>5. Wrote("write", st, n, n)
      <4>1. StepBuffer(em, b) = [em EXCEPT !.writer.buffer = extend_plaintext(@, Input(n))]
        BY <2>1, <3>1 DEF StepBuffer, Step
      <4>2. after_emit(em, n, fault2, io2) = [step |-> st, n |-> n]
        BY <1>11, <2>4, <3>3, <4>1 DEF after_emit
      <4> QED BY <1>9, <4>2
    <3>6. Input(n) \in Seq(Nat) /\ Len(Input(n)) = n /\ Follow(Input(n), accepted)
      BY <1>2, InputFollows
    <3>7. n <= extend_room(em.writer.buffer)
      <4>1. em.writer.buffer.parameters = SegmentLength
        BY <2>1 DEF OpenState, GoodBuffer
      <4> QED BY <2>1, <2>4, <4>1, Capacity DEF extend_room, capacity
    <3>8. GoodWriter(v, em.inner, accepted + n)
      BY <1>2, <2>1, <2>2, <3>1, <3>2, <3>6, <3>7, ExtendIsGood
    <3>9. n \in 1 .. n
      BY <1>1
    <3> QED BY <1>11, <2>1, <3>4, <3>5, <3>8, <3>9, WroteKeepsInv
  <2> QED BY <2>3, <2>4
<1> QED BY <1>8, <1>10, <1>11 DEF Emitted

(* try_finish: the staged bytes become the final segment, or the writer is *)
(* poisoned.                                                               *)
LEMMA FinishKeepsInv ==
    ASSUME WriterInv, NEW w \in writer, NEW fault, NEW io \in Outputs, NEW flushed \in BOOLEAN,
           try_finish(w, fault, io, flushed)
    PROVE  WriterInv'
<1>1. CASE w.status = "Open"
  <2>1. PICK st : st = poison_on_error(finish_message(w, inner, fault, io, flushed))
    OBVIOUS
  <2>2. Wrote("finish", st, 0, 0)
    BY <1>1, <2>1 DEF try_finish
  <2>3. FinishedStep(st, accepted)
    BY <1>1, <2>1, OpenWriter, FinishIsGood
  <2>4. accepted \in Nat
    BY DEF WriterInv
  <2>5. GoodOutput(st.inner)
        /\ GoodWriter(st.writer, st.inner, IF st.ok THEN accepted + 0 ELSE accepted)
    BY <2>3, <2>4 DEF FinishedStep, GoodWriter
  <2> QED BY <2>2, <2>5, WroteKeepsInv
<1>2. CASE w.status # "Open"
  <2>1. UNCHANGED <<writer, inner, header, accepted>> /\ GoodReturn'
    BY <1>2 DEF try_finish, Returns, GoodReturn
  <2> QED BY <2>1, UntouchedKeepsInv
<1> QED BY <1>1, <1>2

(* Every step of the specification keeps the invariant. *)
LEMMA StepKeepsInv == WriterInv /\ [Next]_vars => WriterInv'
<1> SUFFICES ASSUME WriterInv, [Next]_vars PROVE WriterInv'
  OBVIOUS
<1>1. ASSUME NEW io \in Outputs, new(io) PROVE WriterInv'
  BY <1>1, NewKeepsInv
<1>2. ASSUME NEW w \in writer, NEW n \in 0 .. MaxWrite, NEW fault \in Faults,
             NEW fault2 \in Faults, NEW io \in Outputs, NEW io2 \in Outputs,
             \/ write_refused(w, n)
             \/ write_direct(w, n, fault, io)
             \/ write_staged(w, n)
             \/ write_full(w, n, fault, io, fault2, io2)
      PROVE  WriterInv'
  <2>1. n \in Nat
    BY EncryptWriterAssumption
  <2>2. CASE write_refused(w, n)
    <3>1. UNCHANGED <<writer, inner, header, accepted>>
      BY <2>2 DEF write_refused
    <3>2. ret'.asked = n /\ (ret'.ok <=> n = 0)
      BY <2>2 DEF write_refused, Returns
    <3>3. GoodReturn'
      BY <2>1, <3>2 DEF GoodReturn
    <3> QED BY <3>1, <3>3, UntouchedKeepsInv
  <2>3. CASE write_direct(w, n, fault, io)
    BY <2>1, <2>3, DirectKeepsInv
  <2>4. CASE write_staged(w, n)
    BY <2>1, <2>4, StagedKeepsInv
  <2>5. CASE write_full(w, n, fault, io, fault2, io2)
    BY <2>1, <2>5, FullKeepsInv
  <2> QED BY <1>2, <2>2, <2>3, <2>4, <2>5
<1>3. ASSUME NEW w \in writer, NEW flushed \in BOOLEAN, flush(w, flushed) PROVE WriterInv'
  <2>1. UNCHANGED <<writer, inner, header, accepted>> /\ GoodReturn'
    BY <1>3 DEF flush, Returns, GoodReturn
  <2> QED BY <2>1, UntouchedKeepsInv
<1>4. ASSUME NEW w \in writer, NEW fault \in Faults, NEW io \in Outputs, NEW flushed \in BOOLEAN,
             try_finish(w, fault, io, flushed)
      PROVE  WriterInv'
  BY <1>4, FinishKeepsInv
<1>5. ASSUME into_inner_unfinished PROVE WriterInv'
  <2>1. /\ writer' = {} /\ UNCHANGED <<inner, header, accepted>>
        /\ GoodReturn' /\ header # "none"
    BY <1>5 DEF into_inner_unfinished, Returns, GoodReturn, None, WriterInv
  <2> QED BY <2>1 DEF WriterInv, GoodOutput, Ordered, IsSeq, Follow, capacity, None
<1>6. CASE UNCHANGED vars
  <2>1. UNCHANGED <<writer, inner, header, accepted>> /\ ret' = ret
    BY <1>6 DEF vars
  <2>2. GoodReturn'
    BY <2>1 DEF GoodReturn, WriterInv
  <2> QED BY <2>1, <2>2, UntouchedKeepsInv
<1> QED BY <1>1, <1>2, <1>3, <1>4, <1>5, <1>6 DEF Next

(* Every step adds to the output only while no segment was torn or final:  *)
(* only an open writer writes, and new begins before the first segment.    *)
LEMMA StepKeepsEnd ==
    ASSUME WriterInv, Next, inner' # inner
    PROVE  Unfinished(inner)
<1>1. ASSUME NEW io \in Outputs, new(io) PROVE FALSE
  BY <1>1 DEF new
<1>2. ASSUME NEW w \in writer, NEW n \in 0 .. MaxWrite, NEW fault \in Faults,
             NEW fault2 \in Faults, NEW io \in Outputs, NEW io2 \in Outputs,
             \/ write_refused(w, n)
             \/ write_direct(w, n, fault, io)
             \/ write_staged(w, n)
             \/ write_full(w, n, fault, io, fault2, io2)
      PROVE  Unfinished(inner)
  <2>1. w.status = "Open"
    BY <1>2 DEF write_refused, write_direct, write_staged, write_full
  <2> QED BY <2>1, OpenWriter DEF OpenState
<1>3. ASSUME NEW w \in writer, NEW flushed \in BOOLEAN, flush(w, flushed) PROVE FALSE
  BY <1>3 DEF flush
<1>4. ASSUME NEW w \in writer, NEW fault \in Faults, NEW io \in Outputs, NEW flushed \in BOOLEAN,
             try_finish(w, fault, io, flushed)
      PROVE  Unfinished(inner)
  <2>1. w.status = "Open"
    BY <1>4 DEF try_finish
  <2> QED BY <2>1, OpenWriter DEF OpenState
<1>5. ASSUME into_inner_unfinished PROVE FALSE
  BY <1>5 DEF into_inner_unfinished
<1> QED BY <1>1, <1>2, <1>3, <1>4, <1>5 DEF Next

-----------------------------------------------------------------------------
(* The results. *)

(* What reaches the wrapped writer is in order and without gaps, whatever  *)
(* fails: EncryptWriter's write, flush, try_finish and drop never emit a   *)
(* segment out of turn or a short non-final one.                           *)
THEOREM OrderedOutput == Spec => []OutputIsInOrder
<1>1. Spec => []WriterInv
  BY InitIsGood, StepKeepsInv, PTL DEF Spec
<1> QED BY <1>1, InvImpliesProperties, PTL

(* No byte that write accepted is lost or written twice: it is staged or   *)
(* in the output while the writer is open, and in the output of a finished *)
(* one; a successful write of a non-empty input makes progress.            *)
THEOREM LosslessWriter == Spec => []NoByteIsLost
<1>1. Spec => []WriterInv
  BY InitIsGood, StepKeepsInv, PTL DEF Spec
<1> QED BY <1>1, InvImpliesProperties, PTL

(* An error poisons the writer for good: nothing follows a segment that    *)
(* arrived in part, nor a final one.                                       *)
THEOREM SilentAfterEnd == Spec => NothingAfterTornOrFinal
<1> DEFINE Ended == \E i \in 1 .. Len(inner) : ~inner[i].whole \/ inner[i].segment.kind = "Final"
<1>1. Spec => []WriterInv
  BY InitIsGood, StepKeepsInv, PTL DEF Spec
<1>2. WriterInv /\ [Next]_vars => [Ended => inner' = inner]_vars
  <2> SUFFICES ASSUME WriterInv, Next, inner' # inner, Ended PROVE FALSE
    BY DEF vars
  <2>1. Unfinished(inner)
    BY StepKeepsEnd
  <2> QED BY <2>1 DEF Unfinished
<1> QED BY <1>1, <1>2, PTL DEF Spec, NothingAfterTornOrFinal

=============================================================================
