------------------------- MODULE EncryptReaderProofs -------------------------
(***************************************************************************)
(* Proofs of the encrypting reader for every segment length, every source, *)
(* every mixture of reads, and every failure of the wrapped reader and of  *)
(* the backend.                                                            *)
(***************************************************************************)
EXTENDS EncryptReader, SegmentProofs

-----------------------------------------------------------------------------
(* The message that the source's bytes make. *)

StartOf(k) == k * capacity
PayloadLength(k) == least(capacity, Len(plain) - StartOf(k))
IsLast(k) == StartOf(k) + capacity >= Len(plain)
KindOf(k) == IF IsLast(k) THEN "Final" ELSE "NonFinal"

(* s is the message's segment of position k. *)
MessageSegment(s, k) ==
    /\ StartOf(k) <= Len(plain)
    /\ SegmentNumber(s, k, KindOf(k), Slice(plain, StartOf(k), PayloadLength(k)))

(* The byte at index k of an output, as OutputIsTheMessage has it. *)
TokenIsRight(output, k) ==
    LET body == k - HEADER_LENGTH - 1
        position == body \div SegmentLength
        start == position * capacity
        length == least(capacity, Len(plain) - start)
        token == output[k]
    IN  IF k <= HEADER_LENGTH THEN token = header_bytes(header)[k]
        ELSE /\ token.at = (body % SegmentLength) + 1
             /\ token.of = SEGMENT_OVERHEAD + length
             /\ token.item.position = position
             /\ token.item.kind = "Final" <=> start + capacity >= Len(plain)
             /\ token.item.plaintext = plaintext_of(Slice(plain, start, length))
             /\ token.at > 1 => token.item = output[k - 1].item

GoodOutput(output) == IsSeq(output) /\ \A k \in 1 .. Len(output) : TokenIsRight(output, k)

-----------------------------------------------------------------------------
(* The invariant. *)

Reader(e, h, b, p, l, a, status) ==
    [encryptor |-> e, header_position |-> h, buffer |-> b, ciphertext_position |-> p,
     ciphertext_length |-> l, lookahead |-> a, status |-> status]

IsReader(r) == r = Reader(r.encryptor, r.header_position, r.buffer, r.ciphertext_position,
                          r.ciphertext_length, r.lookahead, r.status)

(* The parts of a reader that only their own updates change. *)
GoodFields(r) ==
    /\ IsReader(r) /\ IsBuffer(r.buffer) /\ r.buffer.parameters = SegmentLength
    /\ r.ciphertext_position \in Nat /\ r.ciphertext_length \in Nat
    /\ r.ciphertext_position <= r.ciphertext_length

(* What has not been copied out of the loaded segment. *)
Pending(r) == r.ciphertext_length - r.ciphertext_position

(* The output stops after the first c bytes of segment k, which is s. *)
StopsIn(output, s, k, c) ==
    /\ Len(output) = HEADER_LENGTH + k * SegmentLength + c
    /\ c > 0 => output[Len(output)].item = s

(* The buffer holds segment k, and the output stops inside it. *)
Loaded(r, output, k) ==
    \E s : /\ r.buffer.segment = Some(s) /\ MessageSegment(s, k)
           /\ r.ciphertext_length = s.length
           /\ StopsIn(output, s, k, r.ciphertext_position)

(* The byte read ahead of segment k, and what the source has delivered. *)
Ahead(lookahead, took, k) ==
    \/ k = 0 /\ lookahead = None /\ took = 0
    \/ k > 0 /\ StartOf(k) < Len(plain) /\ took = StartOf(k) + 1
         /\ lookahead = Some(plain[StartOf(k) + 1])

(* An open reader that has sealed k segments, all of them full. *)
OpenReader(r, output, took, k) ==
    /\ \E state : r.encryptor = Some(EncryptorAt(state, k))
    /\ r.header_position \in 0 .. HEADER_LENGTH
    /\ k = 0 => Pending(r) = 0
    /\ k > 0 => r.header_position = HEADER_LENGTH
    /\ Len(output) + Pending(r) = r.header_position + k * SegmentLength
    /\ Pending(r) > 0 => Loaded(r, output, k - 1)
    /\ Ahead(r.lookahead, took, k)

(* A reader that has sealed the final segment, of position k. *)
FinishedReader(r, output, took, k) ==
    /\ r.header_position = HEADER_LENGTH
    /\ took = Len(plain) /\ k < AEAD_MAX_SEGMENTS
    /\ StartOf(k) <= Len(plain) /\ IsLast(k) /\ (k > 0 => StartOf(k) < Len(plain))
    /\ Len(output) + Pending(r)
         = HEADER_LENGTH + k * SegmentLength + SEGMENT_OVERHEAD + (Len(plain) - StartOf(k))
    /\ Pending(r) > 0 => Loaded(r, output, k)

GoodReader(r, output, took) ==
    \/ r.status = "Open" /\ GoodFields(r) /\ \E k \in Nat : OpenReader(r, output, took, k)
    \/ r.status = "Finished" /\ GoodFields(r) /\ \E k \in Nat : FinishedReader(r, output, took, k)
    \/ r.status = "Failed"

GoodLast ==
    /\ last.op = "none" => encrypting = None /\ emitted = <<>> /\ taken = 0 /\ ~last.eof
    /\ last.eof => \A r \in encrypting : r.status = "Finished" /\ Pending(r) = 0
    /\ last.op = "read" /\ ~last.ok => \A r \in encrypting : r.status = "Failed"

ReaderInv ==
    /\ plain \in Seq(Nat) /\ \A i \in 1 .. Len(plain) : plain[i] = i
    /\ GoodOutput(emitted)
    /\ \A r \in encrypting : encrypting = Some(r) /\ GoodReader(r, emitted, taken)
    /\ GoodLast

-----------------------------------------------------------------------------
(* What the runs check follows from the invariant. *)

(* The lengths of the reader's parameter set. *)
LEMMA Lengths ==
    /\ capacity \in Nat \ {0} /\ SEGMENT_OVERHEAD \in Nat \ {0} /\ SegmentLength \in Nat \ {0}
    /\ SegmentLength = SEGMENT_OVERHEAD + capacity /\ HEADER_LENGTH \in Nat \ {0}
    /\ context.parameters = SegmentLength
BY EncryptReaderAssumption, ParametersAssumption, SegmentLengths DEF capacity, context, Context

LEMMA PlainLength == plain \in Seq(Nat) => Len(plain) \in Nat
BY LenProperties

(* The finished reader's output has the length of the message. *)
LEMMA FinishedLength ==
    ASSUME plain \in Seq(Nat), NEW r, GoodFields(r), NEW output, Len(output) \in Nat, NEW took,
           NEW k \in Nat, FinishedReader(r, output, took, k), Pending(r) = 0, NEW layout,
           layout = plaintext_layout(SegmentLength, Len(plain))
    PROVE  IF layout.ok THEN Len(output) = layout.value.ciphertext_length
                        ELSE Len(output) > U64_MAX
<1> DEFINE n == Len(plain)
           d == plaintext_segment_length(SegmentLength)
<1>1. n \in Nat /\ d \in Nat \ {0} /\ d = capacity
  BY PlainLength, Lengths DEF capacity
<1>2. /\ k * d <= n /\ n <= k * d + d /\ (k > 0 => k * d < n) /\ k < AEAD_MAX_SEGMENTS
      /\ Len(output) + 0 = HEADER_LENGTH + k * SegmentLength + SEGMENT_OVERHEAD + (n - k * d)
  <2>1. k * d \in Nat
    BY <1>1
  <2> QED BY <1>1, <2>1 DEF FinishedReader, IsLast, StartOf, Pending
<1> HIDE DEF n, d
<1>3. SegmentCountFor(SegmentLength, n) = k + 1
  <2>1. SegmentCountFor(SegmentLength, n)
          = IF DivCeil(n, d) < 1 THEN 1 ELSE DivCeil(n, d)
    BY DEF SegmentCountFor, d
  <2>2. CASE k > 0 \/ n > 0
    <3>1. d * ((k + 1) - 1) < n /\ n <= d * (k + 1)
      BY <1>1, <1>2, <2>2
    <3>2. DivCeil(n, d) = k + 1
      BY <1>1, <3>1, DivCeilUnique
    <3> QED BY <2>1, <3>2
  <2>3. CASE k = 0 /\ n = 0
    <3>1. DivCeil(n, d) = 0
      BY <1>1, <2>3, DivCeilBounds
    <3> QED BY <2>1, <2>3, <3>1
  <2> QED BY <1>1, <2>2, <2>3
<1>4. Len(output) = CiphertextLengthFor(SegmentLength, n)
  <2>1. k * SegmentLength = k * SEGMENT_OVERHEAD + k * d
    BY <1>1, Lengths
  <2>2. (k + 1) * SEGMENT_OVERHEAD = k * SEGMENT_OVERHEAD + SEGMENT_OVERHEAD
    BY Lengths
  <2>3. k * SEGMENT_OVERHEAD \in Nat /\ k * d \in Nat
    BY <1>1, Lengths
  <2> QED BY <1>1, <1>2, <1>3, <2>1, <2>2, <2>3, Lengths DEF CiphertextLengthFor
<1>5. /\ layout.ok <=> CiphertextLengthFor(SegmentLength, n) <= U64_MAX
      /\ layout.ok => layout.value.ciphertext_length = CiphertextLengthFor(SegmentLength, n)
  <2>1. k + 1 <= AEAD_MAX_SEGMENTS
    BY <1>2, ParametersAssumption
  <2>2. layout.ok <=> CiphertextLengthFor(SegmentLength, n) <= U64_MAX
    BY <1>1, <1>3, <2>1, PlaintextLayoutForm, EncryptReaderAssumption DEF n
  <2>3. ASSUME layout.ok
        PROVE  layout.value.ciphertext_length = CiphertextLengthFor(SegmentLength, n)
    <3>1. layout.value = LayoutRecord(SegmentLength, n, CiphertextLengthFor(SegmentLength, n),
                                      SegmentCountFor(SegmentLength, n))
      BY <1>1, <2>3, PlaintextLayoutIsGood, EncryptReaderAssumption DEF n
    <3> QED BY <3>1, LayoutFields
  <2> QED BY <2>2, <2>3
<1> QED BY <1>4, <1>5, ParametersAssumption

LEMMA OutputLength == \A output : IsSeq(output) => Len(output) \in Nat
BY LenProperties DEF IsSeq

LEMMA InvImpliesProperties == ReaderInv => OutputIsTheMessage /\ EndMeansComplete
<1> SUFFICES ASSUME ReaderInv PROVE OutputIsTheMessage /\ EndMeansComplete
  OBVIOUS
<1>1. OutputIsTheMessage
  BY DEF ReaderInv, GoodOutput, TokenIsRight, OutputIsTheMessage
<1>2. PICK layout : layout = plaintext_layout(SegmentLength, Len(plain))
  OBVIOUS
<1>3. ASSUME NEW r \in encrypting, is_finished(r) \/ last.eof
      PROVE  /\ taken = Len(plain)
             /\ IF layout.ok THEN Len(emitted) = layout.value.ciphertext_length
                             ELSE Len(emitted) > U64_MAX
  <2>1. r.status = "Finished" /\ Pending(r) = 0 /\ GoodFields(r)
    BY <1>3 DEF ReaderInv, GoodLast, GoodReader, GoodFields, is_finished, at_segment_end, Pending
  <2>2. PICK k \in Nat : FinishedReader(r, emitted, taken, k)
    BY <2>1 DEF ReaderInv, GoodReader
  <2>3. Len(emitted) \in Nat /\ plain \in Seq(Nat)
    BY OutputLength DEF ReaderInv, GoodOutput
  <2>4. taken = Len(plain)
    BY <2>2 DEF FinishedReader
  <2> QED BY <1>2, <2>1, <2>2, <2>3, <2>4, FinishedLength
<1>4. EndMeansComplete
  BY <1>2, <1>3 DEF EndMeansComplete
<1> QED BY <1>1, <1>4

-----------------------------------------------------------------------------
(* What a read appends to the output. *)

(* Concatenation of sequences of anything. *)
LEMMA ConcatOfSeqs ==
    ASSUME NEW s, IsSeq(s), NEW t, IsSeq(t)
    PROVE  /\ IsSeq(s \o t)
           /\ Len(s) \in Nat /\ Len(t) \in Nat /\ Len(s \o t) = Len(s) + Len(t)
           /\ \A i \in 1 .. Len(s) : (s \o t)[i] = s[i]
           /\ \A i \in 1 .. Len(t) : (s \o t)[Len(s) + i] = t[i]
<1>1. PICK S, T : s \in Seq(S) /\ t \in Seq(T)
  BY DEF IsSeq
<1>2. s \in Seq(S \cup T) /\ t \in Seq(S \cup T)
  BY <1>1, SeqMonotonic
<1>3. Len(s) \in Nat /\ Len(t) \in Nat
  BY <1>2, LenProperties
<1>4. /\ s \o t \in Seq(S \cup T) /\ Len(s \o t) = Len(s) + Len(t)
      /\ \A i \in 1 .. Len(s) + Len(t) :
            (s \o t)[i] = IF i <= Len(s) THEN s[i] ELSE t[i - Len(s)]
  BY <1>2, ConcatProperties
<1>5. \A i \in 1 .. Len(t) : (s \o t)[Len(s) + i] = t[i]
  BY <1>3, <1>4
<1> QED BY <1>3, <1>4, <1>5 DEF IsSeq

(* The bytes of a header or a segment. *)
LEMMA BytesOf ==
    ASSUME NEW item, NEW length \in Nat, NEW at \in Nat, NEW n \in Nat, at + n <= length
    PROVE  LET bytes == Slice(bytes_of(item, length), at, n)
           IN  /\ IsSeq(bytes) /\ Len(bytes) = n
               /\ \A i \in 1 .. n : bytes[i] = [item |-> item, at |-> at + i, of |-> length]
<1>1. PICK all : all = bytes_of(item, length)
  OBVIOUS
<1>2. PICK S : S = {[item |-> item, at |-> k, of |-> length] : k \in 1 .. length}
  OBVIOUS
<1>3. all \in [1 .. length -> S]
      /\ \A k \in 1 .. length : all[k] = [item |-> item, at |-> k, of |-> length]
  BY <1>1, <1>2 DEF bytes_of
<1>4. all \in Seq(S) /\ Len(all) = length
  BY <1>3, SeqDef, LenProperties
<1>5. /\ Slice(all, at, n) \in Seq(S) /\ Len(Slice(all, at, n)) = n
      /\ \A i \in 1 .. n : Slice(all, at, n)[i] = all[at + i]
  <2>1. at \in Nat /\ n \in Nat /\ at + n <= Len(all)
    BY <1>4
  <2> QED BY <1>4, <2>1, SliceOf, ZenonT(60)
<1>6. \A i \in 1 .. n : at + i \in 1 .. length
  OBVIOUS
<1> QED BY <1>1, <1>3, <1>5, <1>6 DEF IsSeq

(* A token that is right stays right when more follow. *)
LEMMA TokenStays ==
    ASSUME NEW output, IsSeq(output), NEW bytes, IsSeq(bytes), NEW k \in 1 .. Len(output),
           TokenIsRight(output, k)
    PROVE  TokenIsRight(output \o bytes, k)
<1>1. PICK out : out = output \o bytes
  OBVIOUS
<1>2. Len(output) \in Nat /\ out[k] = output[k]
  BY <1>1, ConcatOfSeqs
<1>3. k > 1 => out[k - 1] = output[k - 1]
  <2>1. k > 1 => k - 1 \in 1 .. Len(output)
    BY <1>2
  <2> QED BY <1>1, <2>1, ConcatOfSeqs
<1>4. CASE k <= HEADER_LENGTH
  BY <1>1, <1>2, <1>4 DEF TokenIsRight
<1>5. CASE k > HEADER_LENGTH
  <2>1. k > 1
    BY <1>5, Lengths
  <2> QED BY <1>1, <1>2, <1>3, <1>5, <2>1, Lengths DEF TokenIsRight
<1> QED BY <1>4, <1>5, Lengths

(* A byte that is appended, by its index. *)
LEMMA AppendedByte ==
    ASSUME NEW s, IsSeq(s), NEW t, IsSeq(t), NEW i \in 1 .. Len(t), NEW j, j = Len(s) + i
    PROVE  (s \o t)[j] = t[i]
<1>1. \A k \in 1 .. Len(t) : (s \o t)[Len(s) + k] = t[k]
  BY ConcatOfSeqs
<1> QED BY <1>1, Zenon

LEMMA KeptByte ==
    ASSUME NEW s, IsSeq(s), NEW t, IsSeq(t), NEW i \in 1 .. Len(s)
    PROVE  (s \o t)[i] = s[i]
BY ConcatOfSeqs

(* The byte at index i of an item, as byte j of a slice of the item. *)
LEMMA SlicedByte ==
    ASSUME NEW item, NEW length \in Nat, NEW at \in Nat, NEW n \in Nat, at + n <= length,
           NEW i \in 1 .. n
    PROVE  /\ Slice(bytes_of(item, length), at, n)[i]
                = [item |-> item, at |-> at + i, of |-> length]
           /\ bytes_of(item, length)[at + i] = [item |-> item, at |-> at + i, of |-> length]
<1>1. at + i \in 1 .. length
  OBVIOUS
<1>2. bytes_of(item, length)[at + i] = [item |-> item, at |-> at + i, of |-> length]
  BY <1>1 DEF bytes_of
<1> QED BY <1>2, BytesOf

(* read copies more of the header. *)
LEMMA HeaderExtends ==
    ASSUME NEW output, GoodOutput(output), NEW n \in Nat, Len(output) + n <= HEADER_LENGTH
    PROVE  LET bytes == Slice(header_bytes(header), Len(output), n)
           IN  /\ GoodOutput(output \o bytes)
               /\ IsSeq(bytes) /\ Len(bytes) = n
<1>1. PICK item, length, h : item = header /\ length = HEADER_LENGTH /\ h = Len(output)
  OBVIOUS
<1>2. length \in Nat /\ h \in Nat /\ h + n <= length
  BY <1>1, Lengths, LenProperties DEF GoodOutput, IsSeq
<1>3. PICK bytes : bytes = Slice(bytes_of(item, length), h, n)
  OBVIOUS
<1>4. IsSeq(bytes) /\ Len(bytes) = n
  BY <1>2, <1>3, BytesOf
<1>5. PICK out : out = output \o bytes
  OBVIOUS
<1>6. IsSeq(output) /\ IsSeq(out) /\ Len(out) = h + n
  BY <1>1, <1>4, <1>5, ConcatOfSeqs DEF GoodOutput
<1>7. ASSUME NEW i \in 1 .. n
      PROVE  out[h + i] = bytes_of(item, length)[h + i]
  <2>1. i \in 1 .. Len(bytes)
    BY <1>4
  <2>2. out[h + i] = bytes[i]
    BY <1>1, <1>4, <1>5, <1>6, <2>1, AppendedByte
  <2>3. bytes[i] = bytes_of(item, length)[h + i]
    <3>1. bytes[i] = Slice(bytes_of(item, length), h, n)[i]
      BY <1>3
    <3>2. /\ Slice(bytes_of(item, length), h, n)[i] = [item |-> item, at |-> h + i, of |-> length]
          /\ bytes_of(item, length)[h + i] = [item |-> item, at |-> h + i, of |-> length]
      BY <1>2, SlicedByte
    <3> QED BY <3>1, <3>2
  <2> QED BY <2>2, <2>3
<1>8. ASSUME NEW k \in 1 .. Len(out) PROVE TokenIsRight(out, k)
  <2>1. CASE k <= h
    BY <1>1, <1>4, <1>5, <1>6, <2>1, TokenStays DEF GoodOutput
  <2>2. CASE k > h
    <3>1. PICK i : i = k - h
      OBVIOUS
    <3>2. i \in 1 .. n /\ k = h + i /\ k <= HEADER_LENGTH
      BY <1>1, <1>2, <1>6, <2>2, <3>1
    <3>3. out[k] = bytes_of(item, length)[k]
      BY <1>7, <3>2
    <3> QED BY <1>1, <3>2, <3>3 DEF TokenIsRight, header_bytes
  <2> QED BY <1>2, <1>6, <2>1, <2>2
<1>9. bytes = Slice(header_bytes(header), Len(output), n)
  BY <1>1, <1>3 DEF header_bytes
<1> QED BY <1>4, <1>5, <1>6, <1>8, <1>9 DEF GoodOutput

(* Where the byte i of segment k stands in the ciphertext. *)
LEMMA TokenIndex ==
    ASSUME NEW k \in Nat, NEW i \in 1 .. SegmentLength, NEW j,
           j = HEADER_LENGTH + k * SegmentLength + i
    PROVE  /\ j \in Nat /\ ~(j <= HEADER_LENGTH)
           /\ (j - HEADER_LENGTH - 1) \div SegmentLength = k
           /\ (j - HEADER_LENGTH - 1) % SegmentLength = i - 1
<1>1. PICK d \in Nat \ {0} : d = SegmentLength
  BY Lengths
<1>2. PICK base \in Nat : base = k * d
  BY <1>1
<1>3. i \in Nat /\ i >= 1 /\ i <= d /\ HEADER_LENGTH \in Nat
  BY <1>1, Lengths
<1>4. j = HEADER_LENGTH + base + i
  BY <1>1, <1>2
<1>5. PICK body \in Nat : body = base + (i - 1) /\ body = j - HEADER_LENGTH - 1
  BY <1>2, <1>3, <1>4
<1>6. body \div d = k
  <2>1. d * k <= body /\ body < d * (k + 1)
    BY <1>1, <1>2, <1>3, <1>5
  <2>2. k \in Int /\ d \in Nat \ {0} /\ body \in Nat
    BY <1>1, <1>5
  <2> QED BY <2>1, <2>2, DivUnique
<1>7. body % d = i - 1
  <2>1. body % d \in 0 .. d - 1 /\ body = d * (body \div d) + (body % d)
    BY <1>1, <1>5, DivMod
  <2>2. d * (body \div d) = base
    BY <1>1, <1>2, <1>6
  <2> QED BY <1>1, <1>2, <1>3, <1>5, <2>1, <2>2
<1> QED BY <1>1, <1>3, <1>4, <1>5, <1>6, <1>7

(* What a segment of the message carries. *)
LEMMA SegmentFields ==
    ASSUME plain \in Seq(Nat), NEW s, NEW k \in Nat, MessageSegment(s, k)
    PROVE  /\ s.position = k
           /\ s.kind = "Final" <=> k * capacity + capacity >= Len(plain)
           /\ s.plaintext = plaintext_of(Slice(plain, k * capacity,
                                               least(capacity, Len(plain) - k * capacity)))
           /\ s.length = SEGMENT_OVERHEAD + least(capacity, Len(plain) - k * capacity)
           /\ s.length \in Nat \ {0} /\ s.length <= SegmentLength
<1>1. PICK start \in Nat : start = k * capacity
  BY Lengths
<1>2. Len(plain) \in Nat /\ capacity \in Nat /\ start <= Len(plain)
  BY <1>1, Lengths, PlainLength DEF MessageSegment, StartOf
<1>3. PICK n : n = least(capacity, Len(plain) - start)
  OBVIOUS
<1>4. n \in Nat /\ start + n <= Len(plain) /\ n <= capacity
  BY <1>2, <1>3 DEF least
<1>5. Len(Slice(plain, start, n)) = n
  BY <1>4, SliceOf
<1>6. /\ s.position = k /\ s.kind = KindOf(k)
      /\ s.plaintext = plaintext_of(Slice(plain, start, n)) /\ s.length = SEGMENT_OVERHEAD + n
  BY <1>1, <1>3, <1>5 DEF MessageSegment, SegmentNumber, StartOf, PayloadLength
<1>7. s.length \in Nat \ {0} /\ s.length <= SegmentLength
  BY <1>4, <1>6, Lengths
<1>8. s.kind = "Final" <=> start + capacity >= Len(plain)
  BY <1>1, <1>6 DEF KindOf, IsLast, StartOf
<1> QED BY <1>1, <1>3, <1>6, <1>7, <1>8

(* Byte j of the output is byte i of s, and so is the one before it. *)
IsByteOf(output, j, s, i) ==
    /\ output[j] = [item |-> s, at |-> i, of |-> s.length]
    /\ i > 1 => output[j - 1].item = s

LEMMA SegmentToken ==
    ASSUME plain \in Seq(Nat), NEW s, NEW k \in Nat, MessageSegment(s, k),
           NEW i \in 1 .. SegmentLength, NEW output, NEW j,
           j = HEADER_LENGTH + k * SegmentLength + i, IsByteOf(output, j, s, i)
    PROVE  TokenIsRight(output, j)
<1>1. PICK body : body = j - HEADER_LENGTH - 1
  OBVIOUS
<1>2. ~(j <= HEADER_LENGTH) /\ body \div SegmentLength = k /\ body % SegmentLength = i - 1
  BY <1>1, TokenIndex
<1>3. PICK token : token = output[j]
  OBVIOUS
<1>4. /\ token.item = s /\ token.at = i /\ token.of = s.length
      /\ token.at > 1 => token.item = output[j - 1].item
  BY <1>3 DEF IsByteOf
<1>5. token.at = (body % SegmentLength) + 1
  BY <1>2, <1>4, Lengths
<1>6. /\ s.position = k
      /\ s.kind = "Final" <=> k * capacity + capacity >= Len(plain)
      /\ s.plaintext = plaintext_of(Slice(plain, k * capacity,
                                          least(capacity, Len(plain) - k * capacity)))
      /\ s.length = SEGMENT_OVERHEAD + least(capacity, Len(plain) - k * capacity)
  BY SegmentFields
<1> QED BY <1>1, <1>2, <1>3, <1>4, <1>5, <1>6 DEF TokenIsRight

(* read copies more of segment k. *)
LEMMA SegmentExtends ==
    ASSUME plain \in Seq(Nat), NEW output, GoodOutput(output), NEW s, NEW k \in Nat,
           MessageSegment(s, k), NEW c \in Nat, NEW n \in Nat, c + n <= s.length,
           StopsIn(output, s, k, c)
    PROVE  LET bytes == Slice(segment_bytes(s), c, n)
           IN  /\ GoodOutput(output \o bytes)
               /\ IsSeq(bytes) /\ Len(bytes) = n
               /\ StopsIn(output \o bytes, s, k, c + n)
<1>1. PICK bytes, l : bytes = Slice(segment_bytes(s), c, n) /\ l = s.length
  OBVIOUS
<1>2. l \in Nat /\ l <= SegmentLength /\ c + n <= l
  BY <1>1, SegmentFields
<1>3. IsSeq(bytes) /\ Len(bytes) = n
  <2>1. LET all == Slice(bytes_of(s, l), c, n) IN IsSeq(all) /\ Len(all) = n
    BY <1>2, BytesOf
  <2> QED BY <1>1, <2>1 DEF segment_bytes
<1>4. PICK out, m : out = output \o bytes /\ m = Len(output)
  OBVIOUS
<1>5. IsSeq(output) /\ IsSeq(out) /\ m \in Nat /\ Len(out) = m + n
  BY <1>3, <1>4, ConcatOfSeqs DEF GoodOutput
<1>6. PICK base \in Nat : base = HEADER_LENGTH + k * SegmentLength
  <2>1. k * SegmentLength \in Nat /\ HEADER_LENGTH \in Nat
    BY Lengths
  <2> QED BY <2>1
<1>7. m = base + c /\ Len(out) = base + (c + n)
  BY <1>4, <1>5, <1>6 DEF StopsIn
<1>8. ASSUME NEW i \in 1 .. n
      PROVE  out[m + i] = [item |-> s, at |-> c + i, of |-> l]
  <2>1. i \in 1 .. Len(bytes)
    BY <1>3
  <2>2. out[m + i] = bytes[i]
    BY <1>3, <1>4, <1>5, <2>1, AppendedByte
  <2>3. bytes[i] = Slice(bytes_of(s, l), c, n)[i]
    BY <1>1 DEF segment_bytes
  <2>4. Slice(bytes_of(s, l), c, n)[i] = [item |-> s, at |-> c + i, of |-> l]
    BY <1>2, SlicedByte
  <2> QED BY <2>2, <2>3, <2>4
<1>9. ASSUME NEW i \in 1 .. n PROVE TokenIsRight(out, m + i)
  <2>1. c + i > 1 => out[m + i - 1].item = s
    <3>1. CASE i > 1
      <4>1. i - 1 \in 1 .. n /\ m + (i - 1) = m + i - 1
        BY <1>5, <3>1
      <4>2. out[m + (i - 1)] = [item |-> s, at |-> c + (i - 1), of |-> l]
        BY <1>8, <4>1
      <4>3. out[m + (i - 1)].item = s
        BY <4>2
      <4> QED BY <4>1, <4>3
    <3>2. CASE i = 1 /\ c > 0
      <4>1. m + i - 1 = m /\ m \in 1 .. Len(output)
        BY <1>4, <1>5, <1>7, <3>2
      <4>2. out[m] = output[m]
        BY <1>3, <1>4, <1>5, <4>1, KeptByte
      <4>3. output[m].item = s
        BY <1>4, <3>2 DEF StopsIn
      <4> QED BY <4>1, <4>2, <4>3
    <3>3. CASE i = 1 /\ c = 0
      BY <3>3
    <3> QED BY <3>1, <3>2, <3>3
  <2>2. PICK j, a : j = m + i /\ a = c + i
    OBVIOUS
  <2>3. j - 1 = m + i - 1 /\ a \in 1 .. SegmentLength /\ j = base + a
    BY <1>2, <1>5, <1>7, <2>2, Lengths
  <2>4. IsByteOf(out, j, s, a)
    BY <1>1, <1>8, <2>1, <2>2, <2>3 DEF IsByteOf
  <2>5. j = HEADER_LENGTH + k * SegmentLength + a
    BY <1>6, <2>3
  <2>6. TokenIsRight(out, j)
    BY <2>3, <2>4, <2>5, SegmentToken
  <2> QED BY <2>2, <2>6
<1>10. ASSUME NEW j \in 1 .. Len(out) PROVE TokenIsRight(out, j)
  <2>1. CASE j <= m
    BY <1>3, <1>4, <1>5, <2>1, TokenStays DEF GoodOutput
  <2>2. CASE j > m
    <3>1. PICK i : i = j - m
      OBVIOUS
    <3>2. i \in 1 .. n /\ j = m + i
      BY <1>5, <2>2, <3>1
    <3> QED BY <1>9, <3>2
  <2> QED BY <1>5, <2>1, <2>2
<1>11. StopsIn(out, s, k, c + n)
  <2>1. Len(out) = HEADER_LENGTH + k * SegmentLength + (c + n)
    BY <1>6, <1>7
  <2>2. CASE n > 0
    <3>1. n \in 1 .. n
      BY <2>2
    <3>2. out[Len(out)].item = s
      <4>1. out[m + n] = [item |-> s, at |-> c + n, of |-> l]
        BY <1>8, <3>1
      <4>2. out[m + n].item = s
        BY <4>1
      <4> QED BY <1>5, <4>2
    <3> QED BY <2>1, <3>2 DEF StopsIn
  <2>3. CASE n = 0
    <3>1. Len(out) = m /\ c + n = c
      BY <1>5, <2>3
    <3>2. c > 0 => m \in 1 .. Len(output)
      BY <1>4, <1>5, <1>7
    <3>3. c > 0 => out[m] = output[m]
      BY <1>3, <1>4, <1>5, <3>2, KeptByte
    <3> QED BY <1>4, <2>1, <3>1, <3>3 DEF StopsIn
  <2> QED BY <2>2, <2>3
<1> QED BY <1>1, <1>3, <1>4, <1>5, <1>10, <1>11 DEF GoodOutput

-----------------------------------------------------------------------------
(* The updates of a reader. *)

SetEncryptor(r, x) == [r EXCEPT !.encryptor = x]
SetHeader(r, x) == [r EXCEPT !.header_position = x]
SetBuffer(r, x) == [r EXCEPT !.buffer = x]
SetPosition(r, x) == [r EXCEPT !.ciphertext_position = x]
SetLength(r, x) == [r EXCEPT !.ciphertext_length = x]
SetLookahead(r, x) == [r EXCEPT !.lookahead = x]
SetStatus(r, x) == [r EXCEPT !.status = x]

(* What the fields of a reader are. *)
LEMMA ReaderFields ==
    ASSUME NEW e, NEW h, NEW b, NEW p, NEW l, NEW a, NEW status, NEW r,
           r = Reader(e, h, b, p, l, a, status)
    PROVE  /\ IsReader(r) /\ r.encryptor = e /\ r.header_position = h /\ r.buffer = b
           /\ r.ciphertext_position = p /\ r.ciphertext_length = l /\ r.lookahead = a
           /\ r.status = status
BY DEF Reader, IsReader

(* Each update changes its own field. *)
LEMMA ReaderUpdates ==
    ASSUME NEW e, NEW h, NEW b, NEW p, NEW l, NEW a, NEW status, NEW x
    PROVE  LET r == Reader(e, h, b, p, l, a, status)
           IN  /\ SetEncryptor(r, x) = Reader(x, h, b, p, l, a, status)
               /\ SetHeader(r, x) = Reader(e, x, b, p, l, a, status)
               /\ SetBuffer(r, x) = Reader(e, h, x, p, l, a, status)
               /\ SetPosition(r, x) = Reader(e, h, b, x, l, a, status)
               /\ SetLength(r, x) = Reader(e, h, b, p, x, a, status)
               /\ SetLookahead(r, x) = Reader(e, h, b, p, l, x, status)
               /\ SetStatus(r, x) = Reader(e, h, b, p, l, a, x)
BY DEF Reader, SetEncryptor, SetHeader, SetBuffer, SetPosition, SetLength, SetLookahead, SetStatus

-----------------------------------------------------------------------------
(* fill_plaintext. *)

(* The prepared slice, truncated to what was filled, is what was filled. *)
LEMMA TruncatedFill ==
    ASSUME NEW bytes \in Seq(Nat), Len(bytes) <= capacity
    PROVE  SubSeq(filled(bytes), 1, Len(bytes)) = bytes
<1>1. PICK all, n : all = filled(bytes) /\ n = Len(bytes)
  OBVIOUS
<1>2. n \in Nat /\ n <= capacity /\ capacity \in Nat
  BY <1>1, Lengths, LenProperties
<1>3. all = [i \in 1 .. capacity |-> IF i <= n THEN bytes[i] ELSE 0]
  BY <1>1 DEF filled
<1>4. \A i \in 1 .. n : bytes[i] \in Nat
  BY <1>1, ElementOfSeq
<1>5. all \in Seq(Nat) /\ Len(all) = capacity
  <2>1. all \in [1 .. capacity -> Nat]
    BY <1>2, <1>3, <1>4
  <2> QED BY <1>2, <2>1, SeqDef, LenProperties
<1>6. PICK s : s = Slice(all, 0, n)
  OBVIOUS
<1>7. s \in Seq(Nat) /\ Len(s) = n /\ \A i \in 1 .. n : s[i] = all[0 + i]
  <2>1. 0 \in Nat /\ 0 + n <= Len(all)
    BY <1>2, <1>5
  <2> QED BY <1>2, <1>5, <1>6, <2>1, SliceOf, ZenonT(60)
<1>8. \A i \in 1 .. n : s[i] = bytes[i]
  BY <1>2, <1>3, <1>7
<1>9. s = bytes
  BY <1>1, <1>7, <1>8, SeqEqual
<1>10. Slice(all, 0, n) = SubSeq(all, 1, n)
  BY <1>2 DEF Slice
<1> QED BY <1>1, <1>6, <1>9, <1>10

(* The lookahead byte is the first of the segment that comes next. *)
LEMMA StagedLookahead ==
    ASSUME plain \in Seq(Nat), NEW r, NEW took, NEW k \in Nat, Ahead(r.lookahead, took, k)
    PROVE  \E a \in 0 .. 1 : /\ staged_lookahead(r) = Slice(plain, StartOf(k), a)
                             /\ took = StartOf(k) + a /\ took <= Len(plain)
<1>1. PICK start \in Nat : start = StartOf(k)
  BY Lengths DEF StartOf
<1>2. Len(plain) \in Nat
  BY PlainLength
<1>3. CASE k = 0 /\ r.lookahead = None /\ took = 0
  <2>1. staged_lookahead(r) = <<>> /\ start = 0
    BY <1>1, <1>3, Lengths DEF staged_lookahead, StartOf
  <2>2. Slice(plain, 0, 0) = <<>>
    BY <1>2, SubSeqProperties DEF Slice
  <2> QED BY <1>1, <1>2, <1>3, <2>1, <2>2
<1>4. CASE /\ k > 0 /\ start < Len(plain) /\ took = start + 1
           /\ r.lookahead = Some(plain[start + 1])
  <2>1. PICK x : x = plain[start + 1]
    OBVIOUS
  <2>2. r.lookahead # None /\ (CHOOSE b \in r.lookahead : TRUE) = x
    BY <1>4, <2>1, ChooseSome
  <2>3. staged_lookahead(r) = <<x>>
    BY <2>2 DEF staged_lookahead
  <2>4. x \in Nat
    BY <1>1, <1>2, <1>4, <2>1, ElementOfSeq
  <2>5. PICK s : s = Slice(plain, start, 1)
    OBVIOUS
  <2>6. s \in Seq(Nat) /\ Len(s) = 1 /\ s[1] = plain[start + 1]
    <3>1. PICK n \in Nat : n = 1
      OBVIOUS
    <3>2. start + n <= Len(plain)
      BY <1>1, <1>2, <1>4, <3>1
    <3>3. PICK u : u = Slice(plain, start, n)
      OBVIOUS
    <3>4. u \in Seq(Nat) /\ Len(u) = n /\ \A i \in 1 .. n : u[i] = plain[start + i]
      BY <3>2, <3>3, SliceOf, SMTT(30)
    <3>5. 1 \in 1 .. n
      BY <3>1
    <3>6. u[1] = plain[start + 1]
      BY <3>4, <3>5
    <3> QED BY <2>5, <3>1, <3>3, <3>4, <3>6
  <2>7. s[1] = x
    BY <2>1, <2>6
  <2>8. s = <<x>>
    BY <2>4, <2>6, <2>7, SeqEqual
  <2> QED BY <1>1, <1>2, <1>4, <2>3, <2>5, <2>8
<1> QED BY <1>1, <1>3, <1>4 DEF Ahead

(* What fill_plaintext leaves for segment k: the byte it read ahead, if    *)
(* any, and whether the segment is the last.                               *)
NextIs(f, a, k) ==
    /\ StartOf(k) <= Len(plain) /\ (k > 0 => StartOf(k) < Len(plain))
    /\ \/ IsLast(k) /\ f.is_final /\ f.taken = Len(plain)
       \/ ~IsLast(k) /\ ~f.is_final /\ Ahead(a, f.taken, k + 1)

(* Only the buffer and the lookahead change; success stages the segment. *)
Fills(f, r, k) ==
    \E b, a : /\ f.reader = Reader(r.encryptor, r.header_position, b, r.ciphertext_position,
                                   r.ciphertext_length, a, r.status)
              /\ IsBuffer(b) /\ b.parameters = SegmentLength
              /\ ~f.ok \/ /\ b.payload = Slice(plain, StartOf(k), PayloadLength(k))
                          /\ NextIs(f, a, k)

(* truncate_plaintext shortens the payload. *)
LEMMA Truncation ==
    ASSUME NEW p, NEW state, NEW payload, NEW segment, NEW n
    PROVE  truncate_plaintext(Buffer(p, state, payload, segment), n)
             = Buffer(p, state, SubSeq(payload, 1, n), segment)
<1>1. PICK x : x = SubSeq(payload, 1, n)
  OBVIOUS
<1>2. PICK b : b = Buffer(p, state, payload, segment)
  OBVIOUS
<1>3. b.payload = payload
  BY <1>2 DEF Buffer
<1>4. truncate_plaintext(b, n) = [b EXCEPT !.payload = x]
  BY <1>1, <1>3 DEF truncate_plaintext
<1>5. [b EXCEPT !.payload = x] = Buffer(p, state, x, segment)
  BY <1>2 DEF Buffer
<1> QED BY <1>1, <1>2, <1>4, <1>5

(* The end of fill_plaintext, by what the two reads returned. *)
Filled(f, r, bytes, rest, next) ==
    \E b, a :
        /\ f.reader = Reader(r.encryptor, r.header_position, b, r.ciphertext_position,
                             r.ciphertext_length, a, r.status)
        /\ IsBuffer(b) /\ b.parameters = SegmentLength
        /\ f.ok <=> rest.ok /\ next.ok
        /\ f.ok => /\ b.payload = bytes /\ f.taken = taken + rest.got + next.got
                   /\ f.is_final = is_last(Len(bytes), next)
                   /\ a = IF next.got = 0 THEN None ELSE Some(plain[taken + rest.got + 1])

LEMMA AfterFilling ==
    ASSUME NEW r, IsReader(r), IsBuffer(r.buffer), r.buffer.parameters = SegmentLength,
           NEW bytes \in Seq(Nat), Len(bytes) <= capacity, NEW rest, NEW next, NEW f,
           f = after_filling(r, prepare_plaintext(r.buffer, filled(bytes)), bytes, rest, next)
    PROVE  Filled(f, r, bytes, rest, next)
<1>1. PICK e, h, c, p, l, a, status : r = Reader(e, h, c, p, l, a, status)
  BY DEF IsReader
<1>2. /\ r.encryptor = e /\ r.header_position = h /\ r.buffer = c
      /\ r.ciphertext_position = p /\ r.ciphertext_length = l /\ r.lookahead = a
      /\ r.status = status
  BY <1>1, ReaderFields
<1>3. PICK x, n : x = filled(bytes) /\ n = Len(bytes)
  OBVIOUS
<1>4. PICK b : b = prepare_plaintext(c, x)
  OBVIOUS
<1>5. b = Buffer(SegmentLength, "Plaintext", x, None)
  BY <1>2, <1>4, BufferOperations
<1>6. PICK d : d = truncate_plaintext(b, n)
  OBVIOUS
<1>7. d = Buffer(SegmentLength, "Plaintext", SubSeq(x, 1, n), None)
  BY <1>5, <1>6, Truncation
<1>8. SubSeq(x, 1, n) = bytes
  BY <1>3, TruncatedFill
<1>9. /\ IsBuffer(b) /\ b.parameters = SegmentLength
      /\ IsBuffer(d) /\ d.parameters = SegmentLength /\ d.payload = bytes
  <2>1. d = Buffer(SegmentLength, "Plaintext", bytes, None)
    BY <1>7, <1>8
  <2>2. IsBuffer(d) /\ d.parameters = SegmentLength /\ d.payload = bytes
    BY <2>1, BufferFields
  <2>3. IsBuffer(b) /\ b.parameters = SegmentLength
    BY <1>5, BufferFields
  <2> QED BY <2>2, <2>3
<1>10. PICK a2 : a2 = IF next.got = 0 THEN None ELSE Some(plain[taken + rest.got + 1])
  OBVIOUS
<1>11. f = IF rest.ok /\ next.ok
           THEN [ok |-> TRUE, taken |-> taken + rest.got + next.got,
                 is_final |-> is_last(n, next),
                 reader |-> SetLookahead(SetBuffer(r, d), a2)]
           ELSE [ok |-> FALSE, taken |-> taken + rest.got + next.got, is_final |-> FALSE,
                 reader |-> SetLookahead(SetBuffer(r, b), None)]
  BY <1>2, <1>3, <1>4, <1>6, <1>10 DEF after_filling, SetLookahead, SetBuffer
<1>12. SetLookahead(SetBuffer(r, d), a2) = Reader(e, h, d, p, l, a2, status)
  BY <1>1, ReaderUpdates
<1>13. SetLookahead(SetBuffer(r, b), None) = Reader(e, h, b, p, l, None, status)
  BY <1>1, ReaderUpdates
<1>14. CASE rest.ok /\ next.ok
  <2>1. f = [ok |-> TRUE, taken |-> taken + rest.got + next.got,
             is_final |-> is_last(n, next), reader |-> Reader(e, h, d, p, l, a2, status)]
    BY <1>11, <1>12, <1>14
  <2>2. /\ f.ok /\ f.taken = taken + rest.got + next.got /\ f.is_final = is_last(n, next)
        /\ f.reader = Reader(e, h, d, p, l, a2, status)
    BY <2>1
  <2> QED BY <1>2, <1>3, <1>9, <1>10, <1>14, <2>2 DEF Filled
<1>15. CASE ~(rest.ok /\ next.ok)
  <2>1. f = [ok |-> FALSE, taken |-> taken + rest.got + next.got,
             is_final |-> FALSE, reader |-> Reader(e, h, b, p, l, None, status)]
    BY <1>11, <1>13, <1>15
  <2>2. ~f.ok /\ f.reader = Reader(e, h, b, p, l, None, status)
    BY <2>1
  <2> QED BY <1>2, <1>9, <1>15, <2>2 DEF Filled
<1> QED BY <1>14, <1>15

(* What the two reads of fill_plaintext obtain, by their arithmetic: the   *)
(* segment starts at `start`, a of its bytes are staged, the first read    *)
(* adds g and the second, behind a full segment, obtains h.                *)
Obtains(n, start, a, g, h) ==
    /\ a + g = least(capacity, n - start)
    /\ IF a + g < capacity \/ h = 0
       THEN start + capacity >= n /\ start + a + g + h = n
       ELSE start + capacity < n /\ a + g = capacity /\ h = 1

LEMMA FillArithmetic ==
    ASSUME NEW n \in Nat, NEW start \in Nat, NEW a \in 0 .. 1,
           start + a <= n, NEW g \in Nat, NEW h \in Nat,
           g = least(capacity - a, n - (start + a)),
           a + g = capacity => h = least(1, n - (start + a + g)),
           a + g # capacity => h = 0
    PROVE  Obtains(n, start, a, g, h)
<1>1. PICK c \in Nat \ {0} : c = capacity
  BY Lengths
<1>2. CASE c - a < n - (start + a)
  <2>1. g = c - a
    BY <1>1, <1>2 DEF least
  <2>2. a + g = c /\ c < n - start /\ start + a + g < n
    BY <1>2, <2>1
  <2>3. h = least(1, n - (start + a + g))
    BY <1>1, <2>2
  <2>4. h = 1
    BY <2>2, <2>3 DEF least
  <2> QED BY <1>1, <2>2, <2>4 DEF Obtains, least
<1>3. CASE c - a >= n - (start + a)
  <2>1. g = n - (start + a)
    BY <1>1, <1>3 DEF least
  <2>2. a + g = n - start /\ a + g <= c /\ start + a + g = n
    BY <1>3, <2>1
  <2>3. h = 0
    <3>1. CASE a + g = c
      <4>1. h = least(1, n - (start + a + g)) /\ n - (start + a + g) = 0
        BY <1>1, <2>2, <3>1
      <4> QED BY <4>1 DEF least
    <3> QED BY <1>1, <3>1
  <2>4. least(c, n - start) = n - start
    BY <2>2 DEF least
  <2> QED BY <1>1, <2>2, <2>3, <2>4 DEF Obtains
<1> QED BY <1>2, <1>3

(* fill_plaintext of a reader that has sealed k segments. *)
LEMMA FillStages ==
    ASSUME plain \in Seq(Nat), NEW r, GoodFields(r), NEW k \in Nat,
           Ahead(r.lookahead, taken, k), NEW budget \in Nat, NEW f,
           f = fill_plaintext(r, budget)
    PROVE  Fills(f, r, k)
<1>1. PICK start \in Nat : start = StartOf(k)
  BY Lengths DEF StartOf
<1>2. PICK a \in 0 .. 1 : /\ staged_lookahead(r) = Slice(plain, start, a)
                          /\ taken = start + a /\ taken <= Len(plain)
  BY <1>1, StagedLookahead
<1>3. PICK ahead : ahead = staged_lookahead(r)
  OBVIOUS
<1>4. Len(plain) \in Nat /\ capacity \in Nat \ {0} /\ taken \in 0 .. Len(plain)
  BY <1>1, <1>2, PlainLength, Lengths
<1>5. Len(ahead) = a
  <2>1. a \in Nat /\ start + a <= Len(plain)
    BY <1>1, <1>2, <1>4
  <2>2. Len(Slice(plain, start, a)) = a
    BY <2>1, SliceOf, ZenonT(60)
  <2> QED BY <1>2, <1>3, <2>2, Zenon
<1>6. PICK required \in Nat : required = capacity - a
  BY <1>2, <1>4
<1>7. PICK rest : rest = read_fully(plain, taken, required, budget)
  OBVIOUS
<1>8. /\ rest.got \in Nat /\ rest.got <= required /\ taken + rest.got <= Len(plain)
      /\ rest.got <= budget
      /\ rest.ok => rest.got = least(required, Len(plain) - taken)
  BY <1>4, <1>7, ReadFullyResult, SMTT(30)
<1>9. PICK g \in Nat, place \in 0 .. Len(plain), left \in Nat :
        g = rest.got /\ place = taken + g /\ left = budget - g
  BY <1>4, <1>8
<1>10. PICK bytes : bytes = ahead \o Slice(plain, taken, g)
  OBVIOUS
<1>11. bytes = Slice(plain, start, a + g)
  <2>1. a \in Nat /\ start + a + g <= Len(plain)
    BY <1>2, <1>8, <1>9
  <2>2. Slice(plain, start, a) \o Slice(plain, start + a, g) = Slice(plain, start, a + g)
    BY <2>1, SliceJoin, SMTT(30)
  <2> QED BY <1>2, <1>3, <1>10, <2>2
<1>12. bytes \in Seq(Nat) /\ Len(bytes) = a + g /\ a + g <= capacity
  <2>1. PICK m \in Nat : m = a + g
    OBVIOUS
  <2>2. start + m <= Len(plain)
    BY <1>2, <1>8, <1>9, <2>1, SMTT(30)
  <2>3. Slice(plain, start, m) \in Seq(Nat) /\ Len(Slice(plain, start, m)) = m
    BY <2>2, SliceOf
  <2>4. bytes = Slice(plain, start, m)
    BY <1>11, <2>1
  <2>5. a + g <= capacity
    BY <1>2, <1>4, <1>6, <1>8, <1>9
  <2> QED BY <2>1, <2>3, <2>4, <2>5, Zenon
<1>13. PICK next : next = IF Len(bytes) = capacity THEN read_fully(plain, place, 1, left)
                          ELSE [ok |-> TRUE, got |-> 0]
  OBVIOUS
<1>14. f = after_filling(r, prepare_plaintext(r.buffer, filled(bytes)), bytes, rest, next)
  BY <1>3, <1>5, <1>6, <1>7, <1>9, <1>10, <1>13 DEF fill_plaintext, look_ahead
<1>15. IsReader(r) /\ IsBuffer(r.buffer) /\ r.buffer.parameters = SegmentLength
  BY DEF GoodFields
<1>16. PICK b, x :
          /\ f.reader = Reader(r.encryptor, r.header_position, b, r.ciphertext_position,
                               r.ciphertext_length, x, r.status)
          /\ IsBuffer(b) /\ b.parameters = SegmentLength
          /\ f.ok <=> rest.ok /\ next.ok
          /\ f.ok => /\ b.payload = bytes /\ f.taken = taken + rest.got + next.got
                     /\ f.is_final = is_last(Len(bytes), next)
                     /\ x = IF next.got = 0 THEN None ELSE Some(plain[taken + rest.got + 1])
  <2>1. Len(bytes) <= capacity
    BY <1>12
  <2>2. Filled(f, r, bytes, rest, next)
    BY <1>12, <1>14, <1>15, <2>1, AfterFilling
  <2> QED BY <2>2 DEF Filled
<1>17. ASSUME a + g # capacity PROVE next.got = 0
  BY <1>12, <1>13, <1>17
<1>18. ASSUME a + g = capacity
       PROVE  next.got \in Nat /\ (next.ok => next.got = least(1, Len(plain) - place))
  <2>1. PICK one \in Nat : one = 1
    OBVIOUS
  <2>2. next = read_fully(plain, place, one, left)
    BY <1>12, <1>13, <1>18, <2>1
  <2>3. next.got \in Nat /\ (next.ok => next.got = least(one, Len(plain) - place))
    <3>1. Len(plain) \in Nat /\ left \in Int /\ left >= 0
      BY <1>4
    <3> QED BY <2>2, <3>1, ReadFullyResult
  <2> QED BY <2>1, <2>3
<1>19. ASSUME f.ok
       PROVE  b.payload = Slice(plain, StartOf(k), PayloadLength(k)) /\ NextIs(f, x, k)
  <2>1. PICK h \in Nat : h = next.got /\ (a + g = capacity => h = least(1, Len(plain) - place))
                         /\ (a + g # capacity => h = 0)
    BY <1>16, <1>17, <1>18, <1>19
  <2>2. Obtains(Len(plain), start, a, g, h)
    <3>1. g = least(capacity - a, Len(plain) - (start + a)) /\ place = start + a + g
      BY <1>2, <1>6, <1>8, <1>9, <1>16, <1>19
    <3> QED BY <1>2, <1>4, <2>1, <3>1, FillArithmetic
  <2>3. b.payload = Slice(plain, StartOf(k), PayloadLength(k))
    BY <1>1, <1>11, <1>16, <1>19, <2>2 DEF Obtains, PayloadLength
  <2>4. /\ f.taken = start + a + g + h
        /\ x = IF h = 0 THEN None ELSE Some(plain[start + a + g + 1])
        /\ f.is_final <=> (a + g < capacity \/ h = 0)
    BY <1>2, <1>9, <1>12, <1>16, <1>19, <2>1 DEF is_last
  <2>5. StartOf(k) <= Len(plain) /\ (k > 0 => StartOf(k) < Len(plain))
    BY <1>1, <1>2, <1>4 DEF Ahead
  <2>6. CASE a + g < capacity \/ h = 0
    <3>1. IsLast(k) /\ f.is_final /\ f.taken = Len(plain)
      BY <1>1, <2>2, <2>4, <2>6 DEF Obtains, IsLast
    <3> QED BY <2>3, <2>5, <3>1 DEF NextIs
  <2>7. CASE ~(a + g < capacity \/ h = 0)
    <3>1. start + capacity < Len(plain) /\ a + g = capacity /\ h = 1
      BY <2>2, <2>7 DEF Obtains
    <3>2. PICK end \in Nat : end = start + capacity
      BY <1>4
    <3>3. f.taken = end + 1 /\ x = Some(plain[end + 1]) /\ end < Len(plain)
      BY <1>4, <2>4, <3>1, <3>2
    <3>4. StartOf(k + 1) = end /\ k + 1 > 0
      BY <1>1, <1>4, <3>2 DEF StartOf
    <3>5. Ahead(x, f.taken, k + 1)
      BY <3>3, <3>4 DEF Ahead
    <3>6. ~IsLast(k)
      BY <1>1, <1>4, <3>1 DEF IsLast
    <3> QED BY <2>3, <2>4, <2>5, <2>7, <3>5, <3>6 DEF NextIs
  <2> QED BY <2>6, <2>7
<1> QED BY <1>16, <1>19 DEF Fills

-----------------------------------------------------------------------------
(* Producing a segment. *)

(* What a step of read n leaves: a failed reader and no byte, or a reader  *)
(* whose output goes on with the bytes; no byte only at the end.           *)
Ends(st, output, n) ==
    \/ ~st.ok /\ st.bytes = <<>> /\ st.reader.status = "Failed"
    \/ /\ st.ok
       /\ GoodOutput(output \o st.bytes) /\ GoodReader(st.reader, output \o st.bytes, st.taken)
       /\ n > 0 /\ st.bytes = <<>> => st.reader.status = "Finished" /\ Pending(st.reader) = 0

(* What the reader is that has just sealed segment k. *)
HasSealed(v, took, k) ==
    /\ StartOf(k) <= Len(plain) /\ (k > 0 => StartOf(k) < Len(plain))
    /\ \/ /\ v.status = "Finished" /\ IsLast(k) /\ took = Len(plain) /\ k < AEAD_MAX_SEGMENTS
       \/ /\ v.status = "Open" /\ ~IsLast(k) /\ Ahead(v.lookahead, took, k + 1)
          /\ \E state : v.encryptor = Some(EncryptorAt(state, k + 1))

(* The reader that has sealed segment k is good, whether its bytes are     *)
(* already in the output or pending in the buffer.                         *)
LEMMA SealedIsGood ==
    ASSUME plain \in Seq(Nat), NEW v, GoodFields(v), v.header_position = HEADER_LENGTH,
           NEW output, Len(output) \in Nat, NEW took, NEW k \in Nat, HasSealed(v, took, k),
           NEW s, MessageSegment(s, k),
           Len(output) + Pending(v) = HEADER_LENGTH + k * SegmentLength + s.length,
           Pending(v) > 0 => Loaded(v, output, k)
    PROVE  GoodReader(v, output, took)
<1>1. PICK start \in Nat, base \in Nat : start = StartOf(k) /\ base = k * SegmentLength
  BY Lengths DEF StartOf
<1>2. PICK n \in Nat : n = Len(plain)
  BY PlainLength
<1>3. s.length = SEGMENT_OVERHEAD + least(capacity, n - start) /\ start <= n
  BY <1>1, <1>2, SegmentFields DEF StartOf, MessageSegment
<1>4. CASE /\ v.status = "Finished" /\ IsLast(k) /\ took = Len(plain) /\ k < AEAD_MAX_SEGMENTS
  <2>1. start + capacity >= n
    BY <1>1, <1>2, <1>4 DEF IsLast
  <2>2. least(capacity, n - start) = n - start
    BY <1>3, <2>1, Lengths DEF least
  <2>3. Len(output) + Pending(v)
          = HEADER_LENGTH + k * SegmentLength + SEGMENT_OVERHEAD + (Len(plain) - StartOf(k))
    BY <1>1, <1>2, <1>3, <2>2, Lengths
  <2>4. FinishedReader(v, output, took, k)
    BY <1>4, <2>3 DEF FinishedReader, HasSealed
  <2> QED BY <1>4, <2>4 DEF GoodReader
<1>5. CASE /\ v.status = "Open" /\ ~IsLast(k) /\ Ahead(v.lookahead, took, k + 1)
           /\ \E state : v.encryptor = Some(EncryptorAt(state, k + 1))
  <2>1. start + capacity < n
    BY <1>1, <1>2, <1>5, Lengths DEF IsLast
  <2>2. s.length = SegmentLength
    BY <1>3, <2>1, Lengths DEF least
  <2>3. (k + 1) * SegmentLength = base + SegmentLength
    BY <1>1, Lengths
  <2>4. Len(output) + Pending(v) = v.header_position + (k + 1) * SegmentLength
    BY <1>1, <2>2, <2>3, Lengths
  <2>5. PICK m \in Nat : m = k + 1
    OBVIOUS
  <2>6. m - 1 = k /\ m > 0 /\ m # 0 /\ v.header_position \in 0 .. HEADER_LENGTH
    BY <2>5, Lengths
  <2>7. OpenReader(v, output, took, m)
    BY <1>5, <2>4, <2>5, <2>6 DEF OpenReader
  <2> QED BY <1>5, <2>7 DEF GoodReader
<1> QED BY <1>4, <1>5 DEF HasSealed

(* A failed step is poisoned. *)
LEMMA FailedEnds ==
    ASSUME NEW r, IsReader(r), NEW took, NEW output, NEW n
    PROVE  Ends(poisoned(Produced(r, took, FALSE, <<>>)), output, n)
<1>1. PICK e, h, b, p, l, a, status : r = Reader(e, h, b, p, l, a, status)
  BY DEF IsReader
<1>2. PICK v : v = Reader(e, h, b, p, l, a, "Failed")
  OBVIOUS
<1>3. [r EXCEPT !.status = "Failed"] = v
  <2>1. SetStatus(r, "Failed") = v
    BY <1>1, <1>2, ReaderUpdates
  <2> QED BY <2>1 DEF SetStatus
<1>4. PICK st : st = Produced(r, took, FALSE, <<>>)
  OBVIOUS
<1>5. ~st.ok /\ st.reader = r
  BY <1>4 DEF Produced
<1>6. poisoned(st) = [st EXCEPT !.reader = v]
  BY <1>3, <1>5 DEF poisoned
<1>7. PICK x : x = [st EXCEPT !.reader = v]
  OBVIOUS
<1>8. ~x.ok /\ x.bytes = <<>> /\ x.reader = v
  BY <1>4, <1>7 DEF Produced
<1>9. v.status = "Failed"
  BY <1>2, ReaderFields
<1> QED BY <1>4, <1>6, <1>7, <1>8, <1>9 DEF Ends

(* All of a sequence, as a slice. *)
LEMMA WholeSlice ==
    ASSUME NEW S, NEW all \in Seq(S)
    PROVE  Slice(all, 0, Len(all)) = all
<1>1. Len(all) \in Nat
  BY LenProperties
<1>2. SubSeq(all, 1, Len(all)) = all
  BY SubSeqFull
<1> QED BY <1>1, <1>2 DEF Slice

(* All of a segment, as a slice of its bytes. *)
LEMMA WholeSegment ==
    ASSUME NEW s, s.length \in Nat
    PROVE  Slice(segment_bytes(s), 0, s.length) = segment_bytes(s)
<1>1. PICK length \in Nat, all \in {bytes_of(s, s.length)} : length = s.length
  OBVIOUS
<1>2. PICK S : S = {[item |-> s, at |-> k, of |-> length] : k \in 1 .. length}
  OBVIOUS
<1>3. all \in [1 .. length -> S]
  BY <1>1, <1>2 DEF bytes_of
<1>4. all \in Seq(S) /\ Len(all) = length
  BY <1>3, SeqDef, LenProperties
<1>5. Slice(all, 0, Len(all)) = all
  BY <1>4, WholeSlice
<1> QED BY <1>1, <1>4, <1>5 DEF segment_bytes

(* A reader past its header, with k segments sealed and all their bytes    *)
(* returned, that fills the buffer for the next.                           *)
Refilled(r, output, f, k) ==
    /\ r.status = "Open" /\ GoodFields(r) /\ Pending(r) = 0
    /\ r.header_position = HEADER_LENGTH
    /\ Len(output) = HEADER_LENGTH + k * SegmentLength
    /\ \E state : r.encryptor = Some(EncryptorAt(state, k))
    /\ Fills(f, r, k)

(* The segment that either call of the encryptor returns is the message's. *)
LEMMA SealsTheMessage ==
    ASSUME NEW f, f.ok, NEW a, NEW k \in Nat, NextIs(f, a, k), NEW s,
           SegmentNumber(s, k, IF f.is_final THEN "Final" ELSE "NonFinal",
                         Slice(plain, StartOf(k), PayloadLength(k)))
    PROVE  MessageSegment(s, k)
<1>1. (IF f.is_final THEN "Final" ELSE "NonFinal") = KindOf(k)
  BY DEF NextIs, KindOf
<1> QED BY <1>1 DEF MessageSegment, NextIs

(* emit_segment_direct: the segment's bytes join the output, or the reader *)
(* has failed.                                                             *)
LEMMA DirectEnds ==
    ASSUME plain \in Seq(Nat), NEW output, GoodOutput(output), NEW r, NEW f, NEW k \in Nat,
           Refilled(r, output, f, k), NEW fault, NEW n
    PROVE  Ends(emit_segment_direct(r, f, fault), output, n)
<1>1. PICK state : r.encryptor = Some(EncryptorAt(state, k))
  BY DEF Refilled
<1>2. PICK e : e = EncryptorAt(state, k)
  OBVIOUS
<1>3. r.encryptor # None /\ the(r.encryptor) = e
  BY <1>1, <1>2, ChooseSome DEF the
<1>4. PICK b, a : /\ f.reader = Reader(r.encryptor, HEADER_LENGTH, b, r.ciphertext_position,
                                       r.ciphertext_length, a, "Open")
                  /\ IsBuffer(b) /\ b.parameters = SegmentLength
                  /\ ~f.ok \/ /\ b.payload = Slice(plain, StartOf(k), PayloadLength(k))
                              /\ NextIs(f, a, k)
  BY DEF Refilled, Fills
<1>5. IsReader(f.reader) /\ f.reader.buffer = b
  BY <1>4, ReaderFields
<1>6. PICK bytes, p, l : bytes = b.payload /\ p = r.ciphertext_position /\ l = r.ciphertext_length
  OBVIOUS
<1>7. emit_segment_direct(r, f, fault)
        = poisoned(emit_filled(r, e, f, plaintext_of(bytes), fault))
  BY <1>3, <1>5, <1>6 DEF emit_segment_direct
<1>8. CASE ~f.ok
  <2>1. emit_filled(r, e, f, plaintext_of(bytes), fault) = Produced(f.reader, f.taken, FALSE, <<>>)
    BY <1>8 DEF emit_filled
  <2> QED BY <1>5, <1>7, <2>1, FailedEnds
<1>9. CASE f.ok
  <2>1. PICK q : q = IF f.is_final
                     THEN encrypt_final(e, context, plaintext_of(bytes), TRUE, fault, next_batch(e))
                     ELSE encrypt_non_final(e, context, plaintext_of(bytes), TRUE, fault, next_batch(e))
    OBVIOUS
  <2>2. emit_filled(r, e, f, plaintext_of(bytes), fault) = after_emitting(f, q)
    BY <1>3, <1>9, <2>1 DEF emit_filled
  <2>3. PICK x : x = IF f.is_final THEN None ELSE q.encryptor
    OBVIOUS
  <2>4. with_encryptor(f, q.encryptor) = Reader(x, HEADER_LENGTH, b, p, l, a, "Open")
    <3>1. SetEncryptor(f.reader, x) = Reader(x, HEADER_LENGTH, b, p, l, a, "Open")
      BY <1>4, <1>6, ReaderUpdates
    <3> QED BY <2>3, <3>1 DEF with_encryptor, SetEncryptor
  <2>5. PICK w : w = with_encryptor(f, q.encryptor)
    OBVIOUS
  <2>6. CASE q.segment = None
    <3>1. after_emitting(f, q) = Produced(w, f.taken, FALSE, <<>>)
      BY <2>5, <2>6 DEF after_emitting
    <3>2. IsReader(w)
      BY <2>4, <2>5, ReaderFields
    <3> QED BY <1>7, <2>2, <3>1, <3>2, FailedEnds
  <2>7. CASE q.segment # None
    <3>1. PICK s : /\ q.segment = Some(s)
                   /\ SegmentNumber(s, k, IF f.is_final THEN "Final" ELSE "NonFinal", bytes)
                   /\ IF f.is_final THEN k < AEAD_MAX_SEGMENTS
                      ELSE \E state2 : q.encryptor = Some(EncryptorAt(state2, k + 1))
      <4>1. CASE f.is_final
        <5>1. q = encrypt_final(e, context, plaintext_of(bytes), TRUE, fault, next_batch(e))
          BY <2>1, <4>1
        <5>2. Closed(q, k, bytes)
          BY <1>2, <5>1, FinalCloses
        <5> QED BY <2>7, <4>1, <5>2 DEF Closed
      <4>2. CASE ~f.is_final
        <5>1. q = encrypt_non_final(e, context, plaintext_of(bytes), TRUE, fault, next_batch(e))
          BY <2>1, <4>2
        <5>2. Advanced(q, context, k, bytes)
          BY <1>2, <5>1, NonFinalAdvances
        <5> QED BY <2>7, <4>2, <5>2 DEF Advanced
      <4> QED BY <4>1, <4>2
    <3>2. NextIs(f, a, k) /\ bytes = Slice(plain, StartOf(k), PayloadLength(k))
      BY <1>4, <1>6, <1>9
    <3>3. MessageSegment(s, k)
      BY <1>9, <3>1, <3>2, SealsTheMessage
    <3>4. the(q.segment) = s
      BY <3>1, ChooseSome DEF the
    <3>5. PICK v, status : v = [w EXCEPT !.status = status] /\ status = sealed_status(f)
      OBVIOUS
    <3>6. after_emitting(f, q) = Produced(v, f.taken, TRUE, segment_bytes(s))
      BY <2>5, <2>7, <3>4, <3>5 DEF after_emitting
    <3>7. v = Reader(x, HEADER_LENGTH, b, p, l, a, status)
      <4>1. SetStatus(w, status) = Reader(x, HEADER_LENGTH, b, p, l, a, status)
        BY <2>4, <2>5, ReaderUpdates
      <4> QED BY <3>5, <4>1 DEF SetStatus
    <3>8. status = IF f.is_final THEN "Finished" ELSE "Open"
      <4>1. f.reader.status = "Open"
        BY <1>4, ReaderFields
      <4> QED BY <3>5, <4>1 DEF sealed_status
    <3>9. PICK st : st = Produced(v, f.taken, TRUE, segment_bytes(s))
      OBVIOUS
    <3>10. /\ st.ok /\ st.reader = v /\ st.taken = f.taken /\ st.bytes = segment_bytes(s)
           /\ poisoned(st) = st
      BY <3>9 DEF Produced, poisoned
    <3>11. emit_segment_direct(r, f, fault) = st
      BY <1>7, <2>2, <3>6, <3>9, <3>10
    <3>12. GoodFields(v) /\ v.header_position = HEADER_LENGTH /\ Pending(v) = 0
      <4>1. /\ IsReader(v) /\ v.header_position = HEADER_LENGTH /\ v.buffer = b
            /\ v.ciphertext_position = p /\ v.ciphertext_length = l
        BY <3>7, ReaderFields
      <4> QED BY <1>4, <1>6, <4>1 DEF GoodFields, Pending, Refilled
    <3>13. HasSealed(v, f.taken, k)
      <4>1. v.status = status /\ v.encryptor = x /\ v.lookahead = a
        BY <3>7, ReaderFields
      <4>2. CASE f.is_final
        BY <3>1, <3>2, <3>8, <4>1, <4>2 DEF NextIs, HasSealed
      <4>3. CASE ~f.is_final
        BY <2>3, <3>1, <3>2, <3>8, <4>1, <4>3 DEF NextIs, HasSealed
      <4> QED BY <4>2, <4>3
    <3>14. PICK out, more : out = output \o segment_bytes(s) /\ more = segment_bytes(s)
      OBVIOUS
    <3>15. /\ GoodOutput(out) /\ IsSeq(more) /\ Len(more) = s.length
           /\ Len(out) = HEADER_LENGTH + k * SegmentLength + s.length
           /\ s.length \in Nat \ {0}
      <4>1. PICK c \in Nat, m \in Nat : c = 0 /\ m = s.length
        BY <3>3, SegmentFields
      <4>2. s.length \in Nat \ {0} /\ c + m <= s.length /\ c + m = m
        BY <3>3, <4>1, SegmentFields
      <4>3. StopsIn(output, s, k, c)
        <5>1. k * SegmentLength \in Nat /\ HEADER_LENGTH \in Nat
          BY Lengths
        <5> QED BY <4>1, <5>1 DEF StopsIn, Refilled
      <4>4. PICK part : part = Slice(segment_bytes(s), c, m)
        OBVIOUS
      <4>5. /\ GoodOutput(output \o part) /\ IsSeq(part) /\ Len(part) = m
            /\ StopsIn(output \o part, s, k, c + m)
        BY <3>3, <4>2, <4>3, <4>4, SegmentExtends
      <4>6. part = more
        BY <3>14, <4>1, <4>2, <4>4, WholeSegment
      <4> QED BY <3>14, <4>1, <4>2, <4>5, <4>6 DEF StopsIn
    <3>16. Len(out) \in Nat
      BY <3>15, OutputLength DEF GoodOutput
    <3>17. Len(out) + Pending(v) = HEADER_LENGTH + k * SegmentLength + s.length
           /\ ~(Pending(v) > 0)
      BY <3>12, <3>15, <3>16
    <3>18. GoodReader(v, out, f.taken)
      BY <3>3, <3>12, <3>13, <3>16, <3>17, SealedIsGood
    <3>19. more # <<>>
      <4>1. Len(<<>>) = 0
        OBVIOUS
      <4> QED BY <3>15, <4>1
    <3> QED BY <3>10, <3>11, <3>14, <3>15, <3>18, <3>19 DEF Ends
  <2> QED BY <2>6, <2>7
<1> QED BY <1>8, <1>9

(* load_segment leaves a loaded reader, or a failed one. *)
Loads(st, output) ==
    \/ ~st.ok /\ st.bytes = <<>> /\ st.reader.status = "Failed"
    \/ /\ st.ok /\ st = Produced(st.reader, st.taken, TRUE, <<>>)
       /\ st.reader.status # "Failed" /\ Pending(st.reader) > 0
       /\ GoodReader(st.reader, output, st.taken)

LEMMA FailedLoads ==
    ASSUME NEW r, IsReader(r), NEW took, NEW output
    PROVE  Loads(poisoned(Produced(r, took, FALSE, <<>>)), output)
<1>1. PICK st : st = poisoned(Produced(r, took, FALSE, <<>>))
  OBVIOUS
<1>2. PICK one : one = 1
  OBVIOUS
<1>3. Ends(st, output, one)
  BY <1>1, FailedEnds
<1>4. ~st.ok
  <2>1. PICK x : x = Produced(r, took, FALSE, <<>>)
    OBVIOUS
  <2>2. ~x.ok
    BY <2>1 DEF Produced
  <2>3. st = [x EXCEPT !.reader.status = "Failed"]
    BY <1>1, <2>1, <2>2 DEF poisoned
  <2> QED BY <2>1, <2>3 DEF Produced
<1> QED BY <1>1, <1>3, <1>4 DEF Ends, Loads

LEMMA LoadEnds ==
    ASSUME plain \in Seq(Nat), NEW output, GoodOutput(output), NEW r, NEW f, NEW k \in Nat,
           Refilled(r, output, f, k), NEW fault
    PROVE  Loads(load_segment(r, f, fault), output)
<1>1. PICK state : r.encryptor = Some(EncryptorAt(state, k))
  BY DEF Refilled
<1>2. PICK e : e = EncryptorAt(state, k)
  OBVIOUS
<1>3. r.encryptor # None /\ the(r.encryptor) = e
  BY <1>1, <1>2, ChooseSome DEF the
<1>4. PICK b, a : /\ f.reader = Reader(r.encryptor, HEADER_LENGTH, b, r.ciphertext_position,
                                       r.ciphertext_length, a, "Open")
                  /\ IsBuffer(b) /\ b.parameters = SegmentLength
                  /\ ~f.ok \/ /\ b.payload = Slice(plain, StartOf(k), PayloadLength(k))
                              /\ NextIs(f, a, k)
  BY DEF Refilled, Fills
<1>5. IsReader(f.reader) /\ f.reader.buffer = b /\ f.reader.status = "Open"
  BY <1>4, ReaderFields
<1>6. PICK p, l : p = r.ciphertext_position /\ l = r.ciphertext_length
  OBVIOUS
<1>7. load_segment(r, f, fault) = poisoned(load_filled(r, e, f, fault))
  BY <1>3 DEF load_segment
<1>8. CASE ~f.ok
  <2>1. load_filled(r, e, f, fault) = Produced(f.reader, f.taken, FALSE, <<>>)
    BY <1>8 DEF load_filled
  <2> QED BY <1>5, <1>7, <2>1, FailedLoads
<1>9. CASE f.ok
  <2>1. PICK q : q = IF f.is_final
                     THEN encrypt_final_in_place(e, context, b, fault, next_batch(e))
                     ELSE encrypt_non_final_in_place(e, context, b, fault, next_batch(e))
    OBVIOUS
  <2>2. load_filled(r, e, f, fault) = after_loading(f, q)
    BY <1>3, <1>5, <1>9, <2>1 DEF load_filled
  <2>3. PICK x, y : x = (IF f.is_final THEN None ELSE q.call.encryptor) /\ y = q.buffer
    OBVIOUS
  <2>4. PICK w : w = SetBuffer(with_encryptor(f, q.call.encryptor), y)
    OBVIOUS
  <2>5. w = Reader(x, HEADER_LENGTH, y, p, l, a, "Open")
    <3>1. SetEncryptor(f.reader, x) = Reader(x, HEADER_LENGTH, b, p, l, a, "Open")
      BY <1>4, <1>6, ReaderUpdates
    <3>2. with_encryptor(f, q.call.encryptor) = SetEncryptor(f.reader, x)
      BY <2>3 DEF with_encryptor, SetEncryptor
    <3> QED BY <2>4, <3>1, <3>2, ReaderUpdates
  <2>6. CASE ~q.ok
    <3>1. PICK v : v = SetPosition(w, 0)
      OBVIOUS
    <3>2. after_loading(f, q) = Produced(v, f.taken, FALSE, <<>>)
      BY <2>3, <2>4, <2>6, <3>1 DEF after_loading, SetBuffer, SetPosition
    <3>3. v = Reader(x, HEADER_LENGTH, y, 0, l, a, "Open")
      BY <2>5, <3>1, ReaderUpdates
    <3>4. IsReader(v)
      BY <3>3, ReaderFields
    <3> QED BY <1>7, <2>2, <3>2, <3>4, FailedLoads
  <2>7. CASE q.ok
    <3>1. PICK s : /\ y = Buffer(SegmentLength, "Ciphertext", <<>>, Some(s))
                   /\ SegmentNumber(s, k, IF f.is_final THEN "Final" ELSE "NonFinal", b.payload)
                   /\ IF f.is_final THEN k < AEAD_MAX_SEGMENTS
                      ELSE \E state2 : q.call.encryptor = Some(EncryptorAt(state2, k + 1))
      <4>1. CASE f.is_final
        <5>1. q = encrypt_final_in_place(e, context, b, fault, next_batch(e))
          BY <2>1, <4>1
        <5>2. ~q.ok \/ ClosedInPlace(q, k, b)
          BY <1>2, <1>4, <5>1, InPlaceCloses
        <5> QED BY <1>4, <2>3, <2>7, <4>1, <5>2 DEF ClosedInPlace
      <4>2. CASE ~f.is_final
        <5>1. q = encrypt_non_final_in_place(e, context, b, fault, next_batch(e))
          BY <2>1, <4>2
        <5>2. ~q.ok \/ AdvancedInPlace(q, k, b)
          BY <1>2, <1>4, <5>1, InPlaceAdvances
        <5> QED BY <1>4, <2>3, <2>7, <4>2, <5>2 DEF AdvancedInPlace
      <4> QED BY <4>1, <4>2
    <3>2. NextIs(f, a, k) /\ b.payload = Slice(plain, StartOf(k), PayloadLength(k))
      BY <1>4, <1>9
    <3>3. MessageSegment(s, k)
      BY <1>9, <3>1, <3>2, SealsTheMessage
    <3>4. the(q.buffer.segment) = s /\ y.segment = Some(s)
          /\ IsBuffer(y) /\ y.parameters = SegmentLength
      <4>1. y.segment = Some(s) /\ IsBuffer(y) /\ y.parameters = SegmentLength
        BY <3>1, BufferFields
      <4>2. (CHOOSE z \in y.segment : TRUE) = s
        BY <4>1, ChooseSome
      <4> QED BY <2>3, <4>1, <4>2 DEF the
    <3>5. PICK length, status : length = s.length /\ status = sealed_status(f)
      OBVIOUS
    <3>6. PICK v : v = SetStatus(SetLength(SetPosition(w, 0), length), status)
      OBVIOUS
    <3>7. after_loading(f, q) = Produced(v, f.taken, TRUE, <<>>)
      BY <2>3, <2>4, <2>7, <3>4, <3>5, <3>6
         DEF after_loading, loaded, SetBuffer, SetPosition, SetLength, SetStatus
    <3>8. v = Reader(x, HEADER_LENGTH, y, 0, length, a, status)
      BY <2>5, <3>6, ReaderUpdates
    <3>9. status = IF f.is_final THEN "Finished" ELSE "Open"
      BY <1>5, <3>5 DEF sealed_status
    <3>10. PICK st : st = Produced(v, f.taken, TRUE, <<>>)
      OBVIOUS
    <3>11. /\ st.ok /\ st.reader = v /\ st.taken = f.taken /\ st.bytes = <<>>
           /\ poisoned(st) = st
      BY <3>10 DEF Produced, poisoned
    <3>12. load_segment(r, f, fault) = st
      BY <1>7, <2>2, <3>7, <3>10, <3>11
    <3>13. length \in Nat \ {0}
      BY <3>3, <3>5, SegmentFields
    <3>14. /\ IsReader(v) /\ v.header_position = HEADER_LENGTH /\ v.buffer = y
           /\ v.ciphertext_position = 0 /\ v.ciphertext_length = length
           /\ v.status = status /\ v.encryptor = x /\ v.lookahead = a
      BY <3>8, ReaderFields
    <3>15. GoodFields(v) /\ Pending(v) = length /\ Pending(v) > 0
      BY <3>4, <3>13, <3>14 DEF GoodFields, Pending
    <3>16. HasSealed(v, f.taken, k)
      <4>1. CASE f.is_final
        BY <3>1, <3>2, <3>9, <3>14, <4>1 DEF NextIs, HasSealed
      <4>2. CASE ~f.is_final
        BY <2>3, <3>1, <3>2, <3>9, <3>14, <4>2 DEF NextIs, HasSealed
      <4> QED BY <4>1, <4>2
    <3>17. Len(output) = HEADER_LENGTH + k * SegmentLength /\ Len(output) \in Nat
      BY OutputLength DEF Refilled, GoodOutput
    <3>18. Loaded(v, output, k)
      <4>1. StopsIn(output, s, k, 0)
        <5>1. k * SegmentLength \in Nat /\ HEADER_LENGTH \in Nat
          BY Lengths
        <5> QED BY <3>17, <5>1 DEF StopsIn
      <4> QED BY <3>3, <3>4, <3>5, <3>14, <4>1 DEF Loaded
    <3>19. GoodReader(v, output, f.taken)
      BY <3>3, <3>5, <3>14, <3>15, <3>16, <3>17, <3>18, SealedIsGood
    <3>20. v.status # "Failed"
      BY <3>9, <3>14
    <3> QED BY <3>10, <3>11, <3>12, <3>15, <3>19, <3>20 DEF Loads
  <2> QED BY <2>6, <2>7
<1> QED BY <1>8, <1>9

(* Copying moves bytes from the buffer to the output and nothing else. *)
LEMMA CopiedIsGood ==
    ASSUME NEW r, NEW output, NEW took, GoodReader(r, output, took), r.status # "Failed",
           NEW k \in Nat, Pending(r) > 0, NEW v, GoodFields(v), NEW out,
           v.encryptor = r.encryptor, v.header_position = r.header_position,
           v.lookahead = r.lookahead, v.status = r.status,
           Len(out) + Pending(v) = Len(output) + Pending(r),
           \A i \in Nat : Loaded(r, output, i) => Loaded(v, out, i)
    PROVE  GoodReader(v, out, took)
<1>1. CASE r.status = "Open"
  <2>1. PICK i \in Nat : OpenReader(r, output, took, i)
    BY <1>1 DEF GoodReader
  <2>2. i # 0 /\ i - 1 \in Nat
    BY <2>1 DEF OpenReader
  <2>3. Loaded(v, out, i - 1)
    BY <2>1, <2>2 DEF OpenReader
  <2>4. OpenReader(v, out, took, i)
    BY <2>1, <2>2, <2>3 DEF OpenReader
  <2> QED BY <1>1, <2>4 DEF GoodReader
<1>2. CASE r.status = "Finished"
  <2>1. PICK i \in Nat : FinishedReader(r, output, took, i)
    BY <1>2 DEF GoodReader
  <2>2. Loaded(v, out, i)
    BY <2>1 DEF FinishedReader
  <2>3. FinishedReader(v, out, took, i)
    BY <2>1, <2>2 DEF FinishedReader
  <2> QED BY <1>2, <2>3 DEF GoodReader
<1> QED BY <1>1, <1>2 DEF GoodReader

(* The segment in a loaded buffer. *)
LEMMA LoadedIn ==
    ASSUME NEW r, NEW output, NEW took, GoodReader(r, output, took), r.status # "Failed",
           Pending(r) > 0
    PROVE  GoodFields(r) /\ \E k \in Nat : Loaded(r, output, k)
<1>1. CASE r.status = "Open"
  <2>1. PICK i \in Nat : OpenReader(r, output, took, i)
    BY <1>1 DEF GoodReader
  <2>2. i # 0 /\ i - 1 \in Nat /\ Loaded(r, output, i - 1)
    BY <2>1 DEF OpenReader
  <2> QED BY <1>1, <2>2 DEF GoodReader
<1>2. CASE r.status = "Finished"
  BY <1>2 DEF GoodReader, FinishedReader
<1> QED BY <1>1, <1>2 DEF GoodReader

(* copy_out: as much of the loaded segment as fits joins the output. *)
LEMMA CopyOutEnds ==
    ASSUME plain \in Seq(Nat), NEW output, GoodOutput(output), NEW r, NEW took,
           GoodReader(r, output, took), r.status # "Failed", Pending(r) > 0,
           NEW n \in Nat \ {0}
    PROVE  Ends(copy_out(Produced(r, took, TRUE, <<>>), n), output, n)
<1>1. PICK e, h, b, c, l, a, status : r = Reader(e, h, b, c, l, a, status)
  BY LoadedIn DEF GoodFields, IsReader
<1>2. /\ r.encryptor = e /\ r.header_position = h /\ r.buffer = b
      /\ r.ciphertext_position = c /\ r.ciphertext_length = l /\ r.lookahead = a
      /\ r.status = status
  BY <1>1, ReaderFields
<1>3. /\ GoodFields(r) /\ c \in Nat /\ l \in Nat /\ c < l
  BY <1>2, LoadedIn DEF GoodFields, Pending
<1>4. PICK k \in Nat : Loaded(r, output, k)
  BY LoadedIn
<1>5. PICK s : b.segment = Some(s) /\ MessageSegment(s, k) /\ l = s.length /\ StopsIn(output, s, k, c)
  BY <1>2, <1>4 DEF Loaded
<1>6. PICK m \in Nat : m = least(n, l - c) /\ m > 0 /\ c + m <= l
  <2>1. PICK left \in Nat \ {0} : left = l - c
    BY <1>3
  <2>2. least(n, left) \in Nat \ {0} /\ least(n, left) <= left
    BY DEF least
  <2> QED BY <1>3, <2>1, <2>2
<1>7. PICK bytes : bytes = Slice(segment_bytes(s), c, m)
  OBVIOUS
<1>8. PICK d \in Nat : d = c + m
  BY <1>3
<1>9. PICK v : v = SetPosition(r, d)
  OBVIOUS
<1>10. v = Reader(e, h, b, d, l, a, status)
  BY <1>1, <1>9, ReaderUpdates
<1>11. copy_out(Produced(r, took, TRUE, <<>>), n) = Produced(v, took, TRUE, bytes)
  <2>1. PICK step : step = Produced(r, took, TRUE, <<>>)
    OBVIOUS
  <2>2. step.reader = r /\ step.ok /\ step.taken = took
    BY <2>1 DEF Produced
  <2>3. (CHOOSE x \in b.segment : TRUE) = s
    BY <1>5, ChooseSome
  <2>4. copy_out(step, n) = Produced([r EXCEPT !.ciphertext_position = c + m], took, TRUE, bytes)
    BY <1>2, <1>6, <1>7, <2>2, <2>3 DEF copy_out
  <2> QED BY <1>8, <1>9, <2>1, <2>4 DEF SetPosition
<1>12. PICK out : out = output \o bytes
  OBVIOUS
<1>13. /\ GoodOutput(out) /\ IsSeq(bytes) /\ Len(bytes) = m /\ StopsIn(out, s, k, d)
  <2>1. c + m <= s.length
    BY <1>5, <1>6
  <2>2. /\ GoodOutput(output \o bytes) /\ IsSeq(bytes) /\ Len(bytes) = m
        /\ StopsIn(output \o bytes, s, k, c + m)
    BY <1>3, <1>5, <1>7, <2>1, SegmentExtends
  <2> QED BY <1>8, <1>12, <2>2
<1>14. /\ IsReader(v) /\ v.encryptor = e /\ v.header_position = h /\ v.buffer = b
       /\ v.ciphertext_position = d /\ v.ciphertext_length = l /\ v.lookahead = a
       /\ v.status = status
  BY <1>10, ReaderFields
<1>15. GoodFields(v) /\ Pending(v) = l - d
  BY <1>2, <1>3, <1>6, <1>8, <1>14 DEF GoodFields, Pending
<1>16. Len(out) + Pending(v) = Len(output) + Pending(r)
  <2>1. IsSeq(output) /\ Len(output) \in Nat /\ Len(out) = Len(output) + m
    BY <1>12, <1>13, ConcatOfSeqs DEF GoodOutput
  <2>2. Pending(r) = l - c
    BY <1>2 DEF Pending
  <2> QED BY <1>3, <1>8, <1>15, <2>1, <2>2
<1>17. ASSUME NEW i \in Nat, Loaded(r, output, i) PROVE Loaded(v, out, i)
  <2>1. PICK t : b.segment = Some(t) /\ MessageSegment(t, i)
    BY <1>2, <1>17 DEF Loaded
  <2>2. t = s
    BY <1>5, <2>1 DEF Some
  <2>3. i = k
    BY <1>5, <2>1, <2>2 DEF MessageSegment, SegmentNumber
  <2> QED BY <1>5, <1>13, <1>14, <2>3 DEF Loaded
<1>18. GoodReader(v, out, took)
  BY <1>2, <1>14, <1>15, <1>16, <1>17, CopiedIsGood
<1>19. bytes # <<>>
  <2>1. Len(<<>>) = 0
    OBVIOUS
  <2> QED BY <1>6, <1>13, <2>1
<1>20. PICK st : st = Produced(v, took, TRUE, bytes)
  OBVIOUS
<1>21. st.ok /\ st.reader = v /\ st.taken = took /\ st.bytes = bytes
  BY <1>20 DEF Produced
<1> QED BY <1>11, <1>12, <1>13, <1>18, <1>19, <1>20, <1>21 DEF Ends

-----------------------------------------------------------------------------
(* Every step keeps the invariant. *)

(* The source does not change. *)
LEMMA SourceStays ==
    ASSUME plain' = plain, NEW output, NEW r, NEW took
    PROVE  /\ GoodOutput(output) => GoodOutput(output)'
           /\ GoodReader(r, output, took) => GoodReader(r, output, took)'
<1>1. ASSUME NEW k PROVE TokenIsRight(output, k)' <=> TokenIsRight(output, k)
  BY DEF TokenIsRight
<1>2. GoodOutput(output) => GoodOutput(output)'
  BY <1>1 DEF GoodOutput
<1>3. ASSUME NEW k PROVE IsLast(k)' <=> IsLast(k)
  BY DEF IsLast, StartOf
<1>4. ASSUME NEW k, NEW s PROVE MessageSegment(s, k)' <=> MessageSegment(s, k)
  BY <1>3 DEF MessageSegment, KindOf, StartOf, PayloadLength
<1>5. ASSUME NEW k PROVE Loaded(r, output, k)' <=> Loaded(r, output, k)
  BY <1>4 DEF Loaded
<1>6. ASSUME NEW k PROVE OpenReader(r, output, took, k)' <=> OpenReader(r, output, took, k)
  <2>1. Ahead(r.lookahead, took, k)' <=> Ahead(r.lookahead, took, k)
    BY DEF Ahead, StartOf
  <2>2. Loaded(r, output, k - 1)' <=> Loaded(r, output, k - 1)
    BY <1>5
  <2> QED BY <2>1, <2>2 DEF OpenReader
<1>7. ASSUME NEW k PROVE FinishedReader(r, output, took, k)' <=> FinishedReader(r, output, took, k)
  BY <1>3, <1>5 DEF FinishedReader, StartOf
<1>8. GoodReader(r, output, took) => GoodReader(r, output, took)'
  BY <1>6, <1>7 DEF GoodReader
<1> QED BY <1>2, <1>8

(* A read that ended. *)
LEMMA GaveKeepsInv ==
    ASSUME ReaderInv, NEW st, NEW n \in Nat, Ends(st, emitted, n), NEW cause,
           Gave(st, n, cause)
    PROVE  ReaderInv'
<1>1. PICK r, took, bytes : r = st.reader /\ took = st.taken /\ bytes = st.bytes
  OBVIOUS
<1>2. PICK out : out = emitted \o bytes
  OBVIOUS
<1>3. PICK ok : ok = st.ok
  OBVIOUS
<1>4. /\ encrypting' = Some(r) /\ taken' = took /\ emitted' = out /\ plain' = plain
      /\ last' = [op |-> "read", ok |-> ok, eof |-> ok /\ n > 0 /\ bytes = <<>>]
  BY <1>1, <1>2, <1>3 DEF Gave, Returned
<1>5. GoodOutput(out) /\ GoodReader(r, out, took)
      /\ (~ok => r.status = "Failed")
      /\ (ok /\ n > 0 /\ bytes = <<>> => r.status = "Finished" /\ Pending(r) = 0)
  <2>1. CASE ~st.ok /\ st.bytes = <<>> /\ st.reader.status = "Failed"
    <3>1. out = emitted
      <4>1. PICK S : emitted \in Seq(S)
        BY DEF ReaderInv, GoodOutput, IsSeq
      <4> QED BY <1>1, <1>2, <2>1, <4>1, ConcatEmptySeq
    <3> QED BY <1>1, <1>3, <2>1, <3>1 DEF ReaderInv, GoodReader
  <2>2. CASE st.ok
    BY <1>1, <1>2, <1>3, <2>2 DEF Ends
  <2> QED BY <2>1, <2>2 DEF Ends
<1>6. GoodOutput(out)' /\ GoodReader(r, out, took)'
  BY <1>4, <1>5, SourceStays
<1>7. \A x \in encrypting' : x = r
  BY <1>4 DEF Some
<1>8. (plain \in Seq(Nat) /\ \A i \in 1 .. Len(plain) : plain[i] = i)'
  BY <1>4 DEF ReaderInv
<1>9. GoodOutput(emitted)'
  BY <1>4, <1>6
<1>10. (\A x \in encrypting : encrypting = Some(x) /\ GoodReader(x, emitted, taken))'
  BY <1>4, <1>6, <1>7
<1>11. GoodLast'
  <2>1. last'.op = "read" /\ last'.ok = ok /\ last'.eof = (ok /\ n > 0 /\ bytes = <<>>)
    BY <1>4
  <2>2. Pending(r)' = Pending(r)
    BY DEF Pending
  <2> QED BY <1>5, <1>7, <2>1, <2>2 DEF GoodLast, Pending
<1> QED BY <1>8, <1>9, <1>10, <1>11 DEF ReaderInv

LEMMA InitIsGood == Init => ReaderInv
<1> SUFFICES ASSUME Init PROVE ReaderInv
  OBVIOUS
<1>1. PICK n \in 0 .. MaxBytes : plain = [i \in 1 .. n |-> i]
  BY DEF Init
<1>2. n \in Nat /\ plain \in [1 .. n -> Nat]
  BY <1>1, EncryptReaderAssumption
<1>3. plain \in Seq(Nat) /\ Len(plain) = n
  BY <1>2, SeqDef, LenProperties
<1>4. emitted = <<>> /\ encrypting = {} /\ taken = 0 /\ last.op = "none" /\ ~last.eof
  BY DEF Init, None
<1>5. GoodOutput(emitted)
  <2>1. emitted \in Seq({}) /\ Len(emitted) = 0
    BY <1>4
  <2> QED BY <2>1 DEF GoodOutput, IsSeq
<1> QED BY <1>1, <1>2, <1>3, <1>4, <1>5 DEF ReaderInv, GoodLast, None

(* EncryptReader::new starts before the header with nothing sealed. *)
LEMMA NewKeepsInv ==
    ASSUME ReaderInv, NEW fault, new(fault)
    PROVE  ReaderInv'
<1>1. /\ emitted = <<>> /\ taken = 0 /\ emitted' = emitted /\ taken' = taken /\ plain' = plain
      /\ last' = [op |-> "new", ok |-> fault = "none", eof |-> FALSE]
  BY DEF new, Returned, ReaderInv, GoodLast
<1>2. GoodLast'
  BY <1>1 DEF GoodLast
<1>3. PICK out : out = emitted
  OBVIOUS
<1>4. GoodOutput(out)
  BY <1>3 DEF ReaderInv
<1>5. GoodOutput(out)'
  BY <1>1, <1>4, SourceStays
<1>6. (plain \in Seq(Nat) /\ \A i \in 1 .. Len(plain) : plain[i] = i)' /\ GoodOutput(emitted)'
  BY <1>1, <1>3, <1>5 DEF ReaderInv
<1>7. CASE fault = "none"
  <2>1. PICK r : r = Reader(Some(Encryptor_new(context)), 0, buffer_new(SegmentLength), 0, 0,
                            None, "Open")
    OBVIOUS
  <2>2. encrypting' = Some(r)
    BY <1>7, <2>1 DEF new, Reader
  <2>3. /\ IsReader(r) /\ r.encryptor = Some(Encryptor_new(context)) /\ r.header_position = 0
        /\ r.buffer = buffer_new(SegmentLength) /\ r.ciphertext_position = 0
        /\ r.ciphertext_length = 0 /\ r.lookahead = None /\ r.status = "Open"
    BY <2>1, ReaderFields
  <2>4. IsBuffer(r.buffer) /\ r.buffer.parameters = SegmentLength
    <3>1. buffer_new(SegmentLength) = Buffer(SegmentLength, "Empty", <<>>, None)
      BY DEF buffer_new, Buffer
    <3> QED BY <2>3, <3>1, BufferFields
  <2>5. GoodFields(r) /\ Pending(r) = 0
    BY <2>3, <2>4 DEF GoodFields, Pending
  <2>6. \E state : r.encryptor = Some(EncryptorAt(state, 0))
    BY <2>3 DEF Encryptor_new, EncryptorAt, counter_new
  <2>7. Len(out) = 0 /\ Len(out) + Pending(r) = r.header_position + 0 * SegmentLength
    BY <1>1, <1>3, <2>3, <2>5, Lengths
  <2>8. OpenReader(r, out, taken, 0)
    BY <1>1, <2>3, <2>5, <2>6, <2>7, Lengths DEF OpenReader, Ahead
  <2>9. PICK took : took = taken
    OBVIOUS
  <2>10. GoodReader(r, out, took)
    BY <2>3, <2>5, <2>8, <2>9 DEF GoodReader
  <2>11. GoodReader(r, out, took)'
    BY <1>1, <2>10, SourceStays
  <2>12. \A x \in encrypting' : x = r
    BY <2>2 DEF Some
  <2>13. (\A x \in encrypting : encrypting = Some(x) /\ GoodReader(x, emitted, taken))'
    BY <1>1, <1>3, <2>2, <2>9, <2>11, <2>12
  <2> QED BY <1>2, <1>6, <2>13 DEF ReaderInv
<1>8. CASE fault # "none"
  <2>1. encrypting' = {}
    BY <1>8 DEF new, None
  <2> QED BY <1>2, <1>6, <2>1 DEF ReaderInv
<1> QED BY <1>7, <1>8

(* into_inner_unfinished drops the reader. *)
LEMMA DropKeepsInv == ReaderInv /\ into_inner_unfinished => ReaderInv'
<1> SUFFICES ASSUME ReaderInv, into_inner_unfinished PROVE ReaderInv'
  OBVIOUS
<1>1. /\ encrypting' = {} /\ emitted' = emitted /\ plain' = plain
      /\ last' = [op |-> "drop", ok |-> TRUE, eof |-> FALSE]
  BY DEF into_inner_unfinished, Returned, None
<1>2. PICK out : out = emitted
  OBVIOUS
<1>3. GoodOutput(out)
  BY <1>2 DEF ReaderInv
<1>4. GoodOutput(out)'
  BY <1>1, <1>3, SourceStays
<1>5. GoodLast'
  BY <1>1 DEF GoodLast
<1> QED BY <1>1, <1>2, <1>4, <1>5 DEF ReaderInv

(* A step that returns no byte and leaves the reader alone. *)
LEMMA IdleEnds ==
    ASSUME ReaderInv, NEW r \in encrypting, NEW n, NEW ok \in BOOLEAN,
           ~ok => r.status = "Failed",
           ok /\ n > 0 => r.status = "Finished" /\ Pending(r) = 0
    PROVE  Ends(Produced(r, taken, ok, <<>>), emitted, n)
<1>1. PICK st : st = Produced(r, taken, ok, <<>>)
  OBVIOUS
<1>2. st.ok = ok /\ st.reader = r /\ st.taken = taken /\ st.bytes = <<>>
  BY <1>1 DEF Produced
<1>3. emitted \o <<>> = emitted
  <2>1. PICK S : emitted \in Seq(S)
    BY DEF ReaderInv, GoodOutput, IsSeq
  <2> QED BY <2>1, ConcatEmptySeq
<1>4. GoodReader(r, emitted, taken) /\ GoodOutput(emitted)
  BY DEF ReaderInv
<1> QED BY <1>1, <1>2, <1>3, <1>4 DEF Ends

(* read copies out of the header. *)
LEMMA HeaderEnds ==
    ASSUME ReaderInv, NEW r \in encrypting, NEW n \in Nat \ {0}, reads(r, n), ~past_header(r),
           NEW m, m = least(n, HEADER_LENGTH - r.header_position), NEW v,
           v = SetHeader(r, r.header_position + m)
    PROVE  Ends(Produced(v, taken, TRUE, Slice(header_bytes(header), r.header_position, m)),
                emitted, n)
<1>1. r.status = "Open" /\ GoodFields(r) /\ r.header_position # HEADER_LENGTH
  BY DEF ReaderInv, GoodReader, reads, past_header, FinishedReader
<1>2. PICK k \in Nat : OpenReader(r, emitted, taken, k)
  BY <1>1 DEF ReaderInv, GoodReader
<1>3. k = 0
  BY <1>1, <1>2 DEF OpenReader
<1>4. PICK h \in Nat : h = r.header_position /\ h < HEADER_LENGTH
  BY <1>1, <1>2, Lengths DEF OpenReader
<1>5. m \in Nat \ {0} /\ h + m <= HEADER_LENGTH
  BY <1>4, Lengths DEF least
<1>6. Pending(r) = 0 /\ 0 * SegmentLength = 0 /\ Len(emitted) \in Nat /\ GoodOutput(emitted)
  BY <1>2, <1>3, Lengths, OutputLength DEF OpenReader, ReaderInv, GoodOutput
<1>7. Len(emitted) = h
  BY <1>2, <1>3, <1>4, <1>6 DEF OpenReader
<1>8. PICK bytes, out : bytes = Slice(header_bytes(header), h, m) /\ out = emitted \o bytes
  OBVIOUS
<1>9. GoodOutput(out) /\ IsSeq(bytes) /\ Len(bytes) = m /\ Len(out) = h + m
  <2>1. Len(emitted) + m <= HEADER_LENGTH
    BY <1>5, <1>7
  <2>2. LET b == Slice(header_bytes(header), Len(emitted), m)
        IN  GoodOutput(emitted \o b) /\ IsSeq(b) /\ Len(b) = m
    BY <1>5, <1>6, <2>1, HeaderExtends
  <2>3. GoodOutput(out) /\ IsSeq(bytes) /\ Len(bytes) = m
    BY <1>7, <1>8, <2>2
  <2>4. Len(out) = h + m
    BY <1>6, <1>7, <1>8, <2>3, ConcatOfSeqs DEF GoodOutput
  <2> QED BY <2>3, <2>4
<1>10. PICK e, b, c, l, a, status : r = Reader(e, h, b, c, l, a, status)
  BY <1>1, <1>4 DEF GoodFields, IsReader
<1>11. PICK d \in Nat : d = h + m
  BY <1>5
<1>12. v = Reader(e, d, b, c, l, a, status)
  <2>1. v = SetHeader(r, d)
    BY <1>4, <1>11
  <2>2. SetHeader(Reader(e, h, b, c, l, a, status), d) = Reader(e, d, b, c, l, a, status)
    BY ReaderUpdates
  <2> QED BY <1>10, <2>1, <2>2
<1>13. /\ r.encryptor = e /\ r.buffer = b /\ r.ciphertext_position = c
       /\ r.ciphertext_length = l /\ r.lookahead = a /\ r.status = status
  BY <1>10, ReaderFields
<1>14. /\ IsReader(v) /\ v.encryptor = e /\ v.header_position = d /\ v.buffer = b
       /\ v.ciphertext_position = c /\ v.ciphertext_length = l /\ v.lookahead = a
       /\ v.status = status
  BY <1>12, ReaderFields
<1>15. GoodFields(v) /\ Pending(v) = 0
  BY <1>1, <1>6, <1>13, <1>14 DEF GoodFields, Pending
<1>16. OpenReader(v, out, taken, 0)
  <2>1. d \in 0 .. HEADER_LENGTH /\ Len(out) + 0 = d + 0 * SegmentLength
    BY <1>5, <1>6, <1>9, <1>11, Lengths
  <2> QED BY <1>2, <1>3, <1>13, <1>14, <1>15, <2>1 DEF OpenReader
<1>17. GoodReader(v, out, taken)
  BY <1>1, <1>13, <1>14, <1>15, <1>16 DEF GoodReader
<1>18. PICK st : st = Produced(v, taken, TRUE, bytes)
  OBVIOUS
<1>19. st.ok /\ st.reader = v /\ st.taken = taken /\ st.bytes = bytes
  BY <1>18 DEF Produced
<1>20. bytes # <<>>
  <2>1. Len(<<>>) = 0
    OBVIOUS
  <2> QED BY <1>5, <1>9, <2>1
<1> QED BY <1>4, <1>8, <1>9, <1>17, <1>18, <1>19, <1>20 DEF Ends

(* An open reader at the end of a segment refills its buffer. *)
LEMMA OpenRefills ==
    ASSUME ReaderInv, NEW r \in encrypting, past_header(r), at_segment_end(r),
           r.status = "Open", NEW budget \in Nat, NEW f, f = fill_plaintext(r, budget)
    PROVE  \E k \in Nat : Refilled(r, emitted, f, k)
<1>1. GoodFields(r) /\ plain \in Seq(Nat) /\ Len(emitted) \in Nat
  BY OutputLength DEF ReaderInv, GoodReader, GoodOutput
<1>2. PICK k \in Nat : OpenReader(r, emitted, taken, k)
  BY DEF ReaderInv, GoodReader
<1>3. Pending(r) = 0 /\ r.header_position = HEADER_LENGTH
  BY <1>1 DEF GoodFields, Pending, past_header, at_segment_end
<1>4. Len(emitted) = HEADER_LENGTH + k * SegmentLength
  BY <1>1, <1>2, <1>3 DEF OpenReader
<1>5. Fills(f, r, k)
  <2>1. Ahead(r.lookahead, taken, k)
    BY <1>2 DEF OpenReader
  <2> QED BY <1>1, <2>1, FillStages
<1> QED BY <1>1, <1>2, <1>3, <1>4, <1>5 DEF Refilled, OpenReader

(* Every call of read. *)
LEMMA ReadKeepsInv ==
    ASSUME ReaderInv, NEW r \in encrypting, NEW n \in Nat, NEW fault, NEW budget \in Nat,
           read(r, n, fault, budget)
    PROVE  ReaderInv'
<1>1. plain \in Seq(Nat) /\ GoodOutput(emitted)
  BY DEF ReaderInv
<1>2. CASE read_refused(r, n)
  <2>1. PICK ok \in BOOLEAN : ok = (n = 0)
    OBVIOUS
  <2>2. n = 0 \/ r.status = "Failed"
    BY <1>2 DEF read_refused
  <2>3. (~ok => r.status = "Failed") /\ ~(ok /\ n > 0)
    <3>1. ok <=> n = 0
      BY <2>1, Zenon
    <3>2. n = 0 => ~(n > 0)
      OBVIOUS
    <3> QED BY <2>2, <3>1, <3>2, Zenon
  <2>4. Ends(Produced(r, taken, ok, <<>>), emitted, n)
    BY <2>3, IdleEnds
  <2>5. Gave(Produced(r, taken, ok, <<>>), n, FALSE)
    BY <1>2, <2>1 DEF read_refused
  <2>6. PICK cause : cause = FALSE
    OBVIOUS
  <2> QED BY <2>4, <2>5, <2>6, GaveKeepsInv
<1>3. CASE read_in_header(r, n)
  <2>1. PICK m, h : m = least(n, HEADER_LENGTH - r.header_position) /\ h = r.header_position
    OBVIOUS
  <2>2. PICK v : v = SetHeader(r, h + m)
    OBVIOUS
  <2>3. reads(r, n) /\ ~past_header(r) /\ n \in Nat \ {0}
    BY <1>3 DEF read_in_header, reads
  <2>4. PICK st : st = Produced(v, taken, TRUE, Slice(header_bytes(header), h, m))
    OBVIOUS
  <2>5. Ends(st, emitted, n)
    BY <2>1, <2>2, <2>3, <2>4, HeaderEnds
  <2>6. Gave(st, n, FALSE)
    BY <1>3, <2>1, <2>2, <2>4 DEF read_in_header, SetHeader
  <2>7. PICK cause : cause = FALSE
    OBVIOUS
  <2> QED BY <2>5, <2>6, <2>7, GaveKeepsInv
<1>4. CASE read_at_end(r, n)
  <2>1. PICK ok \in BOOLEAN : ok = TRUE
    OBVIOUS
  <2>2. r.status = "Finished" /\ at_segment_end(r)
    BY <1>4 DEF read_at_end
  <2>3. Pending(r) = 0
    BY <2>2 DEF ReaderInv, GoodReader, GoodFields, Pending, at_segment_end
  <2>4. Ends(Produced(r, taken, ok, <<>>), emitted, n)
    BY <2>1, <2>2, <2>3, IdleEnds
  <2>5. Gave(Produced(r, taken, ok, <<>>), n, FALSE)
    BY <1>4, <2>1 DEF read_at_end
  <2>6. PICK cause : cause = FALSE
    OBVIOUS
  <2> QED BY <2>4, <2>5, <2>6, GaveKeepsInv
<1>5. CASE read_direct(r, n, fault, budget)
  <2>1. PICK f, cause : /\ f = fill_plaintext(r, budget) /\ cause = caused(f, fault)
                        /\ Gave(emit_segment_direct(r, f, fault), n, cause)
    BY <1>5 DEF read_direct
  <2>2. past_header(r) /\ at_segment_end(r) /\ r.status = "Open"
    BY <1>5 DEF read_direct
  <2>3. PICK k \in Nat : Refilled(r, emitted, f, k)
    BY <2>1, <2>2, OpenRefills
  <2>4. Ends(emit_segment_direct(r, f, fault), emitted, n)
    BY <1>1, <2>3, DirectEnds
  <2> QED BY <2>1, <2>4, GaveKeepsInv
<1>6. CASE read_loading(r, n, fault, budget)
  <2>1. PICK f, cause, step : /\ f = fill_plaintext(r, budget) /\ cause = caused(f, fault)
                              /\ step = load_segment(r, f, fault)
                              /\ Gave(copy_out(step, n), n, cause)
    BY <1>6 DEF read_loading
  <2>2. /\ past_header(r) /\ at_segment_end(r) /\ r.status = "Open" /\ n \in Nat \ {0}
    BY <1>6 DEF read_loading, reads
  <2>3. PICK k \in Nat : Refilled(r, emitted, f, k)
    BY <2>1, <2>2, OpenRefills
  <2>4. Loads(step, emitted)
    BY <1>1, <2>1, <2>3, LoadEnds
  <2>5. Ends(copy_out(step, n), emitted, n)
    <3>1. CASE ~step.ok /\ step.bytes = <<>> /\ step.reader.status = "Failed"
      <4>1. copy_out(step, n) = step
        BY <3>1 DEF copy_out
      <4> QED BY <3>1, <4>1 DEF Ends
    <3>2. CASE /\ step.ok /\ step = Produced(step.reader, step.taken, TRUE, <<>>)
               /\ step.reader.status # "Failed" /\ Pending(step.reader) > 0
               /\ GoodReader(step.reader, emitted, step.taken)
      <4>1. PICK v, took : v = step.reader /\ took = step.taken
        OBVIOUS
      <4>2. Ends(copy_out(Produced(v, took, TRUE, <<>>), n), emitted, n)
        BY <1>1, <2>2, <3>2, <4>1, CopyOutEnds
      <4>3. step = Produced(v, took, TRUE, <<>>)
        BY <3>2, <4>1
      <4> QED BY <4>2, <4>3
    <3> QED BY <2>4, <3>1, <3>2 DEF Loads
  <2> QED BY <2>1, <2>5, GaveKeepsInv
<1>7. CASE read_loaded(r, n)
  <2>1. /\ n \in Nat \ {0} /\ r.status # "Failed" /\ ~at_segment_end(r)
    BY <1>7 DEF read_loaded, reads
  <2>2. GoodReader(r, emitted, taken) /\ Pending(r) > 0
    BY <2>1 DEF ReaderInv, GoodReader, GoodFields, Pending, at_segment_end
  <2>3. PICK st, cause : st = copy_out(Produced(r, taken, TRUE, <<>>), n) /\ cause = FALSE
    OBVIOUS
  <2>4. Ends(st, emitted, n)
    BY <1>1, <2>1, <2>2, <2>3, CopyOutEnds
  <2>5. Gave(st, n, cause)
    BY <1>7, <2>3 DEF read_loaded
  <2> QED BY <2>4, <2>5, GaveKeepsInv
<1> QED BY <1>2, <1>3, <1>4, <1>5, <1>6, <1>7 DEF read

(* What may go wrong in a call leaves a budget of bytes. *)
LEMMA Budgets == \A trouble \in Troubles : trouble.budget \in Nat
BY Lengths DEF Troubles

LEMMA StepKeepsInv == ReaderInv /\ [Next]_encryptVars => ReaderInv'
<1> SUFFICES ASSUME ReaderInv, [Next]_encryptVars PROVE ReaderInv'
  OBVIOUS
<1>1. ASSUME NEW fault \in {"none", "rng", "kdf"}, new(fault) PROVE ReaderInv'
  BY <1>1, NewKeepsInv
<1>2. ASSUME NEW r \in encrypting, NEW n \in 0 .. MaxRead, NEW trouble \in Troubles,
             read(r, n, trouble.fault, trouble.budget)
      PROVE  ReaderInv'
  <2>1. PICK fault, budget : fault = trouble.fault /\ budget = trouble.budget
    OBVIOUS
  <2>2. n \in Nat /\ budget \in Nat /\ read(r, n, fault, budget)
    BY <1>2, <2>1, Budgets, EncryptReaderAssumption
  <2> QED BY <2>2, ReadKeepsInv
<1>3. ASSUME into_inner_unfinished PROVE ReaderInv'
  BY <1>3, DropKeepsInv
<1>4. ASSUME UNCHANGED encryptVars PROVE ReaderInv'
  BY <1>4 DEF encryptVars, ReaderInv, GoodLast, GoodOutput, TokenIsRight, GoodReader, OpenReader,
              FinishedReader, Loaded, MessageSegment, KindOf, IsLast, StartOf, PayloadLength, Ahead
<1> QED BY <1>1, <1>2, <1>3, <1>4 DEF Next

-----------------------------------------------------------------------------
(* The theorems. *)

(* The reader is always one that has returned the start of its message. *)
THEOREM ReaderInvariant == Spec => []ReaderInv
<1>1. Init => ReaderInv
  BY InitIsGood
<1>2. ReaderInv /\ [Next]_encryptVars => ReaderInv'
  BY StepKeepsInv
<1> QED BY <1>1, <1>2, PTL DEF Spec

(* What read has returned (src/io.rs, EncryptReader) is the start of the   *)
(* one message that the source's bytes make, for every segment length,     *)
(* source, mixture of reads and failure.                                   *)
THEOREM MessageOutput == Spec => []OutputIsTheMessage
BY ReaderInvariant, InvImpliesProperties, PTL

(* A reader that reports its end has returned the whole message, of the    *)
(* length that Parameters::plaintext_layout computes.                      *)
THEOREM CompleteAtEnd == Spec => []EndMeansComplete
BY ReaderInvariant, InvImpliesProperties, PTL

(* A failed read leaves a failed reader, which returns nothing more. *)
LEMMA StepKeepsSilence ==
    ReaderInv /\ [Next]_encryptVars =>
        ((\E r \in encrypting : r.status = "Failed") \/ (last.op = "read" /\ ~last.ok)
            => emitted' = emitted)
<1> SUFFICES ASSUME ReaderInv, [Next]_encryptVars,
                    (\E r \in encrypting : r.status = "Failed") \/ (last.op = "read" /\ ~last.ok)
             PROVE  emitted' = emitted
  OBVIOUS
<1>1. \A r \in encrypting : r.status = "Failed"
  <2>1. CASE \E r \in encrypting : r.status = "Failed"
    BY <2>1 DEF ReaderInv, Some
  <2>2. CASE last.op = "read" /\ ~last.ok
    BY <2>2 DEF ReaderInv, GoodLast
  <2> QED BY <2>1, <2>2
<1>2. ASSUME NEW fault, new(fault) PROVE emitted' = emitted
  BY <1>2 DEF new
<1>3. ASSUME NEW r \in encrypting, NEW n \in 0 .. MaxRead, NEW trouble \in Troubles,
             read(r, n, trouble.fault, trouble.budget)
      PROVE  emitted' = emitted
  <2>1. r.status = "Failed" /\ ~reads(r, n)
    BY <1>1 DEF reads
  <2>2. read_refused(r, n)
    BY <1>3, <2>1 DEF read, read_in_header, read_at_end, read_direct, read_loading, read_loaded
  <2>3. emitted' = emitted \o <<>>
    <3>1. PICK st : st = Produced(r, taken, n = 0, <<>>)
      OBVIOUS
    <3>2. Gave(st, n, FALSE)
      BY <2>2, <3>1 DEF read_refused
    <3>3. st.bytes = <<>>
      BY <3>1 DEF Produced
    <3> QED BY <3>2, <3>3 DEF Gave
  <2>4. PICK S : emitted \in Seq(S)
    BY DEF ReaderInv, GoodOutput, IsSeq
  <2> QED BY <2>3, <2>4, ConcatEmptySeq
<1>4. ASSUME into_inner_unfinished PROVE emitted' = emitted
  BY <1>4 DEF into_inner_unfinished
<1>5. ASSUME UNCHANGED encryptVars PROVE emitted' = emitted
  BY <1>5 DEF encryptVars
<1> QED BY <1>2, <1>3, <1>4, <1>5 DEF Next

(* Once a read has failed, no byte follows: EncryptReader::read checks its *)
(* Failed status first, and every error of a segment sets it.              *)
THEOREM SilentAfterError == Spec => NothingAfterError
<1>1. ReaderInv /\ [Next]_encryptVars =>
        [(\E r \in encrypting : r.status = "Failed") \/ (last.op = "read" /\ ~last.ok)
            => emitted' = emitted]_encryptVars
  BY StepKeepsSilence
<1> QED BY <1>1, ReaderInvariant, PTL DEF Spec, NothingAfterError

=============================================================================
