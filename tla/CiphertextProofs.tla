--------------------------- MODULE CiphertextProofs ---------------------------
(***************************************************************************)
(* Lemmas about Ciphertexts that the proofs of the readers and of the      *)
(* one-shot functions share: what a message and its bytes consist of, what *)
(* storage can make of them, and what of it opens.                         *)
(***************************************************************************)
EXTENDS Ciphertexts, SegmentProofs

LOCAL INSTANCE SequencesExt

-----------------------------------------------------------------------------
(* The bytes of a sequence of headers and segments. *)

bytes_of_item(x) == IF is_header(x) THEN header_bytes(x) ELSE segment_bytes(x)

length_of_item(x) == IF is_header(x) THEN HEADER_LENGTH ELSE x.length

BytesOf(I) == {[item |-> x, at |-> a, of |-> length_of_item(x)] : x \in I, a \in Nat}

Sized(I) == \A x \in I : length_of_item(x) \in Nat

(* The bytes of the items are the running concatenation of the items'. *)
LEMMA ItemsConcatenate ==
    ASSUME NEW items, NEW I, items \in Seq(I), items # <<>>
    PROVE  \E seqs, f : /\ seqs = [i \in 1 .. Len(items) |-> bytes_of_item(items[i])]
                        /\ Concatenation(f, seqs, Len(items))
                        /\ bytes_of_items(items) = f[Len(items)]
<1> DEFINE n == Len(items)
           seqs == [i \in 1 .. n |-> bytes_of_item(items[i])]
           f == CHOOSE g : IsRunning(g, seqs, n)
<1>1. n \in Nat /\ n # 0 /\ DOMAIN items = 1 .. n
  BY LenProperties, EmptySeq
<1>2. bytes_of_items(items) = FlattenSeq(seqs)
  BY <1>1 DEF bytes_of_items, bytes_of_item
<1>3. Len(seqs) = n
  BY <1>1
<1> HIDE DEF seqs, n
<1>4. FlattenSeq(seqs) = f[n]
  BY <1>1, <1>3 DEF FlattenSeq, IsRunning
<1>5. Concatenation(f, seqs, n)
  <2> HIDE DEF f
  <2>1. f = CHOOSE g : IsRunning(g, seqs, n)
    BY DEF f
  <2> QED BY <1>1, <2>1, ConcatenationDefined
<1> HIDE DEF f
<1> QED BY <1>2, <1>4, <1>5 DEF seqs, n

(* The bytes of one item. *)
LEMMA ItemBytes ==
    ASSUME NEW I, Sized(I), NEW x \in I
    PROVE  /\ bytes_of_item(x) \in Seq(BytesOf(I))
           /\ Len(bytes_of_item(x)) = length_of_item(x)
           /\ \A k \in 1 .. length_of_item(x) :
                 bytes_of_item(x)[k] = [item |-> x, at |-> k, of |-> length_of_item(x)]
<1> DEFINE n == length_of_item(x)
           b == [k \in 1 .. n |-> [item |-> x, at |-> k, of |-> n]]
<1>1. n \in Nat
  BY DEF Sized
<1>2. bytes_of_item(x) = b
  BY DEF bytes_of_item, header_bytes, segment_bytes, bytes_of, length_of_item
<1>3. \A k \in 1 .. n : [item |-> x, at |-> k, of |-> n] \in BytesOf(I)
  BY DEF BytesOf
<1> HIDE DEF n
<1>4. b \in Seq(BytesOf(I)) /\ Len(b) = n
  BY <1>1, <1>3
<1> QED BY <1>1, <1>2, <1>4 DEF n

(* The bytes of items are bytes of these items, the first item's first. *)
LEMMA ItemsBytes ==
    ASSUME NEW I, Sized(I), NEW items \in Seq(I)
    PROVE  /\ bytes_of_items(items) \in Seq(BytesOf(I))
           /\ items # <<>> =>
                \A k \in 1 .. length_of_item(items[1]) :
                    /\ Len(bytes_of_items(items)) >= length_of_item(items[1])
                    /\ bytes_of_items(items)[k]
                         = [item |-> items[1], at |-> k, of |-> length_of_item(items[1])]
<1>1. CASE items = <<>>
  <2>1. DOMAIN items = {} /\ Len(items) = 0
    BY <1>1
  <2>2. PICK e : e = [i \in DOMAIN items |-> IF is_header(items[i]) THEN header_bytes(items[i])
                                            ELSE segment_bytes(items[i])]
    OBVIOUS
  <2>3. e = <<>>
    BY <2>1, <2>2
  <2>4. bytes_of_items(items) = FlattenSeq(e)
    BY <2>2 DEF bytes_of_items
  <2>5. FlattenSeq(e) = <<>>
    BY <2>3 DEF FlattenSeq
  <2>6. bytes_of_items(items) \in Seq(BytesOf(I))
    BY <2>4, <2>5, EmptySeq
  <2> QED BY <1>1, <2>6
<1>2. CASE items # <<>>
  <2> DEFINE n == Len(items)
  <2>1. PICK seqs, f : /\ seqs = [i \in 1 .. n |-> bytes_of_item(items[i])]
                       /\ Concatenation(f, seqs, n)
                       /\ bytes_of_items(items) = f[n]
    BY <1>2, ItemsConcatenate
  <2>2. n \in Nat /\ n # 0 /\ \A i \in 1 .. n : items[i] \in I
    BY <1>2, LenProperties, EmptySeq, ElementOfSeq
  <2>3. \A i \in 1 .. n : seqs[i] \in Seq(BytesOf(I))
    <3> SUFFICES ASSUME NEW i \in 1 .. n
                 PROVE  seqs[i] \in Seq(BytesOf(I))
      OBVIOUS
    <3>1. bytes_of_item(items[i]) \in Seq(BytesOf(I))
      BY <2>2, ItemBytes
    <3> QED BY <2>1, <3>1
  <2> HIDE DEF n
  <2>4. 1 \in 1 .. n /\ n \in 1 .. n
    BY <2>2
  <2>5. f[n] \in Seq(BytesOf(I))
    BY <2>1, <2>2, <2>3, <2>4, ConcatenationType
  <2>6. PICK one \in 1 .. n : one = 1
    BY <2>4
  <2>7. f[1] = seqs[1] /\ seqs[1] = bytes_of_item(items[1])
    BY <2>1, <2>4 DEF Concatenation
  <2>8. StartsAs(f, one, n)
    BY <2>1, <2>2, <2>3, <2>4, <2>6, ConcatenationPrefix
  <2>9. Len(f[1]) <= Len(f[n]) /\ \A k \in 1 .. Len(f[1]) : f[n][k] = f[1][k]
    BY <2>6, <2>8 DEF StartsAs
  <2>10. /\ Len(bytes_of_item(items[1])) = length_of_item(items[1])
         /\ \A k \in 1 .. length_of_item(items[1]) :
               bytes_of_item(items[1])[k]
                 = [item |-> items[1], at |-> k, of |-> length_of_item(items[1])]
    BY <2>2, <2>4, ItemBytes
  <2>11. PICK l : l = length_of_item(items[1])
    OBVIOUS
  <2>12. Len(f[1]) = l
    BY <2>7, <2>10, <2>11
  <2>13. l \in Nat
    BY <2>2, <2>4, <2>11 DEF Sized
  <2>14. PICK m \in Nat : m = Len(f[n])
    BY <2>5, LenProperties
  <2>15. m >= l
    BY <2>9, <2>12, <2>13, <2>14
  <2> QED BY <2>1, <2>5, <2>7, <2>9, <2>10, <2>11, <2>12, <2>14, <2>15, ZenonT(60)
<1> QED BY <1>1, <1>2

-----------------------------------------------------------------------------
(* Messages. *)

(* The payload of a message's segment. *)
PayloadOf(m, i) ==
    Slice(m.bytes, (i - 1) * capacity, least(capacity, Len(m.bytes) - (i - 1) * capacity))

KindOf(m, i) == IF i = Len(m.segments) THEN "Final" ELSE "NonFinal"

SegmentOf(ctx, m, i, nonce) ==
    seal(derive_segment_key(ctx, masked_position(i - 1)), nonce, i - 1,
         KindOf(m, i), plaintext_of(PayloadOf(m, i)))

(* A message under a context: its plaintext in segments, whatever nonces   *)
(* sealed them.                                                            *)
IsMessageOf(ctx, m) ==
    LET n == Len(m.bytes)
        count == Len(m.segments)
    IN  /\ m.bytes \in Seq(Nat)
        /\ count \in Nat \ {0}
        /\ (count - 1) * capacity <= n /\ n <= count * capacity
        /\ m.segments = [i \in 1 .. count |-> m.segments[i]]
        /\ \A i \in 1 .. count : \E nonce : m.segments[i] = SegmentOf(ctx, m, i, nonce)

IsMessage(m) == IsMessageOf(contexts.ours, m)

(* What segments_of returns are the segments of a message. *)
LEMMA SegmentsOfMessage ==
    ASSUME NEW ctx, NEW bytes \in Seq(Nat), NEW count \in Nat \ {0},
           (count - 1) * capacity <= Len(bytes), Len(bytes) <= count * capacity,
           NEW m, m = [bytes |-> bytes, segments |-> segments_of(ctx, bytes, count)]
    PROVE  IsMessageOf(ctx, m) /\ Len(m.segments) = count
<1>1. m.bytes = bytes /\ m.segments = segments_of(ctx, bytes, count)
  OBVIOUS
<1>2. PICK s : s = m.segments
  OBVIOUS
<1>3. Len(s) = count /\ DOMAIN s = 1 .. count /\ s = [i \in 1 .. count |-> s[i]]
  BY <1>1, <1>2 DEF segments_of
<1>4. ASSUME NEW i \in 1 .. count PROVE s[i] = SegmentOf(ctx, m, i, <<0, i>>)
  BY <1>1, <1>2, <1>3 DEF segments_of, SegmentOf, PayloadOf, KindOf
<1> QED BY <1>1, <1>2, <1>3, <1>4 DEF IsMessageOf

(* Every message has the segments of its plaintext, as many as there are   *)
(* positions at most.                                                      *)
LEMMA MessagesForm ==
    ASSUME \A n \in Lengths : plaintext_layout(SegmentLength, n).ok, NEW m \in Messages
    PROVE  IsMessage(m) /\ Len(m.segments) <= AEAD_MAX_SEGMENTS
<1>1. PICK n \in Lengths : \E count \in counts(n) :
        LET bytes == [i \in 1 .. n |-> i]
        IN  m = [bytes |-> bytes, segments |-> segments_of(contexts.ours, bytes, count)]
  BY DEF Messages
<1>2. n \in Nat /\ plaintext_layout(SegmentLength, n).ok
  BY CiphertextsAssumption
<1>3. PICK bytes : bytes = [i \in 1 .. n |-> i]
  OBVIOUS
<1>4. PICK count \in counts(n) :
        m = [bytes |-> bytes, segments |-> segments_of(contexts.ours, bytes, count)]
  BY <1>1, <1>3
<1>5. bytes \in Seq(Nat) /\ Len(bytes) = n
  BY <1>2, <1>3
<1>7. capacity \in Nat \ {0} /\ SegmentLength \in VALID_SEGMENT_LENGTHS
  BY CiphertextsAssumption, SegmentLengths DEF capacity
<1>8. PICK canonical : canonical = SegmentCountFor(SegmentLength, n)
  OBVIOUS
<1>9. plaintext_layout(SegmentLength, n).value.segment_count = canonical
  BY <1>2, <1>7, <1>8, PlaintextLayoutIsGood, LayoutFields
<1>10. /\ canonical \in Nat \ {0} /\ n <= canonical * capacity
       /\ (canonical - 1) * capacity <= n
  BY <1>2, <1>7, <1>8, SegmentCountBounds DEF capacity
<1>11. \/ count = canonical
       \/ /\ n > 0 /\ n % capacity = 0 /\ canonical < AEAD_MAX_SEGMENTS
          /\ count = canonical + 1
  BY <1>4, <1>9 DEF counts
<1>12. count \in Nat \ {0} /\ (count - 1) * capacity <= n /\ n <= count * capacity
  <2>1. CASE count = canonical
    BY <1>10, <2>1
  <2>2. CASE n > 0 /\ n % capacity = 0 /\ count = canonical + 1
    <3>1. canonical = n \div capacity
      BY <1>2, <1>7, <1>8, <1>10, <2>2 DEF SegmentCountFor, DivCeil, capacity
    <3>2. n = capacity * canonical
      BY <1>2, <1>7, <2>2, <3>1, DivMod
    <3>3. count - 1 = canonical /\ canonical * capacity = n /\ count * capacity = n + capacity
      BY <1>2, <1>7, <1>10, <2>2, <3>2
    <3> QED BY <1>2, <1>7, <1>10, <2>2, <3>3
  <2> QED BY <1>11, <2>1, <2>2
<1>13. canonical <= AEAD_MAX_SEGMENTS /\ AEAD_MAX_SEGMENTS \in Nat
  BY <1>2, <1>7, <1>8, PlaintextLayoutForm, ParametersAssumption
<1>14. count <= AEAD_MAX_SEGMENTS
  BY <1>10, <1>11, <1>13
<1> QED BY <1>4, <1>5, <1>12, <1>14, SegmentsOfMessage DEF IsMessage

(* The other message is one. *)
LEMMA OtherIsMessage ==
    /\ IsMessageOf(contexts.other, other) /\ Len(other.segments) = 2
    /\ Len(other.bytes) = capacity + 1
<1>1. capacity \in Nat \ {0}
  BY CiphertextsAssumption, SegmentLengths DEF capacity
<1>2. PICK bytes : bytes = [i \in 1 .. capacity + 1 |-> 100 + i]
  OBVIOUS
<1>3. bytes \in Seq(Nat) /\ Len(bytes) = capacity + 1
  BY <1>1, <1>2
<1>4. other = [bytes |-> bytes, segments |-> segments_of(contexts.other, bytes, 2)]
  BY <1>2 DEF other
<1>5. PICK two \in Nat \ {0} : two = 2
  OBVIOUS
<1>6. (two - 1) * capacity <= Len(bytes) /\ Len(bytes) <= two * capacity
  BY <1>1, <1>3, <1>5
<1>7. PICK c : c = contexts.other
  OBVIOUS
<1>8. PICK o : o = [bytes |-> bytes, segments |-> segments_of(c, bytes, two)]
  OBVIOUS
<1>9. other = o
  BY <1>4, <1>5, <1>7, <1>8
<1>10. IsMessageOf(c, o) /\ Len(o.segments) = two /\ o.bytes = bytes
  BY <1>3, <1>6, <1>8, SegmentsOfMessage
<1> QED BY <1>3, <1>5, <1>7, <1>9, <1>10

IsSealed(x) ==
    x = [prefix |-> x.prefix, length |-> x.length, damaged |-> FALSE,
         key |-> x.key, nonce |-> x.nonce, position |-> x.position,
         kind |-> x.kind, plaintext |-> x.plaintext]

(* The payloads of a message: all but the last are full. *)
LEMMA PayloadsForm ==
    ASSUME NEW ctx, NEW m, IsMessageOf(ctx, m), NEW i \in 1 .. Len(m.segments)
    PROVE  /\ PayloadOf(m, i) \in Seq(Nat)
           /\ Len(PayloadOf(m, i)) \in 0 .. capacity
           /\ i # Len(m.segments) => Len(PayloadOf(m, i)) = capacity
           /\ i = Len(m.segments) => Len(PayloadOf(m, i)) = Len(m.bytes) - (i - 1) * capacity
           /\ (i - 1) * capacity + Len(PayloadOf(m, i)) <= Len(m.bytes)
           /\ PayloadOf(m, i) = Slice(m.bytes, (i - 1) * capacity, Len(PayloadOf(m, i)))
           /\ (i - 1) * capacity + Len(PayloadOf(m, i)) <= Len(m.bytes)
<1> DEFINE count == Len(m.segments)
           n == Len(m.bytes)
           start == (i - 1) * capacity
           l == least(capacity, n - start)
<1>1. /\ count \in Nat \ {0} /\ m.bytes \in Seq(Nat) /\ n \in Nat
      /\ (count - 1) * capacity <= n /\ n <= count * capacity
  BY LenProperties DEF IsMessageOf
<1>3. capacity \in Nat \ {0}
  BY CiphertextsAssumption, SegmentLengths DEF capacity
<1>4. PICK k \in Nat : k = i - 1
  BY <1>1
<1>5. start = k * capacity /\ start \in Nat
  BY <1>3, <1>4
<1>6. k + 1 <= count /\ i = k + 1
  BY <1>1, <1>4
<1> HIDE DEF count, n, start
<1>7. CASE i = count
  <2>1. k = count - 1
    BY <1>1, <1>6, <1>7
  <2>2. start <= n /\ n <= start + capacity
    <3>1. count * capacity = k * capacity + capacity
      BY <1>1, <1>3, <2>1
    <3> QED BY <1>1, <1>5, <2>1, <3>1
  <2>3. l = n - start /\ l \in 0 .. capacity /\ start + l <= n
    BY <1>1, <1>3, <1>5, <2>2 DEF least
  <2>4. Slice(m.bytes, start, l) \in Seq(Nat) /\ Len(Slice(m.bytes, start, l)) = l
    BY <1>1, <1>5, <2>3, SliceOf DEF n
  <2> QED BY <1>7, <2>3, <2>4 DEF PayloadOf, start, n, count
<1>8. CASE i # count
  <2>1. k + 1 <= count - 1
    BY <1>1, <1>6, <1>8
  <2>2. (k + 1) * capacity <= (count - 1) * capacity
    BY <1>1, <1>3, <2>1
  <2>3. (k + 1) * capacity = start + capacity
    BY <1>3, <1>5
  <2>4. (count - 1) * capacity \in Nat
    BY <1>1, <1>3
  <2>5. start + capacity <= n
    BY <1>1, <1>3, <1>5, <2>2, <2>3, <2>4
  <2>6. l = capacity /\ l \in 0 .. capacity /\ start + l <= n
    BY <1>1, <1>3, <1>5, <2>5 DEF least
  <2>7. Slice(m.bytes, start, l) \in Seq(Nat) /\ Len(Slice(m.bytes, start, l)) = l
    BY <1>1, <1>5, <2>6, SliceOf, SMTT(30) DEF n
  <2> QED BY <1>8, <2>6, <2>7 DEF PayloadOf, start, n, count
<1> QED BY <1>7, <1>8

(* The numbers of a message. *)
LEMMA MessageNumbers ==
    ASSUME NEW ctx, NEW m, IsMessageOf(ctx, m)
    PROVE  /\ capacity \in Nat \ {0} /\ SegmentLength \in Nat \ {0}
           /\ SEGMENT_OVERHEAD \in Nat \ {0} /\ SegmentLength = SEGMENT_OVERHEAD + capacity
           /\ SegmentLength < U32_MAX
           /\ m.bytes \in Seq(Nat) /\ Len(m.bytes) \in Nat
           /\ Len(m.segments) \in Nat \ {0}
           /\ (Len(m.segments) - 1) * capacity <= Len(m.bytes)
           /\ Len(m.bytes) <= Len(m.segments) * capacity
BY CiphertextsAssumption, SegmentLengths, LenProperties DEF capacity, IsMessageOf

(* What a sealed segment of a message carries. *)
LEMMA KeysOf ==
    ASSUME NEW ctx, NEW m, IsMessageOf(ctx, m), NEW j \in 1 .. Len(m.segments), NEW x,
           x = m.segments[j]
    PROVE  /\ x.key = derive_segment_key(ctx, masked_position(j - 1))
           /\ x.position = j - 1 /\ x.kind = KindOf(m, j)
           /\ x.plaintext = plaintext_of(PayloadOf(m, j))
           /\ x.length = SEGMENT_OVERHEAD + Len(PayloadOf(m, j))
           /\ x.prefix = segment_prefix(KindOf(m, j), x.length)
           /\ IsSealed(x)
<1>1. PICK nonce : x = SegmentOf(ctx, m, j, nonce)
  BY DEF IsMessageOf
<1>2. PICK b : b = PayloadOf(m, j)
  OBVIOUS
<1>3. PICK kind : kind = KindOf(m, j)
  OBVIOUS
<1>4. PICK k : k = derive_segment_key(ctx, masked_position(j - 1))
  OBVIOUS
<1>5. x = seal(k, nonce, j - 1, kind, plaintext_of(b))
  BY <1>1, <1>2, <1>3, <1>4 DEF SegmentOf
<1>6. plaintext_of(b).length = Len(b)
  BY DEF plaintext_of
<1> QED BY <1>2, <1>3, <1>4, <1>5, <1>6 DEF seal, IsSealed

(* A segment has its length in bytes, and is at most full. *)
LEMMA SegmentSize ==
    ASSUME NEW ctx, NEW m, IsMessageOf(ctx, m), NEW j \in 1 .. Len(m.segments), NEW x,
           x = m.segments[j]
    PROVE  /\ Len(segment_bytes(x)) = x.length
           /\ x.length \in Nat \ {0} /\ x.length \in SEGMENT_OVERHEAD .. SegmentLength
           /\ KindOf(m, j) # "Final" => x.length = SegmentLength
<1>1. x.length = SEGMENT_OVERHEAD + Len(PayloadOf(m, j))
  BY KeysOf
<1>2. /\ SEGMENT_OVERHEAD \in Nat \ {0} /\ SegmentLength = SEGMENT_OVERHEAD + capacity
      /\ capacity \in Nat
  BY MessageNumbers
<1>3. PICK l : l = Len(PayloadOf(m, j))
  OBVIOUS
<1>4. l \in 0 .. capacity /\ (KindOf(m, j) # "Final" => l = capacity)
  BY <1>3, PayloadsForm DEF KindOf
<1>5. /\ x.length \in Nat \ {0} /\ x.length \in SEGMENT_OVERHEAD .. SegmentLength
      /\ KindOf(m, j) # "Final" => x.length = SegmentLength
  BY <1>1, <1>2, <1>3, <1>4
<1>6. PICK n \in Nat : n = x.length
  BY <1>5
<1>7. Len([k \in 1 .. n |-> [item |-> x, at |-> k, of |-> n]]) = n
  OBVIOUS
<1> QED BY <1>5, <1>6, <1>7 DEF segment_bytes, bytes_of

(* A sealed segment is a segment and no header. *)
LEMMA SealedIsSegment ==
    ASSUME NEW x, IsSealed(x)
    PROVE  is_segment(x) /\ ~is_header(x) /\ ~x.damaged
<1>1. PICK a, b, c, d, e, f, g :
        x = [prefix |-> a, length |-> b, damaged |-> FALSE, key |-> c, nonce |-> d,
             position |-> e, kind |-> f, plaintext |-> g]
  BY Zenon DEF IsSealed
<1> QED BY <1>1 DEF is_segment, is_header

-----------------------------------------------------------------------------
(* The items a source may be made of. *)

OurSegments(m) == {m.segments[i] : i \in 1 .. Len(m.segments)}
AlteredSegments(m) == UNION {Altered(s, {SEGMENT_OVERHEAD, SegmentLength}) : s \in OurSegments(m)}
OtherSegments == {other.segments[i] : i \in 1 .. 2}
ForgedHeaders == {headers.other, Header("other key", SegmentLength, "iv", aad),
                  Header(key, SegmentLength, "iv", "other aad"),
                  [headers.ours EXCEPT !.parameters = SegmentLength + 1]}

(* With the header of another message, but none of its segments; with its  *)
(* segments, but not its header; or with both.                             *)
NoForeignSegment(m) == {headers.ours} \cup ForgedHeaders \cup OurSegments(m)
NoForeignHeader(m) ==
    {headers.ours} \cup OurSegments(m) \cup AlteredSegments(m) \cup OtherSegments
Items(m) == NoForeignSegment(m) \cup NoForeignHeader(m)

(* A segment of the other message has its key. *)
LEMMA OtherSegmentsForm ==
    ASSUME NEW x \in OtherSegments
    PROVE  \E i, nonce, kind, b : \E masked :
              /\ b \in Seq(Nat)
              /\ x = seal(derive_segment_key(contexts.other, masked), nonce, i, kind,
                          plaintext_of(b))
<1>1. PICK c, o : c = contexts.other /\ o = other
  OBVIOUS
<1>2. IsMessageOf(c, o) /\ Len(o.segments) = 2
  BY <1>1, OtherIsMessage
<1>3. PICK i \in 1 .. Len(o.segments) : x = o.segments[i]
  BY <1>1, <1>2 DEF OtherSegments
<1>4. PICK nonce : x = SegmentOf(c, o, i, nonce)
  BY <1>2, <1>3 DEF IsMessageOf
<1>5. PayloadOf(o, i) \in Seq(Nat)
  BY <1>2, PayloadsForm
<1> QED BY <1>1, <1>4, <1>5 DEF SegmentOf

(* A sealed segment is a segment with a length. *)
LEMMA SealedItem ==
    ASSUME NEW k, NEW nonce, NEW i, NEW kind, NEW b, b \in Seq(Nat), NEW s,
           s = seal(k, nonce, i, kind, plaintext_of(b))
    PROVE  /\ is_segment(s) /\ ~is_header(s) /\ s.length \in Nat
           /\ \A x \in Altered(s, {SEGMENT_OVERHEAD, SegmentLength}) :
                 is_segment(x) /\ ~is_header(x) /\ x.length \in Nat
<1>1. Len(b) \in Nat /\ SEGMENT_OVERHEAD \in Nat /\ SegmentLength \in Nat
  BY LenProperties, SegmentLengths, CiphertextsAssumption
<1>2. s.length \in Nat
  BY <1>1 DEF seal, plaintext_of
<1>3. is_segment(s) /\ ~is_header(s)
  BY DEF is_segment, is_header, seal
<1>4. ASSUME NEW x \in Altered(s, {SEGMENT_OVERHEAD, SegmentLength})
      PROVE  DOMAIN x = DOMAIN s /\ x.length \in Nat
  <2>1. CASE x = [s EXCEPT !.damaged = TRUE]
    BY <1>2, <2>1 DEF seal
  <2>2. CASE \E l : x = [s EXCEPT !.prefix = l]
    BY <1>2, <2>2 DEF seal
  <2>3. CASE \E l \in {SEGMENT_OVERHEAD, SegmentLength} :
               x = [s EXCEPT !.length = l, !.damaged = TRUE]
    BY <1>1, <2>3 DEF seal
  <2> QED BY <1>4, <2>1, <2>2, <2>3 DEF Altered
<1> QED BY <1>2, <1>3, <1>4 DEF is_segment, is_header

(* No header or segment of the model is both. *)
LEMMA ItemKinds ==
    ASSUME NEW m, IsMessage(m)
    PROVE  /\ \A x \in OurSegments(m) \cup AlteredSegments(m) \cup OtherSegments :
                 is_segment(x) /\ ~is_header(x) /\ x.length \in Nat
           /\ \A x \in {headers.ours} \cup ForgedHeaders : is_header(x) /\ ~is_segment(x)
<1>1. ASSUME NEW s \in OurSegments(m)
      PROVE  /\ is_segment(s) /\ ~is_header(s) /\ s.length \in Nat
             /\ \A x \in Altered(s, {SEGMENT_OVERHEAD, SegmentLength}) :
                   is_segment(x) /\ ~is_header(x) /\ x.length \in Nat
  <2>1. PICK i \in 1 .. Len(m.segments) : s = m.segments[i]
    BY DEF OurSegments
  <2>2. PICK nonce : s = SegmentOf(contexts.ours, m, i, nonce)
    BY <2>1 DEF IsMessage, IsMessageOf
  <2>3. PayloadOf(m, i) \in Seq(Nat)
    BY PayloadsForm DEF IsMessage
  <2> QED BY <2>2, <2>3, SealedItem DEF SegmentOf
<1>2. ASSUME NEW x \in OtherSegments
      PROVE  is_segment(x) /\ ~is_header(x) /\ x.length \in Nat
  <2>1. PICK i, nonce, kind, b : \E masked :
          /\ b \in Seq(Nat)
          /\ x = seal(derive_segment_key(contexts.other, masked), nonce, i, kind, plaintext_of(b))
    BY OtherSegmentsForm
  <2> QED BY <2>1, SealedItem
<1>3. ASSUME NEW x \in AlteredSegments(m)
      PROVE  is_segment(x) /\ ~is_header(x) /\ x.length \in Nat
  BY <1>1, <1>3 DEF AlteredSegments
<1>4. ASSUME NEW x \in {headers.ours} \cup ForgedHeaders
      PROVE  is_header(x) /\ ~is_segment(x)
  <2>1. \A k, p, iv, a : is_header(Header(k, p, iv, a)) /\ ~is_segment(Header(k, p, iv, a))
    BY DEF is_header, is_segment, Header
  <2>2. /\ headers.ours = Header(key, SegmentLength, "iv", aad)
        /\ headers.other = Header(key, SegmentLength, "other iv", aad)
    BY DEF headers
  <2>3. CASE x = [headers.ours EXCEPT !.parameters = SegmentLength + 1]
    <3>1. PICK t : t = derive_message(key, SegmentLength, "iv", aad)
      OBVIOUS
    <3>2. PICK h : h = headers.ours
      OBVIOUS
    <3>3. h = [parameters |-> SegmentLength, iv |-> "iv", tag |-> t]
      BY <2>2, <3>1, <3>2 DEF Header
    <3>4. x = [h EXCEPT !.parameters = SegmentLength + 1]
      BY <2>3, <3>2
    <3>5. DOMAIN x = DOMAIN h
      BY <3>3, <3>4
    <3>6. is_header(h) /\ ~is_segment(h)
      BY <3>3 DEF is_header, is_segment
    <3> QED BY <3>5, <3>6 DEF is_header, is_segment
  <2>4. CASE \E k, p, iv, a : x = Header(k, p, iv, a)
    BY <2>1, <2>4
  <2>5. \/ x = headers.ours \/ x = headers.other
        \/ x = Header("other key", SegmentLength, "iv", aad)
        \/ x = Header(key, SegmentLength, "iv", "other aad")
        \/ x = [headers.ours EXCEPT !.parameters = SegmentLength + 1]
    BY <1>4, Zenon DEF ForgedHeaders
  <2> QED BY <2>2, <2>3, <2>4, <2>5, Zenon
<1> QED BY <1>1, <1>2, <1>3, <1>4

(* Every item that a source may hold has a length. *)
LEMMA ItemsSized ==
    ASSUME NEW m, IsMessage(m)
    PROVE  Sized(Items(m)) /\ Sized(NoForeignSegment(m)) /\ Sized(NoForeignHeader(m))
BY ItemKinds, ParametersAssumption
DEF Sized, length_of_item, Items, NoForeignSegment, NoForeignHeader

(* A message: its header, then its segments. *)
LEMMA MessageItems ==
    ASSUME NEW ctx, NEW m, IsMessageOf(ctx, m), NEW first, NEW items,
           items = message_items(first, m)
    PROVE  /\ items \in Seq({first} \cup OurSegments(m))
           /\ Len(items) = Len(m.segments) + 1
           /\ items[1] = first
           /\ \A i \in 1 .. Len(m.segments) : items[i + 1] = m.segments[i]
<1> DEFINE I == {first} \cup OurSegments(m)
           count == Len(m.segments)
<1>1. count \in Nat \ {0} /\ m.segments = [i \in 1 .. count |-> m.segments[i]]
  BY DEF IsMessageOf
<1>2. PICK s : s = m.segments
  OBVIOUS
<1>3. s \in Seq(I) /\ Len(s) = count
  <2>1. \A i \in 1 .. count : s[i] \in I
    BY <1>2 DEF OurSegments
  <2>2. s = [i \in 1 .. count |-> s[i]]
    BY <1>1, <1>2
  <2> HIDE DEF count, I
  <2>3. [i \in 1 .. count |-> s[i]] \in Seq(I) /\ Len([i \in 1 .. count |-> s[i]]) = count
    BY <1>1, <2>1
  <2> QED BY <2>2, <2>3, Zenon
<1>4. PICK h : h = <<first>>
  OBVIOUS
<1>5. h \in Seq(I) /\ Len(h) = 1 /\ h[1] = first
  BY <1>4
<1>6. items = h \o s
  BY <1>2, <1>4 DEF message_items
<1> HIDE DEF I, count
<1>7. /\ items \in Seq(I) /\ Len(items) = 1 + count
      /\ \A k \in 1 .. 1 + count : items[k] = IF k <= 1 THEN h[k] ELSE s[k - 1]
  <2>1. /\ h \o s \in Seq(I) /\ Len(h \o s) = Len(h) + Len(s)
        /\ \A k \in 1 .. Len(h) + Len(s) : (h \o s)[k] = IF k <= Len(h) THEN h[k] ELSE s[k - Len(h)]
    BY <1>3, <1>5, ConcatProperties
  <2> QED BY <1>3, <1>5, <1>6, <2>1, Zenon
<1>8. items[1] = first
  BY <1>1, <1>5, <1>7
<1>9. ASSUME NEW i \in 1 .. count
      PROVE  items[i + 1] = s[i]
  <2>1. i + 1 \in 1 .. 1 + count /\ ~(i + 1 <= 1) /\ (i + 1) - 1 = i
    BY <1>1
  <2> QED BY <1>7, <2>1
<1> QED BY <1>1, <1>2, <1>7, <1>8, <1>9 DEF I, count

(* A sequence without, or with another, element. *)
LEMMA SplicedSeq ==
    ASSUME NEW I, NEW s \in Seq(I), NEW i \in 1 .. Len(s), NEW x \in I
    PROVE  /\ SubSeq(s, 1, i - 1) \o SubSeq(s, i + 1, Len(s)) \in Seq(I)
           /\ SubSeq(s, 1, i - 1) \o <<x>> \o SubSeq(s, i, Len(s)) \in Seq(I)
           /\ [s EXCEPT ![i] = x] \in Seq(I)
<1>1. Len(s) \in Nat /\ DOMAIN s = 1 .. Len(s)
  BY LenProperties
<1>2. /\ SubSeq(s, 1, i - 1) \in Seq(I) /\ SubSeq(s, i + 1, Len(s)) \in Seq(I)
      /\ SubSeq(s, i, Len(s)) \in Seq(I)
  BY <1>1, SubSeqProperties
<1>3. <<x>> \in Seq(I)
  OBVIOUS
<1>4. SubSeq(s, 1, i - 1) \o SubSeq(s, i + 1, Len(s)) \in Seq(I)
  BY <1>2, ConcatProperties
<1>5. SubSeq(s, 1, i - 1) \o <<x>> \in Seq(I)
  BY <1>2, <1>3, ConcatProperties
<1>6. SubSeq(s, 1, i - 1) \o <<x>> \o SubSeq(s, i, Len(s)) \in Seq(I)
  BY <1>2, <1>5, ConcatProperties
<1>7. [s EXCEPT ![i] = x] \in Seq(I)
  <2>1. s \in [1 .. Len(s) -> I]
    BY <1>1, ElementOfSeq
  <2>2. [s EXCEPT ![i] = x] \in [1 .. Len(s) -> I]
    BY <2>1
  <2> QED BY <1>1, <2>2
<1> QED BY <1>4, <1>6, <1>7

(* Splicing puts no item into a message that is not one of Items. *)
LEMMA SplicedItems ==
    ASSUME NEW m, IsMessage(m), NEW items \in Spliced(message_items(headers.ours, m))
    PROVE  items \in Seq(NoForeignSegment(m)) \/ items \in Seq(NoForeignHeader(m))
<1>1. PICK all : all = message_items(headers.ours, m)
  OBVIOUS
<1> DEFINE I == {headers.ours} \cup OurSegments(m)
<1>2. /\ all \in Seq(I) /\ Len(all) = Len(m.segments) + 1 /\ all[1] = headers.ours
      /\ \A i \in 1 .. Len(m.segments) : all[i + 1] = m.segments[i]
  <2>1. PICK c, h : c = contexts.ours /\ h = headers.ours
    OBVIOUS
  <2>2. IsMessageOf(c, m) /\ all = message_items(h, m)
    BY <1>1, <2>1 DEF IsMessage
  <2>3. /\ all \in Seq({h} \cup OurSegments(m)) /\ Len(all) = Len(m.segments) + 1 /\ all[1] = h
        /\ \A i \in 1 .. Len(m.segments) : all[i + 1] = m.segments[i]
    BY <2>2, MessageItems
  <2> QED BY <2>1, <2>3
<1>3. DOMAIN all = 1 .. Len(all) /\ Len(all) \in Nat /\ \A i \in 1 .. Len(all) : all[i] \in I
  BY <1>2, LenProperties, ElementOfSeq
<1>4. all \in Seq(NoForeignSegment(m)) /\ all \in Seq(NoForeignHeader(m))
  <2>1. I \subseteq NoForeignSegment(m) /\ I \subseteq NoForeignHeader(m)
    BY DEF NoForeignSegment, NoForeignHeader
  <2> HIDE DEF I
  <2> QED BY <1>2, <2>1, SeqMonotonic
<1>5. Seq(I) \subseteq Seq(NoForeignHeader(m))
  <2>1. I \subseteq NoForeignHeader(m)
    BY DEF NoForeignHeader
  <2> HIDE DEF I
  <2> QED BY <2>1, SeqMonotonic
<1> HIDE DEF I
<1>6. CASE items \in {RemoveAt(all, i) : i \in DOMAIN all}
  <2>1. PICK i \in 1 .. Len(all) : items = RemoveAt(all, i)
    BY <1>3, <1>6
  <2>2. items = SubSeq(all, 1, i - 1) \o SubSeq(all, i + 1, Len(all))
    BY <2>1 DEF RemoveAt
  <2>3. all[i] \in I
    BY <1>3
  <2>4. items \in Seq(I)
    BY <1>2, <2>2, <2>3, SplicedSeq
  <2> QED BY <1>5, <2>4
<1>7. CASE items \in {InsertAt(all, i, all[i]) : i \in DOMAIN all}
  <2>1. PICK i \in 1 .. Len(all) : items = InsertAt(all, i, all[i])
    BY <1>3, <1>7
  <2>2. PICK x : x = all[i]
    OBVIOUS
  <2>3. items = SubSeq(all, 1, i - 1) \o <<x>> \o SubSeq(all, i, Len(all))
    BY <2>1, <2>2 DEF InsertAt
  <2>4. x \in I
    BY <1>3, <2>2
  <2>5. items \in Seq(I)
    BY <1>2, <2>3, <2>4, SplicedSeq
  <2> QED BY <1>5, <2>5
<1>8. CASE items \in {[all EXCEPT ![i] = all[j], ![j] = all[i]] : i, j \in DOMAIN all}
  <2>1. PICK i \in 1 .. Len(all), j \in 1 .. Len(all) :
          items = [all EXCEPT ![i] = all[j], ![j] = all[i]]
    BY <1>3, <1>8
  <2>2. PICK x, y : x = all[i] /\ y = all[j]
    OBVIOUS
  <2>3. x \in I /\ y \in I
    BY <1>3, <2>2
  <2>4. PICK half : half = [all EXCEPT ![i] = y]
    OBVIOUS
  <2>5. half \in Seq(I)
    BY <1>2, <2>3, <2>4, SplicedSeq
  <2>6. Len(half) = Len(all) /\ items = [half EXCEPT ![j] = x]
    BY <1>2, <1>3, <2>1, <2>2, <2>4
  <2>7. items \in Seq(I)
    BY <2>3, <2>5, <2>6, SplicedSeq
  <2> QED BY <1>5, <2>7
<1>9. CASE \E i \in DOMAIN all : \E x \in Forged(all[i], i - 1) : items = [all EXCEPT ![i] = x]
  <2>1. PICK i \in 1 .. Len(all) : \E x \in Forged(all[i], i - 1) : items = [all EXCEPT ![i] = x]
    BY <1>3, <1>9
  <2>2. PICK x \in Forged(all[i], i - 1) : items = [all EXCEPT ![i] = x]
    BY <2>1
  <2>3. CASE i = 1
    <3>1. all[i] = headers.ours /\ is_header(headers.ours)
      BY <1>2, <2>3, ItemKinds
    <3>2. x \in ForgedHeaders
      BY <2>2, <3>1 DEF Forged, ForgedHeaders
    <3>3. x \in NoForeignSegment(m)
      BY <3>2 DEF NoForeignSegment
    <3> QED BY <1>4, <2>2, <3>3, SplicedSeq
  <2>4. CASE i # 1
    <3>1. PICK j \in 1 .. Len(m.segments) : i = j + 1
      <4>1. i - 1 \in 1 .. Len(m.segments) /\ i = (i - 1) + 1
        BY <1>2, <2>4 DEF IsMessage, IsMessageOf
      <4> QED BY <4>1
    <3>2. all[i] = m.segments[j] /\ m.segments[j] \in OurSegments(m)
      BY <1>2, <3>1 DEF OurSegments
    <3>3. ~is_header(all[i])
      BY <3>2, ItemKinds
    <3>4. DOMAIN other.segments = 1 .. 2
      BY OtherIsMessage DEF IsMessageOf
    <3>5. x \in Altered(all[i], {SEGMENT_OVERHEAD, SegmentLength}) \/ x \in OtherSegments
      BY <2>2, <3>3, <3>4 DEF Forged, OtherSegments
    <3>6. x \in NoForeignHeader(m)
      BY <3>2, <3>5 DEF NoForeignHeader, AlteredSegments
    <3> QED BY <1>4, <2>2, <3>6, SplicedSeq
  <2> QED BY <2>3, <2>4
<1> QED BY <1>1, <1>6, <1>7, <1>8, <1>9 DEF Spliced

-----------------------------------------------------------------------------
(* The bytes of a message. *)

(* Where a segment starts in its message, and where the i-th ends. *)
Offset(i) == HEADER_LENGTH + (i - 1) * SegmentLength

(* The bytes of a message: its header, full segments, and the last one.    *)
IsWhole(w, first, m) ==
    LET count == Len(m.segments)
    IN  /\ w \in Seq(BytesOf({first} \cup OurSegments(m)))
        /\ Len(w) = Offset(count) + m.segments[count].length
        /\ Len(w) \in Nat /\ Len(w) >= HEADER_LENGTH
        /\ Slice(w, 0, HEADER_LENGTH) = header_bytes(first)
        /\ \A i \in 1 .. count : /\ Offset(i) \in Nat
                                 /\ Offset(i) + m.segments[i].length <= Len(w)
                                 /\ Slice(w, Offset(i), m.segments[i].length)
                                      = segment_bytes(m.segments[i])

(* Two sequences of one length with equal elements. *)
LEMMA EqualSeqs ==
    ASSUME NEW S, NEW T, NEW s \in Seq(S), NEW t \in Seq(T), Len(s) = Len(t),
           \A k \in 1 .. Len(s) : s[k] = t[k]
    PROVE  s = t
<1>1. s = [k \in 1 .. Len(s) |-> s[k]] /\ t = [k \in 1 .. Len(t) |-> t[k]]
  BY LenProperties
<1> QED BY <1>1

(* What stands at a place of a running concatenation stays there. *)
StandsIn(f, seqs, n, i, j) ==
    /\ Len(f[i]) \in Nat /\ Len(seqs[j]) \in Nat /\ Len(f[i]) + Len(seqs[j]) <= Len(f[n])
    /\ Slice(f[n], Len(f[i]), Len(seqs[j])) = seqs[j]

LEMMA ConcatenationSlice ==
    ASSUME NEW S, NEW seqs, NEW n \in Nat, NEW f, Concatenation(f, seqs, n),
           \A i \in 1 .. n : seqs[i] \in Seq(S), NEW i \in 1 .. n, NEW j \in 1 .. n, j = i + 1
    PROVE  StandsIn(f, seqs, n, i, j)
<1>0. PICK start, size : start = Len(f[i]) /\ size = Len(seqs[j])
  OBVIOUS
<1>1. Extends(f, seqs, i, j)
  BY ConcatenationStep
<1>2. n \in 1 .. n /\ j <= n
  OBVIOUS
<1>3. StartsAs(f, j, n)
  BY <1>2, ConcatenationPrefix
<1>4. f[n] \in Seq(S) /\ seqs[j] \in Seq(S) /\ Len(f[n]) \in Nat
  BY <1>2, ConcatenationType, LenProperties
<1>5. start \in Nat /\ size \in Nat /\ Len(f[j]) = start + size
  BY <1>0, <1>1 DEF Extends
<1>6. start + size <= Len(f[n])
  BY <1>3, <1>5 DEF StartsAs
<1>7. PICK t \in Seq(S), a \in Nat, l \in Nat : t = f[n] /\ a = start /\ l = size
  BY <1>4, <1>5
<1>71. PICK w : w = Slice(t, a, l)
  OBVIOUS
<1>72. a + l <= Len(t)
  BY <1>6, <1>7
<1>8. w \in Seq(S) /\ Len(w) = l /\ \A k \in 1 .. l : w[k] = t[a + k]
  BY <1>71, <1>72, SliceOf
<1>9. ASSUME NEW k \in 1 .. l PROVE w[k] = seqs[j][k]
  <2>0. start + k = a + k /\ k \in 1 .. Len(seqs[j])
    BY <1>0, <1>7
  <2>1. start + k \in 1 .. Len(f[j])
    <3>1. a + k \in 1 .. a + l
      OBVIOUS
    <3> QED BY <1>5, <1>7, <3>1
  <2>2. t[start + k] = f[j][start + k]
    BY <1>3, <1>7, <2>1 DEF StartsAs
  <2>3. f[j][start + k] = seqs[j][k]
    BY <1>0, <1>1, <2>0 DEF Extends
  <2> QED BY <1>8, <2>0, <2>2, <2>3
<1>10. w = seqs[j]
  <2>1. PICK y \in Seq(S) : y = seqs[j]
    BY <1>4
  <2>2. Len(w) = Len(y) /\ \A k \in 1 .. Len(w) : w[k] = y[k]
    BY <1>0, <1>7, <1>8, <1>9, <2>1
  <2>3. w = y
    BY <1>8, <2>2, EqualSeqs
  <2> QED BY <2>1, <2>3
<1> QED BY <1>0, <1>5, <1>6, <1>7, <1>71, <1>10 DEF StandsIn

(* The bytes of a message. *)
LEMMA WholeForm ==
    ASSUME NEW ctx, NEW m, IsMessageOf(ctx, m), NEW first, is_header(first)
    PROVE  IsWhole(bytes_of_items(message_items(first, m)), first, m)
<1> DEFINE I == {first} \cup OurSegments(m)
           count == Len(m.segments)
<1>1. PICK items : items = message_items(first, m)
  OBVIOUS
<1>2. /\ items \in Seq(I) /\ Len(items) = count + 1 /\ items[1] = first
      /\ \A i \in 1 .. count : items[i + 1] = m.segments[i]
  BY <1>1, MessageItems
<1>3. count \in Nat \ {0} /\ HEADER_LENGTH \in Nat \ {0} /\ SegmentLength \in Nat \ {0}
  BY MessageNumbers, ParametersAssumption
<1>4. items # <<>>
  BY <1>2, <1>3, EmptySeq
<1>5. \A i \in 1 .. count : /\ length_of_item(m.segments[i]) = m.segments[i].length
                            /\ bytes_of_item(m.segments[i]) = segment_bytes(m.segments[i])
                            /\ m.segments[i].length \in Nat
                            /\ i # count => m.segments[i].length = SegmentLength
  <2> SUFFICES ASSUME NEW i \in 1 .. count, NEW x, x = m.segments[i]
               PROVE  /\ length_of_item(x) = x.length /\ bytes_of_item(x) = segment_bytes(x)
                      /\ x.length \in Nat /\ (i # count => x.length = SegmentLength)
    OBVIOUS
  <2>1. IsSealed(x)
    BY KeysOf
  <2>2. ~is_header(x)
    BY <2>1, SealedIsSegment
  <2>3. x.length \in Nat /\ (i # count => x.length = SegmentLength)
    BY SegmentSize DEF KindOf
  <2> QED BY <2>2, <2>3 DEF length_of_item, bytes_of_item
<1>6. length_of_item(first) = HEADER_LENGTH /\ bytes_of_item(first) = header_bytes(first)
  BY DEF length_of_item, bytes_of_item
<1>7. Sized(I)
  BY <1>3, <1>5, <1>6 DEF Sized, OurSegments
<1>8. PICK n \in Nat : n = count + 1
  BY <1>3
<1>9. PICK seqs, f : /\ seqs = [i \in 1 .. n |-> bytes_of_item(items[i])]
                     /\ Concatenation(f, seqs, n)
                     /\ bytes_of_items(items) = f[n]
  BY <1>2, <1>4, <1>8, ItemsConcatenate
<1> HIDE DEF I
<1>10. \A i \in 1 .. n : items[i] \in I /\ seqs[i] = bytes_of_item(items[i])
  BY <1>2, <1>8, <1>9, ElementOfSeq
<1>11. \A i \in 1 .. n : seqs[i] \in Seq(BytesOf(I)) /\ Len(seqs[i]) = length_of_item(items[i])
  <2> SUFFICES ASSUME NEW i \in 1 .. n
               PROVE  seqs[i] \in Seq(BytesOf(I)) /\ Len(seqs[i]) = length_of_item(items[i])
    OBVIOUS
  <2>1. /\ bytes_of_item(items[i]) \in Seq(BytesOf(I))
        /\ Len(bytes_of_item(items[i])) = length_of_item(items[i])
    BY <1>7, <1>10, ItemBytes
  <2> QED BY <1>10, <2>1
<1>12. 1 \in 1 .. n /\ n \in 1 .. n /\ n > 1 /\ n - 1 = count
  BY <1>3, <1>8
<1>13. seqs[1] = header_bytes(first) /\ Len(seqs[1]) = HEADER_LENGTH
  BY <1>2, <1>6, <1>10, <1>11, <1>12
<1>14. ASSUME NEW j \in 1 .. count
       PROVE  /\ seqs[j + 1] = segment_bytes(m.segments[j])
              /\ Len(seqs[j + 1]) = m.segments[j].length
  <2>1. j + 1 \in 1 .. n
    BY <1>3, <1>8
  <2> QED BY <1>2, <1>5, <1>10, <1>11, <2>1
<1>15. \A i \in 2 .. n - 1 : Len(seqs[i]) = SegmentLength
  <2> SUFFICES ASSUME NEW i \in 2 .. n - 1
               PROVE  Len(seqs[i]) = SegmentLength
    OBVIOUS
  <2>1. PICK j \in 1 .. count : i = j + 1 /\ j # count
    <3>1. i - 1 \in 1 .. count /\ i = (i - 1) + 1 /\ i - 1 # count
      BY <1>3, <1>8
    <3> QED BY <3>1
  <2> QED BY <1>5, <1>14, <2>1
<1>16. PICK h, p \in Nat : h = HEADER_LENGTH /\ p = SegmentLength
  BY <1>3
<1>17. FullBefore(f, seqs, n, h, p)
  BY <1>9, <1>11, <1>12, <1>13, <1>15, <1>16, ConcatenationLength
<1>18. PICK w : w = f[n]
  OBVIOUS
<1>19. w \in Seq(BytesOf(I)) /\ Len(w) \in Nat
  BY <1>9, <1>11, <1>12, <1>18, ConcatenationType, LenProperties
<1>20. ASSUME NEW i \in 1 .. count
       PROVE  /\ Offset(i) \in Nat
              /\ Offset(i) + m.segments[i].length <= Len(w)
              /\ Slice(w, Offset(i), m.segments[i].length) = segment_bytes(m.segments[i])
  <2>1. PICK k \in Nat : k + 1 = i
    <3>1. i - 1 \in Nat /\ (i - 1) + 1 = i
      BY <1>3
    <3> QED BY <3>1
  <2>2. k + 1 <= n - 1 /\ i \in 1 .. n /\ i + 1 \in 1 .. n /\ k = i - 1
    BY <1>3, <1>8, <2>1
  <2>3. Len(f[i]) = h + k * p
    BY <1>17, <2>1, <2>2 DEF FullBefore
  <2>4. Len(f[i]) = Offset(i)
    BY <1>16, <2>2, <2>3 DEF Offset
  <2>5. PICK j \in 1 .. n : j = i + 1
    BY <2>2
  <2>6. seqs[j] = segment_bytes(m.segments[i]) /\ Len(seqs[j]) = m.segments[i].length
    BY <1>14, <2>5
  <2>7. PICK start, size : start = Len(f[i]) /\ size = Len(seqs[j])
    OBVIOUS
  <2>8. /\ start \in Nat /\ size \in Nat /\ start + size <= Len(f[n])
        /\ Slice(f[n], start, size) = seqs[j]
    <3>1. \A a \in 1 .. n : seqs[a] \in Seq(BytesOf(I))
      BY <1>11
    <3>2. StandsIn(f, seqs, n, i, j)
      BY <1>9, <2>2, <2>5, <3>1, ConcatenationSlice
    <3> QED BY <2>7, <3>2 DEF StandsIn
  <2> QED BY <1>18, <2>4, <2>6, <2>7, <2>8
<1>21. Len(w) = Offset(count) + m.segments[count].length
  <2>1. count \in 1 .. count /\ n = count + 1 /\ n - 2 = count - 1
    BY <1>3, <1>8
  <2>2. Len(seqs[n]) = m.segments[count].length
    BY <1>14, <2>1
  <2>3. Len(f[n]) = h + (n - 2) * p + Len(seqs[n])
    BY <1>17 DEF FullBefore
  <2> QED BY <1>16, <1>18, <2>1, <2>2, <2>3 DEF Offset
<1>22. Len(w) >= HEADER_LENGTH /\ Slice(w, 0, HEADER_LENGTH) = header_bytes(first)
  <2>1. PICK one \in 1 .. n : one = 1
    BY <1>12
  <2>2. StartsAs(f, one, n)
    BY <1>9, <1>11, <1>12, <2>1, ConcatenationPrefix
  <2>3. f[1] = seqs[1]
    BY <1>9, <1>12 DEF Concatenation
  <2>4. HEADER_LENGTH <= Len(w) /\ \A k \in 1 .. HEADER_LENGTH : w[k] = seqs[1][k]
    BY <1>13, <1>18, <2>1, <2>2, <2>3 DEF StartsAs
  <2>5. PICK z \in Nat : z = 0
    OBVIOUS
  <2>6. PICK b : b = Slice(w, z, h)
    OBVIOUS
  <2>7. b \in Seq(BytesOf(I)) /\ Len(b) = h /\ \A k \in 1 .. h : b[k] = w[z + k]
    BY <1>16, <1>19, <2>4, <2>5, <2>6, SliceOf
  <2>8. \A k \in 1 .. h : b[k] = seqs[1][k]
    BY <1>16, <2>4, <2>5, <2>7
  <2>9. b = seqs[1]
    BY <1>11, <1>12, <1>13, <1>16, <2>7, <2>8, EqualSeqs
  <2> QED BY <1>3, <1>13, <1>16, <1>19, <2>4, <2>5, <2>6, <2>9
<1> QED BY <1>1, <1>9, <1>18, <1>19, <1>20, <1>21, <1>22 DEF IsWhole, I

-----------------------------------------------------------------------------
(* The subject and its unaltered bytes. *)

(* The segments of the subject: all but the last are full. *)
LEMMA SegmentsForm ==
    ASSUME NEW m, IsMessage(m), NEW i \in 1 .. Len(m.segments)
    PROVE  /\ PayloadOf(m, i) \in Seq(Nat)
           /\ Len(PayloadOf(m, i)) \in 0 .. capacity
           /\ i # Len(m.segments) => Len(PayloadOf(m, i)) = capacity
           /\ i = Len(m.segments) => Len(PayloadOf(m, i)) = Len(m.bytes) - (i - 1) * capacity
           /\ (i - 1) * capacity + Len(PayloadOf(m, i)) <= Len(m.bytes)
BY PayloadsForm DEF IsMessage

(* What a sealed segment of the subject carries. *)
LEMMA OurKeys ==
    ASSUME NEW m, IsMessage(m), NEW j \in 1 .. Len(m.segments), NEW x, x = m.segments[j]
    PROVE  /\ x.key = derive_segment_key(contexts.ours, masked_position(j - 1))
           /\ x.position = j - 1 /\ x.kind = KindOf(m, j)
           /\ x.plaintext = plaintext_of(PayloadOf(m, j))
           /\ x.length = SEGMENT_OVERHEAD + Len(PayloadOf(m, j))
           /\ x.prefix = segment_prefix(KindOf(m, j), x.length)
           /\ IsSealed(x)
BY KeysOf DEF IsMessage

(* The bytes of the subject. *)
LEMMA IntactIsWhole ==
    ASSUME NEW m, IsMessage(m)
    PROVE  IsWhole(intact(m), headers.ours, m)
<1>1. is_header(headers.ours)
  BY DEF headers, Header, is_header
<1>2. PICK c, h : c = contexts.ours /\ h = headers.ours
  OBVIOUS
<1>3. IsMessageOf(c, m) /\ is_header(h)
  BY <1>1, <1>2 DEF IsMessage
<1>4. IsWhole(bytes_of_items(message_items(h, m)), h, m)
  BY <1>3, WholeForm
<1> QED BY <1>2, <1>4 DEF intact

(* The bytes of the other message. *)
LEMMA OtherIsWhole == IsWhole(other_bytes, headers.other, other)
<1>1. is_header(headers.other)
  BY DEF headers, Header, is_header
<1>2. PICK c, h, o : c = contexts.other /\ h = headers.other /\ o = other
  OBVIOUS
<1>3. IsMessageOf(c, o) /\ is_header(h)
  BY <1>1, <1>2, OtherIsMessage
<1>4. IsWhole(bytes_of_items(message_items(h, o)), h, o)
  BY <1>3, WholeForm
<1> QED BY <1>2, <1>4 DEF other_bytes

(* The unaltered message: its length, and that its header comes first. *)
LEMMA IntactForm ==
    ASSUME NEW m, IsMessage(m)
    PROVE  LET count == Len(m.segments)
           IN  /\ intact(m) \in Seq(BytesOf({headers.ours} \cup OurSegments(m)))
               /\ Len(intact(m)) = HEADER_LENGTH + (count - 1) * SegmentLength
                                     + SEGMENT_OVERHEAD + Len(PayloadOf(m, count))
               /\ Len(intact(m)) \in Nat /\ Len(intact(m)) >= HEADER_LENGTH
               /\ \A k \in 1 .. HEADER_LENGTH : intact(m)[k].item = headers.ours
<1>1. PICK w, h, count : w = intact(m) /\ h = headers.ours /\ count = Len(m.segments)
  OBVIOUS
<1>2. IsWhole(w, h, m)
  BY <1>1, IntactIsWhole
<1>3. count \in Nat \ {0} /\ count \in 1 .. count /\ SegmentLength \in Nat /\ SEGMENT_OVERHEAD \in Nat
  BY <1>1, MessageNumbers DEF IsMessage
<1>4. PICK x, l : x = m.segments[count] /\ l = Len(PayloadOf(m, count))
  OBVIOUS
<1>41. l \in Nat
  <2>1. l \in 0 .. capacity
    BY <1>1, <1>3, <1>4, SegmentsForm
  <2> QED BY <2>1
<1>5. x.length = SEGMENT_OVERHEAD + l
  BY <1>1, <1>3, <1>4, OurKeys
<1>6. PICK b \in Nat : b = (count - 1) * SegmentLength
  BY <1>3
<1>7. HEADER_LENGTH \in Nat
  BY ParametersAssumption
<1>8. Len(w) = HEADER_LENGTH + b + (SEGMENT_OVERHEAD + l)
  BY <1>1, <1>2, <1>4, <1>5, <1>6 DEF IsWhole, Offset
<1>9. Len(w) = HEADER_LENGTH + b + SEGMENT_OVERHEAD + l
  BY <1>3, <1>41, <1>7, <1>8
<1>10. /\ w \in Seq(BytesOf({h} \cup OurSegments(m))) /\ Len(w) \in Nat
       /\ Len(w) >= HEADER_LENGTH /\ Slice(w, 0, HEADER_LENGTH) = header_bytes(h)
  BY <1>2 DEF IsWhole
<1>11. ASSUME NEW k \in 1 .. HEADER_LENGTH PROVE w[k].item = h
  <2>1. PICK size \in Nat : size = HEADER_LENGTH
    BY <1>7
  <2>2. header_bytes(h)[k] = [item |-> h, at |-> k, of |-> size]
    BY <2>1 DEF header_bytes, bytes_of
  <2>3. PICK z, B : z = 0 /\ z \in Nat /\ B = BytesOf({h} \cup OurSegments(m))
    OBVIOUS
  <2>31. w \in Seq(B) /\ z + size <= Len(w)
    BY <1>10, <2>1, <2>3
  <2>4. \A i \in 1 .. size : Slice(w, z, size)[i] = w[z + i]
    BY <2>3, <2>31, SliceOf
  <2>5. w[z + k] = header_bytes(h)[k] /\ z + k = k
    BY <1>10, <2>1, <2>3, <2>4
  <2> QED BY <2>2, <2>5
<1> QED BY <1>1, <1>4, <1>6, <1>9, <1>10, <1>11

-----------------------------------------------------------------------------
(* The sources a reader may be put on. *)

(* A source is made of the items; if the header at its start can be of the *)
(* other message, none of its segments can.                                *)
GoodSource(src, start, m) ==
    /\ src \in Seq(BytesOf(Items(m)) \cup {junk[1]})
    /\ \/ src \in Seq(BytesOf(NoForeignSegment(m)) \cup {junk[1]})
       \/ src \in Seq(BytesOf(NoForeignHeader(m)) \cup {junk[1]})
       \/ /\ start = 0
          /\ \A k \in 1 .. HEADER_LENGTH : k <= Len(src) => src[k].item = headers.ours

(* More items have more bytes. *)
LEMMA MoreBytes ==
    ASSUME NEW I, NEW J, I \subseteq J
    PROVE  Seq(BytesOf(I)) \subseteq Seq(BytesOf(J) \cup {junk[1]})
<1>1. BytesOf(I) \subseteq BytesOf(J) \cup {junk[1]}
  BY DEF BytesOf
<1> QED BY <1>1, SeqMonotonic

(* The items of a message are among those its sources may hold. *)
LEMMA MoreItems ==
    ASSUME NEW m
    PROVE  /\ {headers.ours} \cup OurSegments(m) \subseteq NoForeignHeader(m)
           /\ NoForeignSegment(m) \subseteq Items(m) /\ NoForeignHeader(m) \subseteq Items(m)
           /\ {headers.other} \cup OtherSegments \subseteq Items(m)
BY DEF NoForeignSegment, NoForeignHeader, Items, ForgedHeaders

(* A source without a foreign header. *)
LEMMA HonestHeader ==
    ASSUME NEW m, NEW start, NEW src, src \in Seq(BytesOf(NoForeignHeader(m)) \cup {junk[1]})
    PROVE  GoodSource(src, start, m)
<1>1. BytesOf(NoForeignHeader(m)) \subseteq BytesOf(Items(m))
  BY MoreItems DEF BytesOf
<1>2. src \in Seq(BytesOf(Items(m)) \cup {junk[1]})
  BY <1>1, SeqMonotonic
<1> QED BY <1>2 DEF GoodSource

(* The bytes of the other message are those of its items. *)
LEMMA OtherBytes == other_bytes \in Seq(BytesOf({headers.other} \cup OtherSegments))
<1>1. OtherSegments = OurSegments(other)
  BY OtherIsMessage DEF OtherSegments, OurSegments
<1> QED BY <1>1, OtherIsWhole DEF IsWhole

(* One byte of junk. *)
LEMMA JunkForm == junk \in Seq({junk[1]}) /\ Len(junk) = 1
<1> DEFINE f == [k \in 1 .. 1 |-> [item |-> [junk |-> TRUE], at |-> k, of |-> 1]]
<1>1. junk = f
  BY DEF junk, bytes_of
<1>2. f[1] = f[1] /\ \A k \in 1 .. 1 : f[k] \in {f[1]}
  OBVIOUS
<1>3. f = [k \in 1 .. 1 |-> f[k]] /\ DOMAIN f = 1 .. 1
  OBVIOUS
<1> HIDE DEF f
<1>4. PICK x : x = f[1]
  OBVIOUS
<1>5. f \in Seq({x})
  BY <1>2, <1>3, <1>4
<1>6. Len(f) = 1
  BY <1>3, <1>5, LenProperties
<1> QED BY <1>1, <1>4, <1>5, <1>6

(* What storage may make of a message is a source. *)
LEMMA HeldSources ==
    ASSUME NEW m, IsMessage(m), NEW src \in Held(m)
    PROVE  GoodSource(src, 0, m)
<1> DEFINE I == {headers.ours} \cup OurSegments(m)
           B == BytesOf(NoForeignHeader(m)) \cup {junk[1]}
<1>1. /\ intact(m) \in Seq(BytesOf(I)) /\ Len(intact(m)) \in Nat
      /\ Len(intact(m)) >= HEADER_LENGTH
      /\ \A k \in 1 .. HEADER_LENGTH : intact(m)[k].item = headers.ours
  BY IntactForm
<1>2. intact(m) \in Seq(B)
  <2>1. I \subseteq NoForeignHeader(m)
    BY MoreItems
  <2> HIDE DEF I
  <2> QED BY <1>1, <2>1, MoreBytes
<1>3. CASE \E items \in Spliced(message_items(headers.ours, m)) : src = bytes_of_items(items)
  <2>1. PICK items \in Spliced(message_items(headers.ours, m)) : src = bytes_of_items(items)
    BY <1>3
  <2>2. CASE items \in Seq(NoForeignHeader(m))
    <3>1. src \in Seq(BytesOf(NoForeignHeader(m)))
      BY <2>1, <2>2, ItemsSized, ItemsBytes
    <3>2. src \in Seq(B)
      BY <3>1, MoreBytes
    <3> QED BY <3>2, HonestHeader
  <2>3. CASE items \in Seq(NoForeignSegment(m))
    <3>1. src \in Seq(BytesOf(NoForeignSegment(m)))
      BY <2>1, <2>3, ItemsSized, ItemsBytes
    <3>2. src \in Seq(BytesOf(NoForeignSegment(m)) \cup {junk[1]})
      BY <3>1, MoreBytes
    <3>3. src \in Seq(BytesOf(Items(m)) \cup {junk[1]})
      BY <3>1, MoreBytes, MoreItems
    <3> QED BY <3>2, <3>3 DEF GoodSource
  <2> QED BY <2>2, <2>3, SplicedItems
<1>4. CASE \E n \in 0 .. Len(intact(m)) : src = Slice(intact(m), 0, n)
  <2>1. PICK n \in 0 .. Len(intact(m)) : src = Slice(intact(m), 0, n)
    BY <1>4
  <2>2. PICK z \in Nat : z = 0
    OBVIOUS
  <2>3. n \in Nat /\ z + n <= Len(intact(m))
    BY <1>1, <2>2
  <2> HIDE DEF B
  <2>4. Slice(intact(m), z, n) \in Seq(B)
    BY <1>2, <2>3, SliceOf
  <2>5. src \in Seq(B)
    BY <2>1, <2>2, <2>4
  <2> QED BY <2>5, HonestHeader DEF B
<1>5. CASE src = intact(m) \o junk
  <2>1. junk \in Seq(B)
    BY JunkForm, SeqMonotonic
  <2> HIDE DEF B
  <2>2. src \in Seq(B)
    BY <1>2, <1>5, <2>1, ConcatProperties
  <2> QED BY <2>2, HonestHeader DEF B
<1>6. CASE src = intact(m) \o other_bytes
  <2> DEFINE A == BytesOf(Items(m)) \cup {junk[1]}
  <2>1. other_bytes \in Seq(A)
    <3>1. {headers.other} \cup OtherSegments \subseteq Items(m)
      BY MoreItems
    <3> QED BY <3>1, OtherBytes, MoreBytes
  <2>2. intact(m) \in Seq(A)
    <3>1. I \subseteq Items(m)
      BY MoreItems
    <3> HIDE DEF I
    <3> QED BY <1>1, <3>1, MoreBytes
  <2> HIDE DEF A, I, B
  <2>3. PICK a, b : a = intact(m) /\ b = other_bytes
    OBVIOUS
  <2>4. /\ src \in Seq(A)
        /\ \A k \in 1 .. Len(a) + Len(b) : src[k] = IF k <= Len(a) THEN a[k] ELSE b[k - Len(a)]
    BY <1>6, <2>1, <2>2, <2>3, ConcatProperties
  <2>5. Len(b) \in Nat /\ Len(a) \in Nat /\ Len(a) >= HEADER_LENGTH /\ HEADER_LENGTH \in Nat
    BY <1>1, <2>1, <2>3, LenProperties, ParametersAssumption
  <2>6. \A k \in 1 .. HEADER_LENGTH : src[k].item = headers.ours
    <3> SUFFICES ASSUME NEW k \in 1 .. HEADER_LENGTH
                 PROVE  src[k].item = headers.ours
      OBVIOUS
    <3>1. k \in 1 .. Len(a) + Len(b) /\ k <= Len(a)
      BY <2>5
    <3>2. src[k] = a[k]
      BY <2>4, <3>1
    <3> QED BY <1>1, <2>3, <3>2
  <2> QED BY <2>4, <2>6 DEF GoodSource, A
<1> QED BY <1>3, <1>4, <1>5, <1>6 DEF Held

-----------------------------------------------------------------------------
(* Bytes of a source. *)

(* A byte of a source is a byte of an item, or junk, which is neither a    *)
(* header nor a segment.                                                   *)
LEMMA ByteFields ==
    ASSUME NEW I, NEW b \in BytesOf(I) \cup {junk[1]}, is_header(b.item) \/ is_segment(b.item)
    PROVE  b.item \in I /\ b.of = length_of_item(b.item)
<1>1. CASE b \in BytesOf(I)
  BY <1>1 DEF BytesOf
<1>2. CASE b = junk[1]
  <2>1. junk[1] = [item |-> [junk |-> TRUE], at |-> 1, of |-> 1]
    BY DEF junk, bytes_of
  <2>2. b.item = [junk |-> TRUE]
    BY <1>2, <2>1
  <2>3. DOMAIN b.item = {"junk"}
    BY <2>2
  <2> QED BY <2>3 DEF is_header, is_segment
<1> QED BY <1>1, <1>2

(* The segment found in so many bytes is one of the items, all of whose    *)
(* bytes they are, or does not open.                                       *)
Found(bytes, I, x) ==
    \/ x.damaged
    \/ x \in I /\ is_segment(x) /\ bytes = segment_bytes(x)

(* Bytes that were read are a whole segment or do not open. *)
LEMMA SegmentFound ==
    ASSUME NEW I, Sized(I), \A x \in I : is_segment(x) => ~is_header(x),
           NEW bytes \in Seq(BytesOf(I) \cup {junk[1]})
    PROVE  /\ Found(bytes, I, segment_in(bytes))
           /\ segment_in(bytes).length = Len(bytes)
<1>1. CASE is_whole(bytes) /\ is_segment(bytes[1].item)
  <2>1. Len(bytes) \in Nat /\ Len(bytes) # 0
    BY <1>1, LenProperties, EmptySeq DEF is_whole, is_start
  <2>2. PICK b : b = bytes[1]
    OBVIOUS
  <2>3. b \in BytesOf(I) \cup {junk[1]}
    BY <2>1, <2>2, ElementOfSeq
  <2>4. PICK x : x = b.item
    OBVIOUS
  <2>5. x \in I /\ b.of = length_of_item(x) /\ is_segment(x)
    BY <1>1, <2>2, <2>3, <2>4, ByteFields
  <2>6. b.of = x.length /\ Len(bytes) = x.length
    BY <1>1, <2>2, <2>5 DEF is_whole, length_of_item
  <2>7. b \in BytesOf(I)
    <3>1. DOMAIN junk[1].item = {"junk"}
      <4>1. junk[1] = [item |-> [junk |-> TRUE], at |-> 1, of |-> 1]
        BY DEF junk, bytes_of
      <4> QED BY <4>1
    <3> QED BY <2>3, <2>4, <2>5, <3>1 DEF is_segment
  <2>8. PICK y \in I, a \in Nat : b = [item |-> y, at |-> a, of |-> length_of_item(y)]
    BY <2>7 DEF BytesOf
  <2>9. b = [item |-> x, at |-> a, of |-> x.length]
    BY <2>4, <2>6, <2>8
  <2>10. \A k \in 1 .. Len(bytes) : bytes[k] = [item |-> x, at |-> k, of |-> x.length]
    <3> SUFFICES ASSUME NEW k \in 1 .. Len(bytes)
                 PROVE  bytes[k] = [item |-> x, at |-> k, of |-> x.length]
      OBVIOUS
    <3>1. bytes[k] = [b EXCEPT !.at = k]
      BY <1>1, <2>2 DEF is_whole, is_start
    <3> QED BY <2>9, <3>1
  <2>11. bytes = [k \in 1 .. Len(bytes) |-> bytes[k]]
    BY LenProperties
  <2>12. bytes = segment_bytes(x)
    BY <2>6, <2>10, <2>11 DEF segment_bytes, bytes_of
  <2>13. segment_in(bytes) = x
    BY <1>1, <2>2, <2>4 DEF segment_in
  <2> QED BY <2>5, <2>6, <2>12, <2>13 DEF Found
<1>2. CASE ~(is_whole(bytes) /\ is_segment(bytes[1].item))
  <2>1. segment_in(bytes) = [prefix |-> prefix_in(bytes), length |-> Len(bytes), damaged |-> TRUE]
    BY <1>2 DEF segment_in, garbled
  <2> QED BY <2>1 DEF Found
<1> QED BY <1>1, <1>2

-----------------------------------------------------------------------------
(* What opens. *)

(* A segment that opens has the key of its position. *)
LEMMA OpenedSegment ==
    ASSUME NEW ctx, NEW keys, LabelledCache(keys, ctx), NEW x, NEW i \in Nat, NEW kind,
           NEW room, NEW fault, NEW o,
           o = decrypt_segment_at(keys, ctx, x, i, kind, room, fault)
    PROVE  /\ LabelledCache(o.state, ctx)
           /\ o.ok \in BOOLEAN
           /\ o.ok => /\ validate_segment(ctx.parameters, x, kind)
                      /\ opens(derive_segment_key(ctx, masked_position(i)), x, i, kind)
                      /\ o.plaintext = x.plaintext
<1> DEFINE found == key_cache_after(keys, ctx, i, fault)
<1>1. LabelledCache(found, ctx)
  BY CacheStaysLabelled
<1>2. \/ \E e : o = Failed(keys, e)
      \/ \E e : o = Failed(found, e)
      \/ /\ validate_segment(ctx.parameters, x, kind)
         /\ key_for_position_ok(keys, i, fault)
         /\ opens(key_of(found), x, i, kind)
         /\ o = [ok |-> TRUE, state |-> found, plaintext |-> x.plaintext]
  BY DEF decrypt_segment_at, open_segment
<1> HIDE DEF found
<1>3. CASE \E e : o = Failed(keys, e)
  BY <1>3 DEF Failed
<1>4. CASE \E e : o = Failed(found, e)
  BY <1>1, <1>4 DEF Failed
<1>5. CASE /\ validate_segment(ctx.parameters, x, kind)
           /\ key_for_position_ok(keys, i, fault)
           /\ opens(key_of(found), x, i, kind)
           /\ o = [ok |-> TRUE, state |-> found, plaintext |-> x.plaintext]
  <2>1. key_of(found) = derive_segment_key(ctx, masked_position(i))
    BY <1>5, LookupReturnsKey DEF found
  <2>2. o.ok = TRUE /\ o.state = found /\ o.plaintext = x.plaintext
    BY <1>5
  <2> QED BY <1>1, <1>5, <2>1, <2>2
<1> QED BY <1>2, <1>3, <1>4, <1>5

(* The two messages have different keys, and segments of ours have ours. *)
LEMMA ForeignKeys ==
    ASSUME NEW masked, NEW other_masked
    PROVE  derive_segment_key(contexts.ours, masked)
             # derive_segment_key(contexts.other, other_masked)
<1>1. contexts.ours.message[3] = "iv" /\ contexts.other.message[3] = "other iv"
  BY DEF contexts, Context, derive_message
<1>2. contexts.ours.message # contexts.other.message
  BY <1>1
<1> QED BY <1>2 DEF derive_segment_key

(* The segments of the other message are sealed under its own keys. *)
LEMMA OtherKeys ==
    ASSUME NEW x \in OtherSegments
    PROVE  \E masked : x.key = derive_segment_key(contexts.other, masked)
<1>1. PICK i, nonce, kind, b : \E masked :
        /\ b \in Seq(Nat)
        /\ x = seal(derive_segment_key(contexts.other, masked), nonce, i, kind,
                    plaintext_of(b))
  BY OtherSegmentsForm
<1>2. PICK masked : x = seal(derive_segment_key(contexts.other, masked), nonce, i, kind,
                             plaintext_of(b))
  BY <1>1
<1>3. PICK k : k = derive_segment_key(contexts.other, masked)
  OBVIOUS
<1>4. x.key = k
  BY <1>2, <1>3 DEF seal
<1> QED BY <1>3, <1>4

(* Of all the items a source may be made of, only the message's own        *)
(* segment opens at a position, and only as what it is.                    *)
LEMMA OnlyOursOpens ==
    ASSUME NEW m, IsMessage(m), NEW x \in Items(m), is_segment(x), NEW i \in Nat, NEW kind,
           opens(derive_segment_key(contexts.ours, masked_position(i)), x, i, kind),
           validate_segment(SegmentLength, x, kind)
    PROVE  i + 1 \in 1 .. Len(m.segments) /\ x = m.segments[i + 1] /\ kind = KindOf(m, i + 1)
<1>1. Len(m.segments) \in Nat
  BY DEF IsMessage
<1>2. ~x.damaged /\ x.key = derive_segment_key(contexts.ours, masked_position(i))
      /\ x.position = i /\ x.kind = kind
  BY DEF opens
<1>3. x \in OurSegments(m) \cup AlteredSegments(m) \cup OtherSegments
  BY ItemKinds DEF Items, NoForeignSegment, NoForeignHeader
<1>4. x \notin OtherSegments
  BY <1>2, OtherKeys, ForeignKeys
<1>5. ASSUME NEW j \in 1 .. Len(m.segments), x = m.segments[j]
      PROVE  i + 1 \in 1 .. Len(m.segments) /\ x = m.segments[i + 1] /\ kind = KindOf(m, i + 1)
  <2>1. x.position = j - 1 /\ x.kind = KindOf(m, j)
    BY <1>5, OurKeys
  <2>2. j = i + 1
    BY <1>1, <1>2, <2>1
  <2> QED BY <1>2, <1>5, <2>1, <2>2
<1>6. CASE x \in OurSegments(m)
  BY <1>5, <1>6 DEF OurSegments
<1>7. CASE x \in AlteredSegments(m)
  <2>1. PICK j \in 1 .. Len(m.segments) :
          x \in Altered(m.segments[j], {SEGMENT_OVERHEAD, SegmentLength})
    BY <1>7 DEF AlteredSegments, OurSegments
  <2>2. PICK s : s = m.segments[j]
    OBVIOUS
  <2>3. PICK pre, len, k, n, pos, knd, p :
           s = [prefix |-> pre, length |-> len, damaged |-> FALSE, key |-> k,
                nonce |-> n, position |-> pos, kind |-> knd, plaintext |-> p]
    <3>1. IsSealed(s)
      BY <2>2, OurKeys
    <3> QED BY <3>1, Zenon DEF IsSealed
  <2>4. PICK l : x = [s EXCEPT !.prefix = l]
    <3>1. CASE x = [s EXCEPT !.damaged = TRUE]
      BY <1>2, <2>3, <3>1
    <3>2. CASE \E l : x = [s EXCEPT !.length = l, !.damaged = TRUE]
      BY <1>2, <2>3, <3>2
    <3> QED BY <2>1, <2>2, <3>1, <3>2 DEF Altered
  <2>5. x = [prefix |-> l, length |-> len, damaged |-> FALSE, key |-> k,
             nonce |-> n, position |-> pos, kind |-> knd, plaintext |-> p]
    BY <2>3, <2>4
  <2>6. x.prefix = l /\ x.length = len /\ x.kind = knd /\ s.prefix = pre /\ s.length = len
        /\ s.kind = knd
    BY <2>3, <2>5
  <2>7. s.kind = KindOf(m, j) /\ s.prefix = segment_prefix(KindOf(m, j), s.length)
    BY <2>2, OurKeys
  <2>8. kind = KindOf(m, j) /\ pre = segment_prefix(kind, len)
    BY <1>2, <2>6, <2>7
  <2>9. kind = "Final" \/ kind = "NonFinal"
    BY <2>8 DEF KindOf
  <2>10. l = segment_prefix(kind, len)
    BY <2>6, <2>9 DEF validate_segment, segment_prefix
  <2>11. x = s
    BY <2>3, <2>5, <2>8, <2>10
  <2> QED BY <1>5, <2>2, <2>11
<1> QED BY <1>3, <1>4, <1>6, <1>7

(* A source without a foreign segment opens nothing under the other key. *)
LEMMA NoForeignOpens ==
    ASSUME NEW m, IsMessage(m), NEW x \in NoForeignSegment(m), is_segment(x), NEW i,
           NEW kind, NEW masked
    PROVE  ~opens(derive_segment_key(contexts.other, masked), x, i, kind)
<1>1. x \in OurSegments(m)
  BY ItemKinds DEF NoForeignSegment
<1>2. PICK j \in 1 .. Len(m.segments) : x = m.segments[j]
  BY <1>1 DEF OurSegments
<1>3. x.key = derive_segment_key(contexts.ours, masked_position(j - 1))
  BY <1>2, OurKeys
<1> QED BY <1>3, ForeignKeys DEF opens

(* To give a segment the length it has changes nothing. *)
Relengthened(x) == [x EXCEPT !.length = x.length]

(* Setting the length a segment already has changes nothing. *)
LEMMA SegmentKeepsLength ==
    ASSUME NEW m, IsMessage(m), NEW x \in Items(m), is_segment(x)
    PROVE  Relengthened(x) = x
<1>1. x \in OurSegments(m) \cup AlteredSegments(m) \cup OtherSegments
  BY ItemKinds DEF Items, NoForeignSegment, NoForeignHeader
<1>2. ASSUME NEW j \in 1 .. Len(m.segments), x = m.segments[j]
      PROVE  Relengthened(x) = x
  <2>1. IsSealed(x)
    BY <1>2, OurKeys
  <2>2. PICK pre, len, k, n, pos, knd, p :
           x = [prefix |-> pre, length |-> len, damaged |-> FALSE, key |-> k,
                nonce |-> n, position |-> pos, kind |-> knd, plaintext |-> p]
    BY <2>1, Zenon DEF IsSealed
  <2> QED BY <2>2 DEF Relengthened
<1>3. CASE x \in OurSegments(m)
  BY <1>2, <1>3 DEF OurSegments
<1>4. CASE x \in OtherSegments
  <2>1. PICK i, nonce, kind, b : \E masked :
          /\ b \in Seq(Nat)
          /\ x = seal(derive_segment_key(contexts.other, masked), nonce, i, kind,
                      plaintext_of(b))
    BY <1>4, OtherSegmentsForm
  <2>2. PICK masked : x = seal(derive_segment_key(contexts.other, masked), nonce, i, kind,
                               plaintext_of(b))
    BY <2>1
  <2>3. PICK k, p, l : x = [prefix |-> segment_prefix(kind, l), length |-> l, damaged |-> FALSE,
                            key |-> k, nonce |-> nonce, position |-> i, kind |-> kind,
                            plaintext |-> p]
    BY <2>2, Zenon DEF seal
  <2> QED BY <2>3 DEF Relengthened
<1>5. CASE x \in AlteredSegments(m)
  <2>1. PICK j \in 1 .. Len(m.segments) :
          x \in Altered(m.segments[j], {SEGMENT_OVERHEAD, SegmentLength})
    BY <1>5 DEF AlteredSegments, OurSegments
  <2>2. PICK s : s = m.segments[j]
    OBVIOUS
  <2>3. IsSealed(s)
    BY <2>2, OurKeys
  <2>4. PICK pre, len, k, n, pos, knd, p :
           s = [prefix |-> pre, length |-> len, damaged |-> FALSE, key |-> k,
                nonce |-> n, position |-> pos, kind |-> knd, plaintext |-> p]
    BY <2>3, Zenon DEF IsSealed
  <2>5. \/ x = [s EXCEPT !.damaged = TRUE]
        \/ \E l : x = [s EXCEPT !.prefix = l]
        \/ \E l : x = [s EXCEPT !.length = l, !.damaged = TRUE]
    BY <2>1, <2>2 DEF Altered
  <2> QED BY <2>4, <2>5 DEF Relengthened
<1> QED BY <1>1, <1>3, <1>4, <1>5

(* The segment that fills so many bytes. *)
FilledSegment(bytes) == [segment_in(bytes) EXCEPT !.length = Len(bytes)]

(* The prepared scratch buffer holds the segment that was read. *)
LEMMA FilledIsFound ==
    ASSUME NEW m, IsMessage(m), NEW bytes \in Seq(BytesOf(Items(m)) \cup {junk[1]})
    PROVE  FilledSegment(bytes) = segment_in(bytes)
<1>1. PICK x : x = segment_in(bytes)
  OBVIOUS
<1>2. \A y \in Items(m) : is_segment(y) => ~is_header(y)
  BY ItemKinds DEF Items, NoForeignSegment, NoForeignHeader
<1>3. x.length = Len(bytes) /\ Found(bytes, Items(m), x)
  BY <1>1, <1>2, ItemsSized, SegmentFound
<1>4. CASE x \in Items(m) /\ is_segment(x)
  <2>1. Relengthened(x) = x
    BY <1>4, SegmentKeepsLength
  <2>2. FilledSegment(bytes) = [x EXCEPT !.length = Len(bytes)]
    BY <1>1, Zenon DEF FilledSegment
  <2>3. FilledSegment(bytes) = Relengthened(x)
    BY <1>3, <2>2, Zenon DEF Relengthened
  <2> QED BY <1>1, <2>1, <2>3, Zenon
<1>5. CASE ~(x \in Items(m) /\ is_segment(x))
  <2>1. x = garbled(bytes)
    <3>1. CASE is_whole(bytes) /\ is_segment(bytes[1].item)
      <4>1. x = bytes[1].item /\ Len(bytes) # 0 /\ Len(bytes) \in Nat
        BY <1>1, <3>1, LenProperties, EmptySeq DEF segment_in, is_whole, is_start
      <4>2. bytes[1] \in BytesOf(Items(m)) \cup {junk[1]}
        BY <4>1, ElementOfSeq
      <4>3. x \in Items(m)
        BY <3>1, <4>1, <4>2, ByteFields
      <4> QED BY <1>5, <3>1, <4>1, <4>3
    <3> QED BY <1>1, <3>1 DEF segment_in
  <2>2. x = [prefix |-> prefix_in(bytes), length |-> Len(bytes), damaged |-> TRUE]
    BY <2>1 DEF garbled
  <2>3. PICK l, pre : l = Len(bytes) /\ pre = prefix_in(bytes)
    OBVIOUS
  <2>4. [x EXCEPT !.length = l] = x
    <3>1. PICK d : d = TRUE
      OBVIOUS
    <3>2. x = [prefix |-> pre, length |-> l, damaged |-> d]
      BY <2>2, <2>3, <3>1, Zenon
    <3>3. [x EXCEPT !.length = l] = [prefix |-> pre, length |-> l, damaged |-> d]
      BY <3>2
    <3> QED BY <3>2, <3>3, Zenon
  <2>5. FilledSegment(bytes) = [x EXCEPT !.length = l]
    BY <1>1, <2>3, Zenon DEF FilledSegment
  <2> QED BY <1>1, <2>4, <2>5, Zenon
<1> QED BY <1>4, <1>5

(* What was opened at a position is the message's segment there, and the   *)
(* bytes are all of its bytes.                                             *)
OpenedAs(o, m, i, kind, bytes) ==
    o.ok => /\ i + 1 \in 1 .. Len(m.segments) /\ kind = KindOf(m, i + 1)
            /\ bytes = segment_bytes(m.segments[i + 1])
            /\ o.plaintext = m.segments[i + 1].plaintext

(* What opens at a position is the segment of that position. *)
LEMMA OpensAtPosition ==
    ASSUME NEW m, IsMessage(m), NEW bytes \in Seq(BytesOf(Items(m)) \cup {junk[1]}),
           NEW keys, LabelledCache(keys, contexts.ours), NEW i \in Nat, NEW kind, NEW fault,
           NEW o, o = decrypt_segment_at(keys, contexts.ours, FilledSegment(bytes), i, kind,
                                         TRUE, fault)
    PROVE  OpenedAs(o, m, i, kind, bytes)
<1> SUFFICES ASSUME o.ok
             PROVE  /\ i + 1 \in 1 .. Len(m.segments) /\ kind = KindOf(m, i + 1)
                    /\ bytes = segment_bytes(m.segments[i + 1])
                    /\ o.plaintext = m.segments[i + 1].plaintext
  BY DEF OpenedAs
<1>1. PICK x : x = segment_in(bytes)
  OBVIOUS
<1>2. x = FilledSegment(bytes)
  BY <1>1, FilledIsFound
<1>3. contexts.ours.parameters = SegmentLength
  BY DEF contexts, Context
<1>4. /\ validate_segment(SegmentLength, x, kind)
      /\ opens(derive_segment_key(contexts.ours, masked_position(i)), x, i, kind)
      /\ o.plaintext = x.plaintext
  BY <1>2, <1>3, OpenedSegment
<1>5. \A y \in Items(m) : is_segment(y) => ~is_header(y)
  BY ItemKinds DEF Items, NoForeignSegment, NoForeignHeader
<1>6. Found(bytes, Items(m), x)
  BY <1>1, <1>5, ItemsSized, SegmentFound
<1>7. x \in Items(m) /\ is_segment(x) /\ bytes = segment_bytes(x)
  BY <1>4, <1>6 DEF Found, opens
<1>8. i + 1 \in 1 .. Len(m.segments) /\ x = m.segments[i + 1] /\ kind = KindOf(m, i + 1)
  BY <1>4, <1>7, OnlyOursOpens
<1> QED BY <1>4, <1>7, <1>8

(* Under the key of the other message nothing of this one opens. *)
LEMMA OtherOpensNothing ==
    ASSUME NEW m, IsMessage(m), NEW bytes \in Seq(BytesOf(NoForeignSegment(m)) \cup {junk[1]}),
           NEW keys, LabelledCache(keys, contexts.other), NEW i \in Nat, NEW kind, NEW fault,
           NEW o, o = decrypt_segment_at(keys, contexts.other, FilledSegment(bytes), i, kind,
                                         TRUE, fault)
    PROVE  ~o.ok
<1> SUFFICES ASSUME o.ok
             PROVE  FALSE
  OBVIOUS
<1>1. PICK x : x = segment_in(bytes)
  OBVIOUS
<1>2. bytes \in Seq(BytesOf(Items(m)) \cup {junk[1]})
  <2>1. BytesOf(NoForeignSegment(m)) \subseteq BytesOf(Items(m))
    BY MoreItems DEF BytesOf
  <2> QED BY <2>1, SeqMonotonic
<1>3. x = FilledSegment(bytes)
  BY <1>1, <1>2, FilledIsFound
<1>4. opens(derive_segment_key(contexts.other, masked_position(i)), x, i, kind)
  BY <1>3, OpenedSegment
<1>5. \A y \in NoForeignSegment(m) : is_segment(y) => ~is_header(y)
  BY ItemKinds DEF NoForeignSegment
<1>6. Found(bytes, NoForeignSegment(m), x)
  BY <1>1, <1>5, ItemsSized, SegmentFound
<1>7. x \in NoForeignSegment(m) /\ is_segment(x)
  BY <1>4, <1>6 DEF Found, opens
<1> QED BY <1>4, <1>7, NoForeignOpens

-----------------------------------------------------------------------------
(* Headers. *)

(* The headers that the key and the associated data accept are those of    *)
(* the two messages.                                                       *)
LEMMA AcceptedHeaders ==
    ASSUME NEW h \in {headers.ours} \cup ForgedHeaders,
           accepts_header(key, aad, h.parameters, h)
    PROVE  \/ h = headers.ours /\ Context(key, h.parameters, h.iv, aad) = contexts.ours
           \/ h = headers.other /\ Context(key, h.parameters, h.iv, aad) = contexts.other
<1>1. h.tag = <<key, h.parameters, h.iv, aad>>
  BY DEF accepts_header, derive_message
<1>2. h.tag[1] = "key" /\ h.tag[2] = h.parameters /\ h.tag[4] = "aad"
  BY <1>1 DEF key, aad
<1>3. SegmentLength \in Nat
  BY CiphertextsAssumption, SegmentLengths
<1>4. \/ h = headers.ours
      \/ h = headers.other
      \/ h = Header("other key", SegmentLength, "iv", aad)
      \/ h = Header(key, SegmentLength, "iv", "other aad")
      \/ h = [headers.ours EXCEPT !.parameters = SegmentLength + 1]
  BY Zenon DEF ForgedHeaders
<1>5. CASE h = headers.ours
  <2>1. h.parameters = SegmentLength /\ h.iv = "iv"
    BY <1>5 DEF headers, Header
  <2>2. contexts.ours = Context(key, SegmentLength, "iv", aad)
    BY DEF contexts
  <2>3. Context(key, h.parameters, h.iv, aad) = contexts.ours
    BY <2>1, <2>2, Zenon
  <2> QED BY <1>5, <2>3
<1>6. CASE h = headers.other
  <2>1. h.parameters = SegmentLength /\ h.iv = "other iv"
    BY <1>6 DEF headers, Header
  <2>2. contexts.other = Context(key, SegmentLength, "other iv", aad)
    BY DEF contexts
  <2>3. Context(key, h.parameters, h.iv, aad) = contexts.other
    BY <2>1, <2>2, Zenon
  <2> QED BY <1>6, <2>3
<1>7. CASE h = Header("other key", SegmentLength, "iv", aad)
  <2>1. h.tag = <<"other key", SegmentLength, "iv", aad>>
    BY <1>7 DEF Header, derive_message
  <2>2. h.tag[1] = "other key"
    <3>1. PICK t, a, b : t = h.tag /\ a = key /\ b = aad
      OBVIOUS
    <3>2. t = <<"other key", SegmentLength, "iv", b>>
      BY <2>1, <3>1
    <3>3. t[1] = "other key"
      BY <3>2
    <3> QED BY <3>1, <3>3
  <2>3. "other key" # "key"
    OBVIOUS
  <2> QED BY <1>2, <2>2, <2>3
<1>8. CASE h = Header(key, SegmentLength, "iv", "other aad")
  <2>1. h.tag = <<key, SegmentLength, "iv", "other aad">>
    BY <1>8 DEF Header, derive_message
  <2>2. h.tag[4] = "other aad"
    <3>1. PICK t, a, b : t = h.tag /\ a = key /\ b = aad
      OBVIOUS
    <3>2. t = <<a, SegmentLength, "iv", "other aad">>
      BY <2>1, <3>1
    <3>3. t[4] = "other aad"
      BY <3>2
    <3> QED BY <3>1, <3>3
  <2>3. "other aad" # "aad"
    OBVIOUS
  <2> QED BY <1>2, <2>2, <2>3
<1>9. CASE h = [headers.ours EXCEPT !.parameters = SegmentLength + 1]
  <2>1. headers.ours = [parameters |-> SegmentLength, iv |-> "iv",
                        tag |-> <<key, SegmentLength, "iv", aad>>]
    BY DEF headers, Header, derive_message
  <2>2. PICK t : t = <<key, SegmentLength, "iv", aad>>
    OBVIOUS
  <2>3. h.parameters = SegmentLength + 1 /\ h.tag = t
    BY <1>9, <2>1, <2>2
  <2>4. t[2] = SegmentLength
    BY <2>2
  <2> QED BY <1>2, <1>3, <2>3, <2>4
<1> QED BY <1>4, <1>5, <1>6, <1>7, <1>8, <1>9

(* The header found in so many bytes is an item all of whose bytes they    *)
(* are.                                                                    *)
LEMMA HeaderFound ==
    ASSUME NEW I, Sized(I), NEW bytes \in Seq(BytesOf(I) \cup {junk[1]}), NEW h \in header_in(bytes)
    PROVE  h \in I /\ is_header(h) /\ bytes = header_bytes(h) /\ bytes[1].item = h
<1>1. is_whole(bytes) /\ is_header(bytes[1].item) /\ h = bytes[1].item
  BY DEF header_in, Some, None
<1>2. Len(bytes) \in Nat /\ Len(bytes) # 0
  BY <1>1, LenProperties, EmptySeq DEF is_whole, is_start
<1>3. PICK b : b = bytes[1]
  OBVIOUS
<1>4. b \in BytesOf(I) \cup {junk[1]}
  BY <1>2, <1>3, ElementOfSeq
<1>5. h \in I /\ b.of = HEADER_LENGTH /\ is_header(h)
  BY <1>1, <1>3, <1>4, ByteFields DEF length_of_item
<1>6. Len(bytes) = HEADER_LENGTH
  BY <1>1, <1>3, <1>5 DEF is_whole
<1>7. b \in BytesOf(I)
  <2>1. DOMAIN junk[1].item = {"junk"}
    <3>1. junk[1] = [item |-> [junk |-> TRUE], at |-> 1, of |-> 1]
      BY DEF junk, bytes_of
    <3> QED BY <3>1
  <2> QED BY <1>1, <1>3, <1>4, <2>1 DEF is_header
<1>8. PICK y \in I, a \in Nat : b = [item |-> y, at |-> a, of |-> length_of_item(y)]
  BY <1>7 DEF BytesOf
<1>9. b = [item |-> h, at |-> a, of |-> HEADER_LENGTH]
  BY <1>1, <1>3, <1>5, <1>8
<1>10. \A k \in 1 .. Len(bytes) : bytes[k] = [item |-> h, at |-> k, of |-> HEADER_LENGTH]
  <2> SUFFICES ASSUME NEW k \in 1 .. Len(bytes)
               PROVE  bytes[k] = [item |-> h, at |-> k, of |-> HEADER_LENGTH]
    OBVIOUS
  <2>1. bytes[k] = [b EXCEPT !.at = k]
    BY <1>1, <1>3 DEF is_whole, is_start
  <2> QED BY <1>9, <2>1
<1>11. bytes = [k \in 1 .. Len(bytes) |-> bytes[k]]
  BY LenProperties
<1>12. bytes = header_bytes(h)
  BY <1>6, <1>10, <1>11 DEF header_bytes, bytes_of
<1> QED BY <1>1, <1>5, <1>12

-----------------------------------------------------------------------------
(* Bytes of bytes, and segments read back. *)

(* A slice of a slice is a slice. *)
LEMMA SliceOfSlice ==
    ASSUME NEW S, NEW s \in Seq(S), NEW a \in Nat, NEW n \in Nat, a + n <= Len(s),
           NEW b \in Nat, NEW m \in Nat, b + m <= n
    PROVE  Slice(Slice(s, a, n), b, m) = Slice(s, a + b, m)
<1>1. PICK t : t = Slice(s, a, n)
  OBVIOUS
<1>2. t \in Seq(S) /\ Len(t) = n /\ \A i \in 1 .. n : t[i] = s[a + i]
  BY <1>1, SliceOf
<1>3. PICK c \in Nat : c = a + b
  OBVIOUS
<1>4. Len(s) \in Nat
  BY LenProperties
<1>5. c + m <= Len(s) /\ b + m <= Len(t)
  BY <1>2, <1>3, <1>4
<1>6. PICK x, y : x = Slice(t, b, m) /\ y = Slice(s, c, m)
  OBVIOUS
<1>7. x \in Seq(S) /\ Len(x) = m /\ \A i \in 1 .. m : x[i] = t[b + i]
  <2>1. t \in Seq(S) /\ b + m <= Len(t)
    BY <1>2, <1>5
  <2> QED BY <1>6, <2>1, SliceOf
<1>8. y \in Seq(S) /\ Len(y) = m /\ \A i \in 1 .. m : y[i] = s[c + i]
  <2>1. s \in Seq(S) /\ c + m <= Len(s)
    BY <1>5
  <2> QED BY <1>6, <2>1, SliceOf
<1>9. \A i \in 1 .. m : x[i] = y[i]
  <2> SUFFICES ASSUME NEW i \in 1 .. m
               PROVE  x[i] = y[i]
    OBVIOUS
  <2>1. b + i \in 1 .. n /\ a + (b + i) = c + i
    BY <1>3
  <2> QED BY <1>2, <1>7, <1>8, <2>1
<1>10. x = y
  BY <1>7, <1>8, <1>9, SeqEqual
<1> QED BY <1>1, <1>3, <1>6, <1>10

(* An empty slice, and the empty range of a file. *)
LEMMA EmptySlice ==
    ASSUME NEW s, NEW a \in Nat
    PROVE  SubSeq(s, a + 1, a) = <<>> /\ Slice(s, a, 0) = <<>>
<1>1. SubSeq(s, a + 1, a) = [i \in 1 .. 0 |-> s[i + (a + 1) - 1]]
  OBVIOUS
<1> QED BY <1>1 DEF Slice

(* The bytes of a segment are that segment again. *)
LEMMA SegmentReadBack ==
    ASSUME NEW ctx, NEW m, IsMessageOf(ctx, m), NEW j \in 1 .. Len(m.segments), NEW x,
           x = m.segments[j], NEW bytes, bytes = segment_bytes(x)
    PROVE  segment_in(bytes) = x
<1>1. PICK n \in Nat \ {0} : n = x.length /\ Len(bytes) = n
  BY SegmentSize
<1>2. bytes = [k \in 1 .. n |-> [item |-> x, at |-> k, of |-> n]]
  BY <1>1 DEF segment_bytes, bytes_of
<1>3. bytes[1] = [item |-> x, at |-> 1, of |-> n] /\ bytes # <<>>
  BY <1>1, <1>2
<1>4. PICK first : first = bytes[1]
  OBVIOUS
<1>5. first.item = x /\ first.of = n
  BY <1>3, <1>4
<1>6. ASSUME NEW k \in 1 .. n PROVE bytes[k] = [first EXCEPT !.at = k]
  <2>1. bytes[k] = [item |-> x, at |-> k, of |-> n]
    BY <1>2
  <2>2. [first EXCEPT !.at = k] = [item |-> x, at |-> k, of |-> n]
    BY <1>3, <1>4
  <2> QED BY <2>1, <2>2
<1>7. is_whole(bytes)
  BY <1>1, <1>3, <1>4, <1>5, <1>6 DEF is_whole, is_start
<1>8. is_segment(x)
  BY KeysOf, SealedIsSegment
<1> QED BY <1>4, <1>5, <1>7, <1>8 DEF segment_in

-----------------------------------------------------------------------------
(* Framings, and what the decryptor makes of a segment. *)

(* What a prefix declares (SegmentFraming::decode). *)
LEMMA FramingForm ==
    ASSUME NEW q, NEW f, f = decode_framing(SegmentLength, q)
    PROVE  /\ f.ok \in BOOLEAN
           /\ f.ok => \E length \in SEGMENT_OVERHEAD .. SegmentLength, kind \in Kinds :
                         /\ f.value = Framing(length, kind)
                         /\ \/ q = U32_MAX /\ kind = "NonFinal" /\ length = SegmentLength
                            \/ q # U32_MAX /\ kind = "Final" /\ length = q
           /\ q = U32_MAX => f.ok
           /\ q \in SEGMENT_OVERHEAD .. SegmentLength => f.ok
<1>1. SEGMENT_OVERHEAD \in Nat /\ SegmentLength \in Nat /\ SEGMENT_OVERHEAD <= SegmentLength
  BY CiphertextsAssumption, SegmentLengths
<1>2. CASE q = U32_MAX
  <2>1. f = [ok |-> TRUE, value |-> Framing(SegmentLength, "NonFinal")]
    BY <1>2 DEF decode_framing, Ok
  <2>2. PICK yes, v : yes = TRUE /\ v = Framing(SegmentLength, "NonFinal")
    OBVIOUS
  <2>3. f.ok = yes /\ f.value = v
    BY <2>1, <2>2
  <2>4. SegmentLength \in SEGMENT_OVERHEAD .. SegmentLength /\ "NonFinal" \in Kinds
    BY <1>1 DEF Kinds
  <2> QED BY <1>2, <2>2, <2>3, <2>4
<1>3. CASE q # U32_MAX /\ q \in SEGMENT_OVERHEAD .. SegmentLength
  <2>1. f = [ok |-> TRUE, value |-> Framing(q, "Final")]
    BY <1>3 DEF decode_framing, Ok
  <2>2. PICK yes, v : yes = TRUE /\ v = Framing(q, "Final")
    OBVIOUS
  <2>3. f.ok = yes /\ f.value = v
    BY <2>1, <2>2
  <2>4. "Final" \in Kinds
    BY DEF Kinds
  <2> QED BY <1>3, <2>2, <2>3, <2>4
<1>4. CASE q # U32_MAX /\ q \notin SEGMENT_OVERHEAD .. SegmentLength
  <2>1. f = Err("InvalidCiphertextLength")
    BY <1>4 DEF decode_framing
  <2>2. PICK no : no = FALSE
    OBVIOUS
  <2>3. f = [ok |-> no, error |-> "InvalidCiphertextLength"]
    BY <2>1, <2>2, Zenon DEF Err
  <2>4. f.ok = no
    BY <2>3
  <2> QED BY <1>4, <2>2, <2>4
<1> QED BY <1>2, <1>3, <1>4

(* A decryptor at a position, and one that has opened a final segment. *)
DecryptorAt(keys, k) == [keys |-> keys, counter |-> [next |-> k, closed |-> FALSE]]
ClosedAt(keys, k) == [keys |-> keys, counter |-> [next |-> k, closed |-> TRUE]]

(* The decryptor after it opened a segment of this kind. *)
DecryptorAfter(keys, k, kind) ==
    IF kind = "NonFinal" THEN DecryptorAt(keys, k + 1) ELSE ClosedAt(keys, k)

(* Decryptor::decrypt_segment opens a segment as what its prefix declares, *)
(* or changes at most the cached key.                                      *)
Refuses(q, c, k) == \E keys : q = DecryptorResult(DecryptorAt(keys, k), None) /\ LabelledCache(keys, c)

Accepts(q, c, k, x) ==
    \E keys, kind :
        /\ q = DecryptorResult(DecryptorAfter(keys, k, kind), Some(x.plaintext))
        /\ LabelledCache(keys, c) /\ kind \in Kinds
        /\ validate_segment(SegmentLength, x, kind)
        /\ opens(derive_segment_key(c, masked_position(k)), x, k, kind)
        /\ x.prefix = U32_MAX <=> kind = "NonFinal"

(* The framing that a segment declares. *)
LEMMA SegmentFraming ==
    ASSUME NEW x, NEW f, f = framing(SegmentLength, x)
    PROVE  /\ f.ok \in BOOLEAN
           /\ f.ok => \E length : \E kind \in Kinds :
                         /\ f.value = Framing(length, kind)
                         /\ x.length = length => validate_segment(SegmentLength, x, kind)
                         /\ x.prefix = U32_MAX <=> kind = "NonFinal"
           /\ \A kind \in Kinds : validate_segment(SegmentLength, x, kind)
                                    => f.ok /\ f.value = Framing(x.length, kind)
<1>1. /\ SEGMENT_OVERHEAD \in Nat /\ SegmentLength \in Nat /\ SEGMENT_OVERHEAD <= SegmentLength
      /\ SegmentLength < U32_MAX /\ U32_MAX \in Nat
      /\ SEGMENT_PREFIX_LENGTH \in Nat /\ SEGMENT_PREFIX_LENGTH < SEGMENT_OVERHEAD
  BY CiphertextsAssumption, SegmentLengths, ParametersAssumption DEF SEGMENT_OVERHEAD
<1>2. PICK g : g = decode_framing(SegmentLength, x.prefix)
  OBVIOUS
<1>3. /\ g.ok \in BOOLEAN
      /\ g.ok => \E length \in SEGMENT_OVERHEAD .. SegmentLength, kind \in Kinds :
                    /\ g.value = Framing(length, kind)
                    /\ \/ x.prefix = U32_MAX /\ kind = "NonFinal" /\ length = SegmentLength
                       \/ x.prefix # U32_MAX /\ kind = "Final" /\ length = x.prefix
      /\ x.prefix = U32_MAX => g.ok
      /\ x.prefix \in SEGMENT_OVERHEAD .. SegmentLength => g.ok
  BY <1>2, FramingForm
<1>4. CASE x.length < SEGMENT_PREFIX_LENGTH
  <2>1. PICK no : no = FALSE
    OBVIOUS
  <2>2. f = [ok |-> no, error |-> "InvalidCiphertextLength"]
    BY <1>4, <2>1, Zenon DEF framing, Err
  <2>3. f.ok = no
    BY <2>2
  <2>4. ASSUME NEW kind \in Kinds, validate_segment(SegmentLength, x, kind) PROVE FALSE
    <3>1. x.length \in SEGMENT_OVERHEAD .. SegmentLength
      BY <1>1, <2>4 DEF validate_segment, validate_ciphertext_segment_length
    <3> QED BY <1>1, <1>4, <3>1
  <2> QED BY <2>1, <2>3, <2>4
<1>5. CASE ~(x.length < SEGMENT_PREFIX_LENGTH)
  <2>1. f = g
    BY <1>2, <1>5 DEF framing
  <2>2. ASSUME f.ok
        PROVE  \E length : \E kind \in Kinds :
                  /\ f.value = Framing(length, kind)
                  /\ x.length = length => validate_segment(SegmentLength, x, kind)
                  /\ x.prefix = U32_MAX <=> kind = "NonFinal"
    <3>1. PICK length \in SEGMENT_OVERHEAD .. SegmentLength, kind \in Kinds :
            /\ f.value = Framing(length, kind)
            /\ \/ x.prefix = U32_MAX /\ kind = "NonFinal" /\ length = SegmentLength
               \/ x.prefix # U32_MAX /\ kind = "Final" /\ length = x.prefix
      BY <1>3, <2>1, <2>2
    <3>2. x.length = length => validate_segment(SegmentLength, x, kind)
      BY <3>1 DEF validate_segment, validate_ciphertext_segment_length
    <3>3. x.prefix = U32_MAX <=> kind = "NonFinal"
      BY <3>1
    <3> QED BY <3>1, <3>2, <3>3
  <2>3. ASSUME NEW kind \in Kinds, validate_segment(SegmentLength, x, kind)
        PROVE  f.ok /\ f.value = Framing(x.length, kind)
    <3>1. CASE kind = "Final"
      <4>1. x.prefix = x.length /\ x.length \in SEGMENT_OVERHEAD .. SegmentLength
        BY <2>3, <3>1 DEF validate_segment, validate_ciphertext_segment_length
      <4>2. x.prefix # U32_MAX /\ x.prefix \in SEGMENT_OVERHEAD .. SegmentLength
        BY <1>1, <4>1
      <4> QED BY <1>3, <2>1, <3>1, <4>1, <4>2
    <3>2. CASE kind = "NonFinal"
      <4>1. x.prefix = U32_MAX /\ x.length = SegmentLength
        BY <2>3, <3>2 DEF validate_segment
      <4> QED BY <1>3, <2>1, <3>2, <4>1
    <3> QED BY <3>1, <3>2 DEF Kinds
  <2> QED BY <1>3, <2>1, <2>2, <2>3
<1> QED BY <1>4, <1>5

(* Completing a position. *)
LEMMA CompletedDecryptor ==
    ASSUME NEW keys, NEW k \in Nat, NEW kind \in Kinds
    PROVE  [keys |-> keys, counter |-> complete([next |-> k, closed |-> FALSE], kind)]
             = DecryptorAfter(keys, k, kind)
<1>1. PICK no, yes : no = FALSE /\ yes = TRUE
  OBVIOUS
<1>2. PICK counter : counter = [next |-> k, closed |-> no]
  OBVIOUS
<1>3. [counter EXCEPT !.next = @ + 1] = [next |-> k + 1, closed |-> no]
  BY <1>2
<1>4. [counter EXCEPT !.closed = yes] = [next |-> k, closed |-> yes]
  BY <1>2
<1>5. complete(counter, kind) = IF kind = "NonFinal" THEN [next |-> k + 1, closed |-> no]
                                ELSE [next |-> k, closed |-> yes]
  BY <1>1, <1>3, <1>4, Zenon DEF complete
<1> QED BY <1>1, <1>2, <1>5, Zenon DEF DecryptorAfter, DecryptorAt, ClosedAt


(* What Decryptor::decrypt_segment does at a position. *)
LEMMA FramedForm ==
    ASSUME NEW c, c.parameters = SegmentLength, NEW keys, LabelledCache(keys, c), NEW k \in Nat,
           NEW x, NEW fault, NEW q, q = decrypt_segment(DecryptorAt(keys, k), c, x, TRUE, fault)
    PROVE  /\ Refuses(q, c, k) \/ Accepts(q, c, k, x)
           /\ \A kind \in Kinds :
                 /\ fault = "none" /\ position_for_ok([next |-> k, closed |-> FALSE], kind)
                 /\ k < AEAD_MAX_SEGMENTS
                 /\ validate_segment(SegmentLength, x, kind)
                 /\ opens(derive_segment_key(c, masked_position(k)), x, k, kind)
                 => Accepts(q, c, k, x)
<1>1. PICK d, counter : d = DecryptorAt(keys, k) /\ counter = [next |-> k, closed |-> FALSE]
  OBVIOUS
<1>2. d.keys = keys /\ d.counter = counter /\ d = [keys |-> keys, counter |-> counter]
      /\ counter.next = k
  BY <1>1 DEF DecryptorAt
<1>3. PICK f : f = framing(SegmentLength, x)
  OBVIOUS
<1>4. /\ f.ok \in BOOLEAN
      /\ f.ok => \E length : \E kind \in Kinds :
                    /\ f.value = Framing(length, kind)
                    /\ x.length = length => validate_segment(SegmentLength, x, kind)
                    /\ x.prefix = U32_MAX <=> kind = "NonFinal"
      /\ \A kind \in Kinds : validate_segment(SegmentLength, x, kind)
                               => f.ok /\ f.value = Framing(x.length, kind)
  BY <1>3, SegmentFraming
<1>5. PICK o : o = decrypt_segment_framed(keys, c, x, k, f.value, TRUE, fault)
  OBVIOUS
<1>6. q = IF ~f.ok THEN DecryptorResult(d, None)
          ELSE IF ~position_for_ok(counter, f.value.kind) THEN DecryptorResult(d, None)
          ELSE DecryptorResult([keys |-> o.state,
                                counter |-> counter_after(counter, f.value.kind, o.ok)],
                               IF o.ok THEN Some(o.plaintext) ELSE None)
  BY <1>1, <1>2, <1>3, <1>5 DEF decrypt_segment
<1>7. ASSUME NEW length, NEW kind, f.value = Framing(length, kind)
      PROVE  f.value.kind = kind /\ f.value.ciphertext_length = length
  BY <1>7 DEF Framing
<1>8. ASSUME NEW length, NEW kind \in Kinds, f.ok, f.value = Framing(length, kind),
             x.length = length => validate_segment(SegmentLength, x, kind),
             x.prefix = U32_MAX <=> kind = "NonFinal", position_for_ok(counter, kind)
      PROVE  /\ Refuses(q, c, k) \/ Accepts(q, c, k, x)
             /\ o.ok => Accepts(q, c, k, x)
  <2>0. f.value.kind = kind /\ f.value.ciphertext_length = length
    BY <1>7, <1>8
  <2>1. q = DecryptorResult([keys |-> o.state, counter |-> counter_after(counter, kind, o.ok)],
                            IF o.ok THEN Some(o.plaintext) ELSE None)
    BY <1>6, <1>8, <2>0, Zenon
  <2>2. CASE x.length # length
    <3>1. PICK no, e : no = FALSE /\ e = "InvalidCiphertextLength"
      OBVIOUS
    <3>2. o = [ok |-> no, state |-> keys, error |-> e]
      BY <1>5, <2>0, <2>2, <3>1, Zenon DEF decrypt_segment_framed, Failed
    <3>3. o.ok = no /\ o.state = keys
      BY <3>2
    <3>4. q = DecryptorResult(d, None)
      BY <1>2, <2>1, <3>1, <3>3, Zenon DEF counter_after
    <3> QED BY <1>1, <3>1, <3>3, <3>4 DEF Refuses
  <2>3. CASE x.length = length
    <3>1. o = open_segment(keys, c, x, k, kind, TRUE, fault)
      BY <1>5, <2>0, <2>3 DEF decrypt_segment_framed
    <3>2. validate_segment(SegmentLength, x, kind)
      BY <1>8, <2>3
    <3>3. o = decrypt_segment_at(keys, c, x, k, kind, TRUE, fault)
      BY <3>1, <3>2 DEF decrypt_segment_at
    <3>4. /\ LabelledCache(o.state, c) /\ o.ok \in BOOLEAN
          /\ o.ok => /\ opens(derive_segment_key(c, masked_position(k)), x, k, kind)
                     /\ o.plaintext = x.plaintext
      BY <3>3, OpenedSegment
    <3>5. PICK keys2, p : keys2 = o.state /\ p = o.plaintext
      OBVIOUS
    <3>6. CASE o.ok
      <4>1. q = DecryptorResult([keys |-> keys2, counter |-> complete(counter, kind)], Some(p))
        BY <2>1, <3>5, <3>6, Zenon DEF counter_after
      <4>2. [keys |-> keys2, counter |-> complete(counter, kind)] = DecryptorAfter(keys2, k, kind)
        BY <1>1, CompletedDecryptor, Zenon
      <4>3. q = DecryptorResult(DecryptorAfter(keys2, k, kind), Some(x.plaintext))
        BY <3>4, <3>5, <3>6, <4>1, <4>2, Zenon
      <4> QED BY <1>8, <3>2, <3>4, <3>5, <3>6, <4>3 DEF Accepts
    <3>7. CASE ~o.ok
      <4>1. q = DecryptorResult(DecryptorAt(keys2, k), None)
        BY <1>1, <2>1, <3>5, <3>7, Zenon DEF counter_after, DecryptorAt
      <4> QED BY <3>4, <3>5, <3>7, <4>1 DEF Refuses
    <3> QED BY <3>6, <3>7
  <2> QED BY <2>2, <2>3
<1>9. Refuses(DecryptorResult(d, None), c, k)
  BY <1>1 DEF Refuses
<1>10. Refuses(q, c, k) \/ Accepts(q, c, k, x)
  <2>1. CASE ~f.ok
    BY <1>6, <1>9, <2>1
  <2>2. CASE f.ok
    <3>1. PICK length : \E kind \in Kinds :
            /\ f.value = Framing(length, kind)
            /\ x.length = length => validate_segment(SegmentLength, x, kind)
            /\ x.prefix = U32_MAX <=> kind = "NonFinal"
      BY <1>4, <2>2
    <3>2. PICK kind \in Kinds :
            /\ f.value = Framing(length, kind)
            /\ x.length = length => validate_segment(SegmentLength, x, kind)
            /\ x.prefix = U32_MAX <=> kind = "NonFinal"
      BY <3>1
    <3>3. CASE position_for_ok(counter, kind)
      BY <1>8, <2>2, <3>2, <3>3
    <3>4. CASE ~position_for_ok(counter, kind)
      <4>1. f.value.kind = kind
        BY <1>7, <3>2
      <4> QED BY <1>6, <1>9, <2>2, <3>4, <4>1
    <3> QED BY <3>3, <3>4
  <2> QED BY <1>4, <2>1, <2>2
<1>11. ASSUME NEW kind \in Kinds, fault = "none", position_for_ok(counter, kind),
              k < AEAD_MAX_SEGMENTS, validate_segment(SegmentLength, x, kind),
              opens(derive_segment_key(c, masked_position(k)), x, k, kind)
       PROVE  Accepts(q, c, k, x)
  <2>1. f.ok /\ f.value = Framing(x.length, kind)
    BY <1>4, <1>11
  <2>2. PICK found : found = key_cache_after(keys, c, k, fault)
    OBVIOUS
  <2>3. key_for_position_ok(keys, k, fault)
    BY <1>11 DEF key_for_position_ok
  <2>4. key_of(found) = derive_segment_key(c, masked_position(k))
    BY <2>2, <2>3, LookupReturnsKey
  <2>5. o = [ok |-> TRUE, state |-> found, plaintext |-> x.plaintext]
    <3>1. f.value.kind = kind /\ f.value.ciphertext_length = x.length
      BY <1>7, <2>1
    <3> QED BY <1>5, <1>11, <2>2, <2>3, <2>4, <3>1 DEF decrypt_segment_framed, open_segment
  <2>6. o.ok
    BY <2>5
  <2>7. x.prefix = U32_MAX <=> kind = "NonFinal"
    <3>1. PICK length : \E other_kind \in Kinds :
            f.value = Framing(length, other_kind) /\ (x.prefix = U32_MAX <=> other_kind = "NonFinal")
      BY <1>4, <2>1
    <3>2. PICK other_kind \in Kinds :
            f.value = Framing(length, other_kind) /\ (x.prefix = U32_MAX <=> other_kind = "NonFinal")
      BY <3>1
    <3>3. f.value.kind = kind /\ f.value.kind = other_kind
      BY <1>7, <2>1, <3>2
    <3> QED BY <3>2, <3>3
  <2> QED BY <1>8, <1>11, <2>1, <2>6, <2>7
<1> QED BY <1>1, <1>10, <1>11


(* The segment x opens at a position as one of this kind. *)
OpensAs(c, k, x, kind) ==
    /\ kind \in Kinds /\ validate_segment(SegmentLength, x, kind)
    /\ opens(derive_segment_key(c, masked_position(k)), x, k, kind)

(* The beginning of a slice. *)
LEMMA StartOfSlice ==
    ASSUME NEW B, NEW src \in Seq(B), NEW pos \in Nat, NEW n \in Nat, NEW q \in Nat, q <= n,
           pos + n <= Len(src), NEW all, all = Slice(src, pos, n), NEW start,
           start = Slice(src, pos, q)
    PROVE  Len(start) = q /\ \A i \in 1 .. q : start[i] = all[i]
<1>1. pos + q <= Len(src)
  BY LenProperties
<1>2. Len(start) = q /\ \A i \in 1 .. q : start[i] = src[pos + i]
  BY <1>1, SliceOf
<1>3. \A i \in 1 .. n : all[i] = src[pos + i]
  BY SliceOf
<1> QED BY <1>2, <1>3

(* The first bytes of a segment declare its prefix. *)
LEMMA PrefixOfBytes ==
    ASSUME NEW B, NEW src \in Seq(B), NEW pos \in Nat, NEW x, is_segment(x), NEW n \in Nat,
           NEW q \in Nat, q > 0, q <= n, pos + n <= Len(src),
           Slice(src, pos, n) = bytes_of(x, n)
    PROVE  prefix_in(Slice(src, pos, q)) = x.prefix
<1>1. PICK bytes, all : bytes = Slice(src, pos, q) /\ all = Slice(src, pos, n)
  OBVIOUS
<1>2. Len(bytes) = q /\ \A i \in 1 .. q : bytes[i] = all[i]
  BY <1>1, StartOfSlice
<1>3. \A i \in 1 .. q : bytes[i] = [item |-> x, at |-> i, of |-> n]
  <2>1. all = [i \in 1 .. n |-> [item |-> x, at |-> i, of |-> n]]
    BY <1>1 DEF bytes_of
  <2>2. ASSUME NEW i \in 1 .. q PROVE bytes[i] = [item |-> x, at |-> i, of |-> n]
    <3>1. i \in 1 .. n
      OBVIOUS
    <3>2. all[i] = [item |-> x, at |-> i, of |-> n]
      BY <2>1, <3>1, Zenon
    <3> QED BY <1>2, <3>2
  <2> QED BY <2>2
<1>4. PICK first : first = bytes[1]
  OBVIOUS
<1>5. first = [item |-> x, at |-> 1, of |-> n] /\ first.item = x
  BY <1>3, <1>4
<1>6. ASSUME NEW i \in 1 .. Len(bytes) PROVE bytes[i] = [first EXCEPT !.at = i]
  <2>1. bytes[i] = [item |-> x, at |-> i, of |-> n]
    BY <1>2, <1>3
  <2> QED BY <1>5, <2>1
<1>7. bytes # <<>>
  BY <1>2
<1>8. is_start(bytes)
  BY <1>4, <1>6, <1>7 DEF is_start
<1> QED BY <1>1, <1>4, <1>5, <1>8 DEF prefix_in

(* A sealed segment keeps its length when it is set again. *)
LEMMA SealedKeepsLength ==
    ASSUME NEW x, IsSealed(x)
    PROVE  Relengthened(x) = x
<1>1. PICK pre, len, k, n, pos, knd, p :
         x = [prefix |-> pre, length |-> len, damaged |-> FALSE, key |-> k,
              nonce |-> n, position |-> pos, kind |-> knd, plaintext |-> p]
  BY Zenon DEF IsSealed
<1> QED BY <1>1 DEF Relengthened

-----------------------------------------------------------------------------
(* Bytes that two sequences have in common. *)

(* The source has the first n bytes of w from `start` on. *)
SameBytes(src, start, w, n) ==
    start + n <= Len(src) /\ n <= Len(w) /\ \A i \in 1 .. n : src[start + i] = w[i]

(* The n bytes behind two places agree. *)
BytesAgree(src, p, w, o, n) == \A i \in 1 .. n : src[p + i] = w[o + i]

(* Equal slices have equal bytes, and the other way round. *)
LEMMA EqualSlices ==
    ASSUME NEW B, NEW src \in Seq(B), NEW C, NEW w \in Seq(C), NEW p \in Nat, NEW o \in Nat,
           NEW n \in Nat, p + n <= Len(src), o + n <= Len(w)
    PROVE  Slice(src, p, n) = Slice(w, o, n) <=> BytesAgree(src, p, w, o, n)
<1>1. PICK x, y : x = Slice(src, p, n) /\ y = Slice(w, o, n)
  OBVIOUS
<1>2. x \in Seq(B) /\ Len(x) = n /\ \A i \in 1 .. n : x[i] = src[p + i]
  BY <1>1, SliceOf
<1>3. y \in Seq(C) /\ Len(y) = n /\ \A i \in 1 .. n : y[i] = w[o + i]
  BY <1>1, SliceOf
<1>4. ASSUME x = y, NEW i \in 1 .. n PROVE src[p + i] = w[o + i]
  BY <1>2, <1>3, <1>4
<1>5. ASSUME BytesAgree(src, p, w, o, n) PROVE x = y
  <2>1. \A i \in 1 .. Len(x) : x[i] = y[i]
    BY <1>2, <1>3, <1>5 DEF BytesAgree
  <2> QED BY <1>2, <1>3, <2>1, EqualSeqs
<1> QED BY <1>1, <1>4, <1>5 DEF BytesAgree

(* What is the same is the same in every part. *)
LEMMA SameContains ==
    ASSUME NEW B, NEW src \in Seq(B), NEW C, NEW w \in Seq(C), NEW start \in Nat, NEW e \in Nat,
           SameBytes(src, start, w, e), NEW o \in Nat, NEW n \in Nat, o + n <= e
    PROVE  start + o + n <= Len(src) /\ Slice(src, start + o, n) = Slice(w, o, n)
<1>1. /\ Len(src) \in Nat /\ Len(w) \in Nat /\ start + e <= Len(src) /\ e <= Len(w)
      /\ \A i \in 1 .. e : src[start + i] = w[i]
  BY LenProperties DEF SameBytes
<1>2. PICK p \in Nat : p = start + o
  OBVIOUS
<1>3. p + n <= Len(src) /\ o + n <= Len(w)
  BY <1>1, <1>2
<1>4. ASSUME NEW i \in 1 .. n PROVE src[p + i] = w[o + i]
  <2>1. o + i \in 1 .. e /\ start + (o + i) = p + i
    BY <1>2
  <2> QED BY <1>1, <2>1
<1>5. Slice(src, p, n) = Slice(w, o, n)
  <2>1. BytesAgree(src, p, w, o, n)
    BY <1>4 DEF BytesAgree
  <2> QED BY <1>3, <2>1, EqualSlices
<1> QED BY <1>2, <1>3, <1>5

(* A prefix that is the same and what follows it. *)
LEMMA SameExtends ==
    ASSUME NEW B, NEW src \in Seq(B), NEW C, NEW w \in Seq(C), NEW start \in Nat, NEW e \in Nat,
           SameBytes(src, start, w, e), NEW n \in Nat, start + e + n <= Len(src),
           e + n <= Len(w), Slice(src, start + e, n) = Slice(w, e, n)
    PROVE  SameBytes(src, start, w, e + n)
<1>1. /\ Len(src) \in Nat /\ Len(w) \in Nat /\ \A i \in 1 .. e : src[start + i] = w[i]
  BY LenProperties DEF SameBytes
<1>2. PICK p \in Nat : p = start + e
  OBVIOUS
<1>3. \A i \in 1 .. n : src[p + i] = w[e + i]
  <2>1. p + n <= Len(src) /\ Slice(src, p, n) = Slice(w, e, n)
    BY <1>2
  <2>2. BytesAgree(src, p, w, e, n)
    BY <2>1, EqualSlices
  <2> QED BY <2>2 DEF BytesAgree
<1>4. ASSUME NEW i \in 1 .. e + n PROVE src[start + i] = w[i]
  <2>1. CASE i \in 1 .. e
    BY <1>1, <2>1
  <2>2. CASE i \notin 1 .. e
    <3>1. PICK j \in 1 .. n : j = i - e
      BY <2>2
    <3>2. p + j = start + i /\ e + j = i
      BY <1>2, <3>1
    <3> QED BY <1>3, <3>2
  <2> QED BY <2>1, <2>2
<1> QED BY <1>1, <1>4 DEF SameBytes

(* A longer source has at least the same bytes. *)
LEMMA SameInLonger ==
    ASSUME NEW B, NEW src \in Seq(B), NEW more \in Seq(B), NEW w, NEW start \in Nat, NEW n \in Nat,
           Len(w) \in Nat
    PROVE  /\ SameBytes(src, start, w, n) => SameBytes(src \o more, start, w, n)
           /\ SameBytes(src \o more, start, w, n) /\ start + n <= Len(src)
                => SameBytes(src, start, w, n)
<1>1. PICK long : long = src \o more
  OBVIOUS
<1>2. /\ Len(src) \in Nat /\ Len(more) \in Nat /\ Len(long) = Len(src) + Len(more)
      /\ \A i \in 1 .. Len(src) : long[i] = src[i]
  BY <1>1, LenProperties, ConcatProperties
<1>3. ASSUME start + n <= Len(src), NEW i \in 1 .. n PROVE long[start + i] = src[start + i]
  <2>1. start + i \in 1 .. Len(src)
    BY <1>2, <1>3
  <2> QED BY <1>2, <2>1
<1>4. ASSUME SameBytes(src, start, w, n) PROVE SameBytes(long, start, w, n)
  <2>1. start + n <= Len(src) /\ n <= Len(w) /\ \A i \in 1 .. n : src[start + i] = w[i]
    BY <1>4 DEF SameBytes
  <2>2. \A i \in 1 .. n : long[start + i] = w[i]
    BY <1>3, <2>1
  <2>3. start + n <= Len(long)
    BY <1>2, <2>1
  <2> QED BY <2>1, <2>2, <2>3 DEF SameBytes
<1>5. ASSUME SameBytes(long, start, w, n), start + n <= Len(src) PROVE SameBytes(src, start, w, n)
  <2>1. n <= Len(w) /\ \A i \in 1 .. n : long[start + i] = w[i]
    BY <1>5 DEF SameBytes
  <2>2. \A i \in 1 .. n : src[start + i] = w[i]
    BY <1>3, <1>5, <2>1
  <2> QED BY <1>5, <2>1, <2>2 DEF SameBytes
<1> QED BY <1>1, <1>4, <1>5

(* holds_whole in terms of the bytes. *)
LEMMA WholeIsSame ==
    ASSUME NEW B, NEW src \in Seq(B), NEW C, NEW w \in Seq(C), NEW start \in 0 .. Len(src),
           NEW c, NEW m, bytes_of_message(c, m) = w
    PROVE  holds_whole(src, start, c, m) <=> SameBytes(src, start, w, Len(w))
<1>1. PICK n \in Nat, size \in Nat : n = Len(w) /\ size = Len(src)
  BY LenProperties
<1>2. PICK l \in Nat : l = least(n, size - start)
  <2>1. size - start \in Nat
    BY <1>1
  <2> QED BY <1>1, <2>1 DEF least
<1>3. start \in Nat /\ start + l <= size /\ l <= n
  BY <1>1, <1>2 DEF least
<1>4. PICK x : x = Slice(src, start, l)
  OBVIOUS
<1>5. holds_whole(src, start, c, m) <=> x = w
  BY <1>1, <1>2, <1>4 DEF holds_whole
<1>6. x \in Seq(B) /\ Len(x) = l /\ \A i \in 1 .. l : x[i] = src[start + i]
  BY <1>1, <1>3, <1>4, SliceOf
<1>7. ASSUME x = w PROVE SameBytes(src, start, w, n)
  BY <1>1, <1>3, <1>6, <1>7 DEF SameBytes
<1>8. ASSUME SameBytes(src, start, w, n) PROVE x = w
  <2>1. start + n <= size /\ \A i \in 1 .. n : src[start + i] = w[i]
    BY <1>1, <1>8 DEF SameBytes
  <2>2. l = n
    BY <1>1, <1>2, <2>1 DEF least
  <2>3. Len(x) = Len(w) /\ \A i \in 1 .. Len(x) : x[i] = w[i]
    BY <1>1, <1>6, <2>1, <2>2
  <2> QED BY <1>6, <2>3, EqualSeqs
<1> QED BY <1>1, <1>5, <1>7, <1>8

-----------------------------------------------------------------------------
(* Where a reader stands after k segments, in the ciphertext and in the    *)
(* plaintext.                                                              *)

EndOf(M, W, k) == IF k = Len(M.segments) THEN Len(W) ELSE Offset(k + 1)
SoFar(M, k) == IF k = Len(M.segments) THEN Len(M.bytes) ELSE k * capacity

(* The next segment in the ciphertext. *)
LEMMA NextSegment ==
    ASSUME NEW c, NEW M, IsMessageOf(c, M), NEW W, NEW h, IsWhole(W, h, M), NEW k \in Nat,
           NEW j \in 1 .. Len(M.segments), j = k + 1, NEW x, x = M.segments[j],
           NEW e, e = EndOf(M, W, k)
    PROVE  /\ e \in Nat /\ x.length \in Nat /\ EndOf(M, W, j) = e + x.length
           /\ e + x.length <= Len(W) /\ Slice(W, e, x.length) = segment_bytes(x)
<1>1. PICK count \in Nat : count = Len(M.segments) /\ j <= count
  BY MessageNumbers
<1>2. k # count /\ e = Offset(j)
  BY <1>1 DEF EndOf
<1>3. /\ Len(W) = Offset(count) + M.segments[count].length
      /\ Offset(j) \in Nat /\ Offset(j) + x.length <= Len(W)
      /\ Slice(W, Offset(j), x.length) = segment_bytes(x)
  BY <1>1 DEF IsWhole
<1>4. x.length \in Nat /\ (KindOf(M, j) # "Final" => x.length = SegmentLength)
  BY SegmentSize
<1>5. EndOf(M, W, j) = e + x.length
  <2>1. CASE j = count
    BY <1>1, <1>2, <1>3, <2>1 DEF EndOf
  <2>2. CASE j # count
    <3>1. x.length = SegmentLength
      BY <1>1, <1>4, <2>2 DEF KindOf
    <3>2. EndOf(M, W, j) = Offset(j + 1)
      BY <1>1, <2>2 DEF EndOf
    <3>3. SegmentLength \in Nat /\ HEADER_LENGTH \in Nat
      BY MessageNumbers, ParametersAssumption
    <3>4. Offset(j + 1) = Offset(j) + SegmentLength
      <4>1. PICK y \in Nat, head \in Nat : y = SegmentLength /\ head = HEADER_LENGTH
        BY <3>3
      <4>2. head + (j + 1 - 1) * y = head + (j - 1) * y + y
        BY <1>1
      <4> QED BY <4>1, <4>2 DEF Offset
    <3> QED BY <1>2, <3>1, <3>2, <3>4
  <2> QED BY <2>1, <2>2
<1> QED BY <1>2, <1>3, <1>4, <1>5

(* Its payload in the plaintext. *)
LEMMA NextPayload ==
    ASSUME NEW c, NEW M, IsMessageOf(c, M), NEW k \in Nat,
           NEW j \in 1 .. Len(M.segments), j = k + 1, NEW g, g = SoFar(M, k),
           NEW p, p = PayloadOf(M, j)
    PROVE  /\ g \in Nat /\ Len(p) \in Nat /\ p \in Seq(Nat) /\ SoFar(M, j) = g + Len(p)
           /\ g + Len(p) <= Len(M.bytes) /\ p = Slice(M.bytes, g, Len(p))
           /\ Len(p) <= capacity /\ (j # Len(M.segments) => Len(p) = capacity)
<1>1. PICK count \in Nat : count = Len(M.segments) /\ j <= count
  BY MessageNumbers
<1>2. PICK d \in Nat : d = capacity
  BY MessageNumbers
<1>3. g = k * d /\ g \in Nat /\ (j - 1) * d = g
  <2>1. k # count /\ g = k * capacity
    BY <1>1 DEF SoFar
  <2>2. k * d \in Nat /\ j - 1 = k
    BY <1>1, <1>2
  <2> QED BY <1>2, <2>1, <2>2
<1>4. /\ p \in Seq(Nat) /\ Len(p) \in 0 .. d
      /\ j # count => Len(p) = d
      /\ j = count => Len(p) = Len(M.bytes) - g
      /\ g + Len(p) <= Len(M.bytes)
      /\ p = Slice(M.bytes, g, Len(p))
  BY <1>1, <1>2, <1>3, PayloadsForm
<1>5. SoFar(M, j) = g + Len(p)
  <2>1. CASE j = count
    <3>1. SoFar(M, j) = Len(M.bytes) /\ Len(M.bytes) \in Nat
      BY <1>1, <2>1, MessageNumbers DEF SoFar
    <3> QED BY <1>3, <1>4, <2>1, <3>1
  <2>2. CASE j # count
    <3>1. SoFar(M, j) = j * d
      BY <1>1, <1>2, <2>2 DEF SoFar
    <3>2. j * d = k * d + d
      BY <1>1
    <3> QED BY <1>3, <1>4, <2>2, <3>1, <3>2
  <2> QED BY <2>1, <2>2
<1> QED BY <1>1, <1>2, <1>3, <1>4, <1>5

(* What was returned so far is the beginning of the plaintext. *)
Returned(M, got) == Len(got) <= Len(M.bytes) /\ got = Slice(M.bytes, 0, Len(got))

(* Nothing was added to what was returned. *)
LEMMA NothingMore ==
    ASSUME NEW c, NEW M, IsMessageOf(c, M), NEW got, Returned(M, got)
    PROVE  got \in Seq(Nat) /\ Len(got) \in Nat /\ got \o <<>> = got
<1>1. M.bytes \in Seq(Nat) /\ Len(M.bytes) \in Nat
  BY MessageNumbers
<1>2. got = SubSeq(M.bytes, 1, Len(got)) /\ Len(got) <= Len(M.bytes)
  BY DEF Returned, Slice
<1>3. got \in Seq(Nat)
  BY <1>1, <1>2
<1> QED BY <1>3

(* The next bytes of the plaintext were added to what was returned. *)
LEMMA ReturnedMore ==
    ASSUME NEW c, NEW M, IsMessageOf(c, M), NEW got, Returned(M, got), NEW n \in Nat, NEW p,
           p = Slice(M.bytes, Len(got), n), Len(got) + n <= Len(M.bytes)
    PROVE  Returned(M, got \o p) /\ Len(got \o p) = Len(got) + n
<1>1. PICK bytes \in Seq(Nat) : bytes = M.bytes /\ Len(bytes) \in Nat
  BY MessageNumbers
<1>2. PICK g \in Nat : g = Len(got)
  BY NothingMore
<1>3. got = Slice(bytes, 0, g) /\ p = Slice(bytes, g, n) /\ g + n <= Len(bytes)
  BY <1>1, <1>2 DEF Returned
<1>4. got \o p = Slice(bytes, 0, g + n)
  <2>1. 0 + g + n <= Len(bytes) /\ 0 + g = g
    BY <1>2, <1>3
  <2>2. Slice(bytes, 0, g) \o Slice(bytes, 0 + g, n) = Slice(bytes, 0, g + n)
    <3>1. PICK z \in Nat : z = 0
      OBVIOUS
    <3>2. z + g + n <= Len(bytes)
      BY <2>1, <3>1
    <3>3. Slice(bytes, z, g) \o Slice(bytes, z + g, n) = Slice(bytes, z, g + n)
      BY <3>2, SliceJoin
    <3> QED BY <3>1, <3>3
  <2> QED BY <1>3, <2>1, <2>2
<1>5. Len(Slice(bytes, 0, g + n)) = g + n
  <2>1. 0 + (g + n) <= Len(bytes) /\ g + n \in Nat
    BY <1>2, <1>3
  <2> QED BY <1>1, <2>1, SliceOf
<1> QED BY <1>1, <1>2, <1>3, <1>4, <1>5 DEF Returned

(* At most one context is derived. *)
LEMMA OneContext ==
    ASSUME NEW parameters, NEW bytes, NEW c \in opened_context(key, aad, parameters, header_in(bytes))
    PROVE  opened_context(key, aad, parameters, header_in(bytes)) = Some(c)
<1>1. PICK x \in header_in(bytes) : c = Context(key, x.parameters, x.iv, aad)
  BY DEF opened_context
<1>2. header_in(bytes) = {x}
  BY <1>1 DEF header_in, Some, None
<1>3. PICK t : t = opened_context(key, aad, parameters, header_in(bytes))
  OBVIOUS
<1>4. \A y \in t : y = c
  BY <1>1, <1>2, <1>3 DEF opened_context
<1> QED BY <1>3, <1>4 DEF Some

-----------------------------------------------------------------------------
(* A segment of the message among the bytes of a source. *)

(* Its prefix is read back. *)
LEMMA PrefixRead ==
    ASSUME NEW B, NEW src \in Seq(B), NEW pos \in Nat, NEW c, NEW M, IsMessageOf(c, M),
           NEW j \in 1 .. Len(M.segments), NEW x, x = M.segments[j],
           pos + x.length <= Len(src), Slice(src, pos, x.length) = segment_bytes(x)
    PROVE  prefix_in(Slice(src, pos, SEGMENT_PREFIX_LENGTH)) = x.prefix
<1>1. PICK q \in Nat : q = SEGMENT_PREFIX_LENGTH /\ q > 0 /\ q <= SEGMENT_OVERHEAD
  BY ParametersAssumption DEF SEGMENT_OVERHEAD
<1>2. PICK n \in Nat : n = x.length /\ q <= n
  <2>1. x.length \in Nat \ {0} /\ x.length \in SEGMENT_OVERHEAD .. SegmentLength
    BY SegmentSize
  <2>2. SEGMENT_OVERHEAD \in Nat
    BY ParametersAssumption DEF SEGMENT_OVERHEAD
  <2> QED BY <1>1, <2>1, <2>2
<1>3. is_segment(x)
  BY KeysOf, SealedIsSegment
<1>4. Slice(src, pos, n) = bytes_of(x, n) /\ pos + n <= Len(src)
  BY <1>2 DEF segment_bytes
<1> QED BY <1>1, <1>2, <1>3, <1>4, PrefixOfBytes

(* A segment of the message that is in some bytes declares its framing     *)
(* there, and opens at its position.                                       *)
DeclaredBy(bytes, length, kind) ==
    LET f == decode_framing(SegmentLength, prefix_in(bytes))
    IN  f.ok /\ f.value = Framing(length, kind)

IsThere(c, k, x, kind, src, pos) ==
    /\ OpensAs(c, k, x, kind)
    /\ DeclaredBy(Slice(src, pos, SEGMENT_PREFIX_LENGTH), x.length, kind)
    /\ segment_in(Slice(src, pos, x.length)) = x

LEMMA SegmentDeclares ==
    ASSUME NEW B, NEW src \in Seq(B), NEW pos \in Nat, NEW c, NEW M, IsMessageOf(c, M),
           NEW k \in Nat, NEW j \in 1 .. Len(M.segments), j = k + 1, NEW x, x = M.segments[j],
           pos + x.length <= Len(src), Slice(src, pos, x.length) = segment_bytes(x)
    PROVE  IsThere(c, k, x, KindOf(M, j), src, pos)
<1>1. PICK n \in Nat \ {0}, kind \in Kinds : n = x.length /\ kind = KindOf(M, j)
      /\ n \in SEGMENT_OVERHEAD .. SegmentLength
  BY SegmentSize DEF KindOf, Kinds
<1>2. /\ SEGMENT_OVERHEAD \in Nat /\ SegmentLength \in Nat /\ SegmentLength < U32_MAX
      /\ U32_MAX \in Nat /\ Len(M.segments) \in Nat
  BY MessageNumbers, ParametersAssumption
<1>3. /\ x.key = derive_segment_key(c, masked_position(j - 1)) /\ x.position = j - 1
      /\ x.kind = kind /\ x.prefix = segment_prefix(kind, n) /\ IsSealed(x)
  BY <1>1, KeysOf, SMTT(30)
<1>4. j - 1 = k
  BY <1>2
<1>5. kind = "NonFinal" => n = SegmentLength
  BY <1>1, SegmentSize
<1>6. validate_segment(SegmentLength, x, kind)
  <2>1. x.prefix = IF kind = "NonFinal" THEN U32_MAX ELSE n
    BY <1>3 DEF segment_prefix
  <2> QED BY <1>1, <1>5, <2>1 DEF validate_segment, validate_ciphertext_segment_length, Kinds
<1>7. OpensAs(c, k, x, kind)
  <2>1. ~x.damaged
    BY <1>3, SealedIsSegment
  <2> QED BY <1>3, <1>4, <1>6, <2>1 DEF OpensAs, opens
<1>8. DeclaredBy(Slice(src, pos, SEGMENT_PREFIX_LENGTH), n, kind)
  <2>1. prefix_in(Slice(src, pos, SEGMENT_PREFIX_LENGTH)) = x.prefix
    BY PrefixRead
  <2>2. PICK f : f = decode_framing(SegmentLength, x.prefix)
    OBVIOUS
  <2>3. f = [ok |-> TRUE, value |-> Framing(n, kind)]
    <3>1. CASE kind = "NonFinal"
      BY <1>3, <1>5, <2>2, <3>1 DEF decode_framing, segment_prefix, Ok
    <3>2. CASE kind = "Final"
      <4>1. x.prefix = n /\ n # U32_MAX
        BY <1>1, <1>2, <1>3, <3>2 DEF segment_prefix
      <4> QED BY <1>1, <2>2, <3>2, <4>1 DEF decode_framing, Ok
    <3> QED BY <3>1, <3>2 DEF Kinds
  <2>4. f.ok /\ f.value = Framing(n, kind)
    BY <2>3
  <2> QED BY <1>1, <2>1, <2>2, <2>4 DEF DeclaredBy
<1>9. segment_in(Slice(src, pos, x.length)) = x
  BY SegmentReadBack
<1> QED BY <1>1, <1>7, <1>8, <1>9 DEF IsThere

(* A position of the message is one that the counter gives its kind. *)
LEMMA PositionGiven ==
    ASSUME NEW c, NEW M, IsMessageOf(c, M), Len(M.segments) <= AEAD_MAX_SEGMENTS,
           NEW k \in Nat, NEW j \in 1 .. Len(M.segments), j = k + 1
    PROVE  position_for_ok([next |-> k, closed |-> FALSE], KindOf(M, j)) /\ k < AEAD_MAX_SEGMENTS
<1>1. Len(M.segments) \in Nat /\ AEAD_MAX_SEGMENTS \in Nat
  BY MessageNumbers, ParametersAssumption
<1>2. PICK kind \in Kinds : kind = KindOf(M, j)
  BY DEF KindOf, Kinds
<1>3. kind = "NonFinal" => k # AEAD_MAX_SEGMENTS - 1
  BY <1>1, <1>2 DEF KindOf
<1>4. k < AEAD_MAX_SEGMENTS
  BY <1>1
<1> QED BY <1>2, <1>3, <1>4, CounterSteps DEF Kinds

=============================================================================
