---------------------------- MODULE SegmentProofs ----------------------------
(***************************************************************************)
(* Lemmas about the operators of Parameters, SegmentCrypto, SegmentBuffer  *)
(* and Wire, which the proofs of the components cite.                      *)
(***************************************************************************)
EXTENDS SegmentBuffer, Wire, SequenceTheorems, WellFoundedInduction, TLAPS

-----------------------------------------------------------------------------
(* Sequences of anything. *)

IsSeq(s) == \E S : s \in Seq(S)

LEMMA AppendToSeq ==
    ASSUME NEW s, IsSeq(s), NEW e
    PROVE  /\ IsSeq(Append(s, e))
           /\ Len(s) \in Nat /\ Len(Append(s, e)) = Len(s) + 1
           /\ \A i \in 1 .. Len(s) : Append(s, e)[i] = s[i]
           /\ Append(s, e)[Len(s) + 1] = e
<1>1. PICK S : s \in Seq(S)
  BY DEF IsSeq
<1>2. s \in Seq(S \cup {e})
  BY <1>1, SeqMonotonic
<1> QED BY <1>2, AppendProperties, LenProperties DEF IsSeq

-----------------------------------------------------------------------------
(* Arithmetic of the lengths. *)

(* u64 division and remainder. *)
LEMMA DivMod ==
    ASSUME NEW n \in Nat, NEW d \in Nat \ {0}
    PROVE  /\ n \div d \in Nat
           /\ n % d \in 0 .. d - 1
           /\ n = d * (n \div d) + (n % d)
OBVIOUS

(* A quotient is the one number of whole divisors below n. *)
LEMMA DivUnique ==
    ASSUME NEW n \in Nat, NEW d \in Nat \ {0}, NEW q \in Int,
           d * q <= n, n < d * (q + 1)
    PROVE  n \div d = q
BY DivMod

(* u64::div_ceil returns the least number of divisors that cover n. *)
LEMMA DivCeilBounds ==
    ASSUME NEW n \in Nat, NEW d \in Nat \ {0}
    PROVE  /\ DivCeil(n, d) \in Nat
           /\ n <= d * DivCeil(n, d)
           /\ n > 0 => DivCeil(n, d) > 0 /\ d * (DivCeil(n, d) - 1) < n
           /\ n = 0 => DivCeil(n, d) = 0
BY DivMod DEF DivCeil

LEMMA DivCeilUnique ==
    ASSUME NEW n \in Nat, NEW d \in Nat \ {0}, NEW q \in Int,
           d * (q - 1) < n, n <= d * q
    PROVE  DivCeil(n, d) = q
BY DivCeilBounds DEF DivCeil

(* masked_position names the rotation period that a position lies in. *)
LEMMA MaskedGroup ==
    ASSUME NEW i \in Nat
    PROVE  /\ masked_position(i) \in Nat
           /\ i \in masked_position(i) .. masked_position(i) + ROTATION_PERIOD - 1
<1>1. ROTATION_PERIOD \in Nat \ {0}
  BY ParametersAssumption
<1>2. /\ i % ROTATION_PERIOD \in 0 .. ROTATION_PERIOD - 1
      /\ i \div ROTATION_PERIOD \in Nat
      /\ i = ROTATION_PERIOD * (i \div ROTATION_PERIOD) + (i % ROTATION_PERIOD)
  BY <1>1, DivMod
<1>3. i % ROTATION_PERIOD <= i
  BY <1>1, <1>2
<1> QED BY <1>1, <1>2, <1>3 DEF masked_position

(* The lengths of a parameter set. *)
LEMMA SegmentLengths ==
    ASSUME NEW p \in VALID_SEGMENT_LENGTHS
    PROVE  /\ SEGMENT_OVERHEAD \in Nat \ {0}
           /\ plaintext_segment_length(p) \in Nat \ {0}
           /\ p \in Nat /\ p = SEGMENT_OVERHEAD + plaintext_segment_length(p)
           /\ p < U32_MAX
<1>1. SEGMENT_OVERHEAD \in Nat \ {0}
  BY ParametersAssumption DEF SEGMENT_OVERHEAD
<1>2. p \in Nat /\ MIN_SEGMENT_LENGTH <= p /\ p < U32_MAX
  BY ParametersAssumption DEF VALID_SEGMENT_LENGTHS
<1> QED BY <1>1, <1>2, ParametersAssumption DEF plaintext_segment_length

-----------------------------------------------------------------------------
(* The layout constructors. *)

SegmentCountFor(p, n) ==
    LET blocks == DivCeil(n, plaintext_segment_length(p))
    IN  IF blocks < 1 THEN 1 ELSE blocks

CiphertextLengthFor(p, n) ==
    HEADER_LENGTH + n + SegmentCountFor(p, n) * SEGMENT_OVERHEAD

LayoutRecord(p, n, l, count) ==
    [parameters |-> p, plaintext_length |-> n, ciphertext_length |-> l,
     segment_count |-> count]

(* The segments of a message are the fewest that hold it. *)
LEMMA SegmentCountBounds ==
    ASSUME NEW p \in VALID_SEGMENT_LENGTHS, NEW n \in Nat
    PROVE  LET count == SegmentCountFor(p, n)
               d == plaintext_segment_length(p)
           IN  /\ count \in Nat \ {0}
               /\ n <= count * d
               /\ (count - 1) * d <= n
               /\ count > 1 => (count - 1) * d < n
               /\ CiphertextLengthFor(p, n) \in Nat
<1> DEFINE d == plaintext_segment_length(p)
           blocks == DivCeil(n, d)
           count == SegmentCountFor(p, n)
<1>1. d \in Nat \ {0}
  BY SegmentLengths
<1>2. /\ blocks \in Nat /\ n <= d * blocks
      /\ n > 0 => blocks > 0 /\ d * (blocks - 1) < n
      /\ n = 0 => blocks = 0
  BY <1>1, DivCeilBounds
<1>3. count = IF blocks < 1 THEN 1 ELSE blocks
  BY DEF SegmentCountFor
<1> HIDE DEF d, blocks, count
<1>4. /\ count \in Nat \ {0}
      /\ n <= count * d
      /\ (count - 1) * d <= n
      /\ count > 1 => (count - 1) * d < n
  BY <1>1, <1>2, <1>3
<1>5. HEADER_LENGTH + n + count * SEGMENT_OVERHEAD \in Nat
  BY <1>4, ParametersAssumption, SegmentLengths
<1> QED BY <1>4, <1>5 DEF d, count, CiphertextLengthFor

(* What Parameters::plaintext_layout returns, and when. *)
LEMMA PlaintextLayoutForm ==
    ASSUME NEW p \in VALID_SEGMENT_LENGTHS, NEW n \in Nat
    PROVE  /\ plaintext_layout(p, n).ok <=>
                  /\ SegmentCountFor(p, n) <= AEAD_MAX_SEGMENTS
                  /\ CiphertextLengthFor(p, n) <= U64_MAX
           /\ plaintext_layout(p, n).ok =>
                  plaintext_layout(p, n) =
                    Ok(LayoutRecord(p, n, CiphertextLengthFor(p, n), SegmentCountFor(p, n)))
<1> DEFINE count == SegmentCountFor(p, n)
           l == CiphertextLengthFor(p, n)
<1>1. plaintext_layout(p, n) =
        CASE count > AEAD_MAX_SEGMENTS -> Err("SegmentLimit")
          [] count <= AEAD_MAX_SEGMENTS /\ ~fits_u64(l) -> Err("LengthOverflow")
          [] OTHER -> Ok(LayoutRecord(p, n, l, count))
  BY DEF plaintext_layout, SegmentCountFor, CiphertextLengthFor, LayoutRecord
<1>2. count \in Nat /\ l \in Nat
  BY SegmentCountBounds
<1> HIDE DEF count, l
<1>3. CASE count > AEAD_MAX_SEGMENTS
  BY <1>1, <1>2, <1>3, ParametersAssumption DEF Err, count, l
<1>4. CASE count <= AEAD_MAX_SEGMENTS /\ l > U64_MAX
  <2>1. plaintext_layout(p, n) = Err("LengthOverflow")
    BY <1>1, <1>2, <1>4, ParametersAssumption DEF fits_u64
  <2> QED BY <1>2, <1>4, <2>1, ParametersAssumption DEF Err, count, l
<1>5. CASE count <= AEAD_MAX_SEGMENTS /\ l <= U64_MAX
  <2>1. plaintext_layout(p, n) = Ok(LayoutRecord(p, n, l, count))
    BY <1>1, <1>2, <1>5, ParametersAssumption DEF fits_u64
  <2> QED BY <1>2, <1>5, <2>1 DEF Ok, count, l
<1> QED BY <1>2, <1>3, <1>4, <1>5, ParametersAssumption

(* What Parameters::ciphertext_layout returns, and when. *)
LEMMA CiphertextLayoutForm ==
    ASSUME NEW p \in VALID_SEGMENT_LENGTHS, NEW l \in Nat
    PROVE  LET body == l - HEADER_LENGTH
               count == DivCeil(body, p)
           IN  /\ ciphertext_layout(p, l).ok <=>
                      /\ body > 0
                      /\ count <= AEAD_MAX_SEGMENTS
                      /\ body - (count - 1) * p >= SEGMENT_OVERHEAD
               /\ ciphertext_layout(p, l).ok =>
                      ciphertext_layout(p, l) =
                        Ok(LayoutRecord(p, body - count * SEGMENT_OVERHEAD, l, count))
<1> DEFINE body == l - HEADER_LENGTH
           count == DivCeil(body, p)
           final == body - (count - 1) * p
<1>1. ciphertext_layout(p, l) =
        CASE body < 0 -> Err("InvalidHeaderLength")
          [] body = 0 -> Err("Truncated")
          [] body > 0 /\ count > AEAD_MAX_SEGMENTS -> Err("SegmentLimit")
          [] body > 0 /\ count <= AEAD_MAX_SEGMENTS /\ ~is_final_length(final) ->
                Err("InvalidCiphertextLength")
          [] OTHER -> Ok(LayoutRecord(p, body - count * SEGMENT_OVERHEAD, l, count))
  BY DEF ciphertext_layout, LayoutRecord
<1>2. body \in Int /\ (body > 0 => count \in Nat /\ final \in Int)
  <2>1. body \in Int /\ p \in Nat \ {0}
    BY ParametersAssumption, SegmentLengths
  <2>2. ASSUME body > 0 PROVE count \in Nat
    BY <2>1, <2>2, DivCeilBounds
  <2> QED BY <2>1, <2>2
<1> HIDE DEF body, count, final
<1>3. CASE ~(body > 0)
  <2>1. ciphertext_layout(p, l) \in {Err("InvalidHeaderLength"), Err("Truncated")}
    BY <1>1, <1>2, <1>3
  <2> QED BY <1>3, <2>1 DEF Err, body, count
<1>4. CASE body > 0 /\ count > AEAD_MAX_SEGMENTS
  <2>1. ciphertext_layout(p, l) = Err("SegmentLimit")
    BY <1>1, <1>2, <1>4, ParametersAssumption
  <2> QED BY <1>2, <1>4, <2>1, ParametersAssumption DEF Err, body, count
<1>5. CASE body > 0 /\ count <= AEAD_MAX_SEGMENTS /\ ~(final >= SEGMENT_OVERHEAD)
  <2>1. ciphertext_layout(p, l) = Err("InvalidCiphertextLength")
    BY <1>1, <1>2, <1>5, ParametersAssumption DEF is_final_length
  <2> QED BY <1>5, <2>1 DEF Err, body, count, final
<1>6. CASE body > 0 /\ count <= AEAD_MAX_SEGMENTS /\ final >= SEGMENT_OVERHEAD
  <2>1. ciphertext_layout(p, l) =
          Ok(LayoutRecord(p, body - count * SEGMENT_OVERHEAD, l, count))
    BY <1>1, <1>2, <1>6, ParametersAssumption DEF is_final_length
  <2> QED BY <1>6, <2>1 DEF Ok, body, count, final
<1> QED BY <1>2, <1>3, <1>4, <1>5, <1>6, ParametersAssumption

(* A layout that the constructors can return: the final segment takes what *)
(* the full ones before it leave.                                          *)
GoodLayout(y) ==
    LET d == plaintext_segment_length(y.parameters)
    IN  /\ y = LayoutRecord(y.parameters, y.plaintext_length, y.ciphertext_length,
                            y.segment_count)
        /\ y.parameters \in VALID_SEGMENT_LENGTHS
        /\ y.segment_count \in 1 .. AEAD_MAX_SEGMENTS
        /\ y.plaintext_length \in Nat
        /\ (y.segment_count - 1) * d <= y.plaintext_length
        /\ y.plaintext_length <= y.segment_count * d
        /\ y.ciphertext_length =
             HEADER_LENGTH + y.plaintext_length + y.segment_count * SEGMENT_OVERHEAD

LEMMA LayoutFields ==
    ASSUME NEW p, NEW n, NEW l, NEW count
    PROVE  LET y == LayoutRecord(p, n, l, count)
           IN  /\ Ok(y).ok /\ Ok(y).value = y
               /\ y.parameters = p /\ y.plaintext_length = n
               /\ y.ciphertext_length = l /\ y.segment_count = count
BY DEF LayoutRecord, Ok

LEMMA PlaintextLayoutIsGood ==
    ASSUME NEW p \in VALID_SEGMENT_LENGTHS, NEW n \in Nat, plaintext_layout(p, n).ok
    PROVE  LET y == plaintext_layout(p, n).value
           IN  /\ GoodLayout(y)
               /\ y = LayoutRecord(p, n, CiphertextLengthFor(p, n), SegmentCountFor(p, n))
               /\ y.ciphertext_length <= U64_MAX
<1> DEFINE count == SegmentCountFor(p, n)
           l == CiphertextLengthFor(p, n)
           d == plaintext_segment_length(p)
           y == plaintext_layout(p, n).value
<1>1. y = LayoutRecord(p, n, l, count)
  BY PlaintextLayoutForm DEF Ok
<1>2. /\ y.parameters = p /\ y.plaintext_length = n
      /\ y.ciphertext_length = l /\ y.segment_count = count
  BY <1>1, LayoutFields
<1>3. count <= AEAD_MAX_SEGMENTS /\ l <= U64_MAX
  BY PlaintextLayoutForm
<1>4. /\ count \in Nat \ {0} /\ n <= count * d /\ (count - 1) * d <= n
      /\ l = HEADER_LENGTH + n + count * SEGMENT_OVERHEAD
  BY SegmentCountBounds DEF CiphertextLengthFor
<1>5. count \in 1 .. AEAD_MAX_SEGMENTS
  BY <1>3, <1>4, ParametersAssumption
<1> HIDE DEF count, l, y
<1>6. GoodLayout(y)
  BY <1>1, <1>2, <1>4, <1>5 DEF GoodLayout
<1> QED BY <1>1, <1>2, <1>3, <1>6 DEF count, l, y

LEMMA CiphertextLayoutIsGood ==
    ASSUME NEW p \in VALID_SEGMENT_LENGTHS, NEW l \in Nat, ciphertext_layout(p, l).ok
    PROVE  LET y == ciphertext_layout(p, l).value
           IN  GoodLayout(y) /\ y.parameters = p /\ y.ciphertext_length = l
<1> DEFINE body == l - HEADER_LENGTH
           count == DivCeil(body, p)
           d == plaintext_segment_length(p)
           n == body - count * SEGMENT_OVERHEAD
           y == ciphertext_layout(p, l).value
<1>1. y = LayoutRecord(p, n, l, count)
  BY CiphertextLayoutForm DEF Ok
<1>2. /\ y.parameters = p /\ y.plaintext_length = n
      /\ y.ciphertext_length = l /\ y.segment_count = count
  BY <1>1, LayoutFields
<1>3. body > 0 /\ count <= AEAD_MAX_SEGMENTS /\ body - (count - 1) * p >= SEGMENT_OVERHEAD
  BY CiphertextLayoutForm
<1>4. /\ p \in Nat \ {0} /\ d \in Nat /\ SEGMENT_OVERHEAD \in Nat
      /\ p = SEGMENT_OVERHEAD + d /\ HEADER_LENGTH \in Nat /\ AEAD_MAX_SEGMENTS \in Nat
  BY SegmentLengths, ParametersAssumption
<1>5. body \in Nat /\ l = HEADER_LENGTH + body
  BY <1>3, <1>4
<1>6. count \in Nat \ {0} /\ body <= p * count
  BY <1>3, <1>4, <1>5, DivCeilBounds
<1>7. n = body - count * SEGMENT_OVERHEAD
  OBVIOUS
<1> HIDE DEF body, count, d, n, y
<1>8. count \in 1 .. AEAD_MAX_SEGMENTS
  BY <1>3, <1>4, <1>6
<1>9. p * count = count * SEGMENT_OVERHEAD + count * d
  BY <1>4, <1>6
<1>10. (count - 1) * p = count * SEGMENT_OVERHEAD - SEGMENT_OVERHEAD + (count - 1) * d
  BY <1>4, <1>6
<1>11. (count - 1) * d \in Nat /\ count * SEGMENT_OVERHEAD \in Nat /\ count * d \in Nat
  BY <1>4, <1>6
<1>12. /\ n \in Nat /\ (count - 1) * d <= n /\ n <= count * d
       /\ l = HEADER_LENGTH + n + count * SEGMENT_OVERHEAD
  BY <1>3, <1>4, <1>5, <1>6, <1>7, <1>9, <1>10, <1>11
<1> QED BY <1>1, <1>2, <1>8, <1>12 DEF GoodLayout, d, y

-----------------------------------------------------------------------------
(* The segments of a layout. *)

KindAt(y, i) == IF i + 1 = y.segment_count THEN "Final" ELSE "NonFinal"

PayloadAt(y, i) ==
    LET d == plaintext_segment_length(y.parameters)
    IN  IF i + 1 = y.segment_count THEN y.plaintext_length - i * d ELSE d

SegmentAt(y, i) ==
    [parameters |-> y.parameters,
     position |-> i,
     plaintext_offset |-> i * plaintext_segment_length(y.parameters),
     plaintext_length |-> PayloadAt(y, i),
     ciphertext_offset |-> ciphertext_offset(y.parameters, i),
     ciphertext_length |-> SEGMENT_OVERHEAD + PayloadAt(y, i),
     kind |-> KindAt(y, i)]

(* What MessageLayout::segment_for_position returns. *)
LEMMA SegmentForPosition ==
    ASSUME NEW y, GoodLayout(y), NEW i \in 0 .. y.segment_count - 1
    PROVE  segment_for_position(y, i) = Some(SegmentAt(y, i))
<1>1. i + 1 = y.segment_count \/ i + 1 # y.segment_count
  OBVIOUS
<1>2. ~(i >= y.segment_count)
  BY DEF GoodLayout
<1>3. CASE i + 1 = y.segment_count
  BY <1>2, <1>3 DEF segment_for_position, SegmentAt, PayloadAt, KindAt
<1>4. CASE i + 1 # y.segment_count
  BY <1>2, <1>4 DEF segment_for_position, SegmentAt, PayloadAt, KindAt
<1> QED BY <1>3, <1>4

(* The unchecked arithmetic of segment_for_position neither wraps nor      *)
(* underflows, and each segment ends where the next begins.                *)
LEMMA SegmentBounds ==
    ASSUME NEW y, GoodLayout(y), NEW i \in 0 .. y.segment_count - 1
    PROVE  LET d == plaintext_segment_length(y.parameters)
               p == y.parameters
           IN  /\ PayloadAt(y, i) \in 0 .. d
               /\ i + 1 # y.segment_count => PayloadAt(y, i) = d
               /\ i + 1 = y.segment_count =>
                     /\ i * d + PayloadAt(y, i) = y.plaintext_length
                     /\ ciphertext_offset(p, i) + SEGMENT_OVERHEAD + PayloadAt(y, i)
                          = y.ciphertext_length
               /\ i + 1 # y.segment_count =>
                     /\ i * d + PayloadAt(y, i) = (i + 1) * d
                     /\ ciphertext_offset(p, i) + SEGMENT_OVERHEAD + PayloadAt(y, i)
                          = ciphertext_offset(p, i + 1)
               /\ i * d \in Nat /\ i * d <= y.plaintext_length
               /\ ciphertext_offset(p, i) \in Nat
               /\ ciphertext_offset(p, i) <= y.ciphertext_length
<1> DEFINE p == y.parameters
           d == plaintext_segment_length(p)
           c == y.segment_count
           n == y.plaintext_length
<1>1. /\ p \in Nat /\ d \in Nat \ {0} /\ SEGMENT_OVERHEAD \in Nat \ {0}
      /\ p = SEGMENT_OVERHEAD + d /\ HEADER_LENGTH \in Nat
  BY SegmentLengths, ParametersAssumption DEF GoodLayout
<1>2. /\ c \in Nat \ {0} /\ n \in Nat
      /\ (c - 1) * d <= n /\ n <= c * d
      /\ y.ciphertext_length = HEADER_LENGTH + n + c * SEGMENT_OVERHEAD
  BY ParametersAssumption DEF GoodLayout
<1>3. i \in Nat /\ i <= c - 1
  BY <1>2
<1>4. /\ ciphertext_offset(p, i) = HEADER_LENGTH + i * p
      /\ ciphertext_offset(p, i + 1) = HEADER_LENGTH + (i + 1) * p
      /\ PayloadAt(y, i) = IF i + 1 = c THEN n - i * d ELSE d
  BY DEF ciphertext_offset, PayloadAt
<1> HIDE DEF p, d, c, n
<1>5. i * d \in Nat /\ i * p \in Nat /\ i * d <= (c - 1) * d
  BY <1>1, <1>2, <1>3
<1>6. i * p = i * SEGMENT_OVERHEAD + i * d
  BY <1>1, <1>3
<1>7. i * SEGMENT_OVERHEAD \in Nat /\ i * SEGMENT_OVERHEAD <= c * SEGMENT_OVERHEAD
  BY <1>1, <1>2, <1>3
<1>8. (i + 1) * p = i * p + p /\ (i + 1) * d = i * d + d
  BY <1>1, <1>3
<1>9. CASE i + 1 = c
  <2>1. PayloadAt(y, i) = n - i * d
    BY <1>4, <1>9
  <2>2. c * d = i * d + d /\ (c - 1) * d = i * d
        /\ c * SEGMENT_OVERHEAD = i * SEGMENT_OVERHEAD + SEGMENT_OVERHEAD
    BY <1>1, <1>3, <1>9
  <2>3. PayloadAt(y, i) \in 0 .. d
    BY <1>1, <1>2, <1>5, <2>1, <2>2
  <2>4. i * d + PayloadAt(y, i) = n
    BY <1>2, <1>5, <2>1
  <2>5. HEADER_LENGTH + i * p + SEGMENT_OVERHEAD + PayloadAt(y, i) = y.ciphertext_length
    BY <1>1, <1>2, <1>5, <1>6, <1>7, <2>1, <2>2
  <2>6. HEADER_LENGTH + i * p <= y.ciphertext_length
    BY <1>1, <1>5, <2>3, <2>5
  <2> QED BY <1>1, <1>2, <1>4, <1>5, <1>9, <2>3, <2>4, <2>5, <2>6 DEF p, d, c, n
<1>10. CASE i + 1 # c
  <2>1. PayloadAt(y, i) = d /\ d \in 0 .. d
    BY <1>1, <1>4, <1>10
  <2>2. i * d <= n
    BY <1>1, <1>2, <1>5
  <2>3. HEADER_LENGTH + i * p + SEGMENT_OVERHEAD + d = HEADER_LENGTH + (i + 1) * p
    BY <1>1, <1>5, <1>8
  <2>4. HEADER_LENGTH + i * p <= y.ciphertext_length
    BY <1>1, <1>2, <1>5, <1>6, <1>7, <2>2
  <2> QED BY <1>1, <1>4, <1>5, <1>8, <1>10, <2>1, <2>2, <2>3, <2>4 DEF p, d, c, n
<1> QED BY <1>9, <1>10

-----------------------------------------------------------------------------
(* What the key cache does. *)

(* A key cache holds at most one key, and it is the key of its label. *)
LabelledCache(keys, ctx) ==
    /\ \A c \in keys : c = derive(ctx, c.masked_position)
    /\ \A c1, c2 \in keys : c1 = c2

(* Whatever happens to a lookup, the cache stays correctly labelled        *)
(* (KeyCache::key_for_position).                                           *)
LEMMA CacheStaysLabelled ==
    ASSUME NEW ctx, NEW keys, NEW position, NEW fault, LabelledCache(keys, ctx)
    PROVE  LabelledCache(key_cache_after(keys, ctx, position, fault), ctx)
BY DEF LabelledCache, key_cache_after, derive, Some

(* A lookup that succeeds returns the key derived for the position.        *)
LEMMA LookupReturnsKey ==
    ASSUME NEW ctx, NEW keys, NEW position, NEW fault, LabelledCache(keys, ctx),
           key_for_position_ok(keys, position, fault), position \in Nat
    PROVE  key_of(key_cache_after(keys, ctx, position, fault))
             = derive_segment_key(ctx, masked_position(position))
<1> DEFINE found == key_cache_after(keys, ctx, position, fault)
<1>1. found = Some(derive(ctx, masked_position(position)))
  <2>1. CASE is_cached(keys, position)
    <3>1. PICK c \in keys : c.masked_position = masked_position(position)
      BY <2>1 DEF is_cached
    <3>2. c = derive(ctx, masked_position(position))
      BY <3>1 DEF LabelledCache
    <3>3. keys = {c}
      BY <3>1 DEF LabelledCache
    <3> QED BY <2>1, <3>2, <3>3 DEF key_cache_after, Some
  <2>2. CASE ~is_cached(keys, position)
    BY <2>2, ParametersAssumption DEF key_cache_after, key_for_position_ok
  <2> QED BY <2>1, <2>2
<1>2. \A c \in found : c.key = derive_segment_key(ctx, masked_position(position))
  BY <1>1 DEF derive, Some
<1>3. found # {}
  BY <1>1 DEF Some
<1> QED BY <1>2, <1>3 DEF key_of

-----------------------------------------------------------------------------
(* What one call of the encryptor does. *)

(* The counter's steps (SegmentCounter::position_for and complete). *)
LEMMA CounterSteps ==
    ASSUME NEW i \in Nat
    PROVE  LET counter == [next |-> i, closed |-> FALSE]
           IN  /\ complete(counter, "NonFinal") = [next |-> i + 1, closed |-> FALSE]
               /\ position_for_ok(counter, "NonFinal") <=> i # AEAD_MAX_SEGMENTS - 1
               /\ position_for_ok(counter, "Final") <=> i < AEAD_MAX_SEGMENTS
BY DEF complete, position_for_ok

EncryptionState(k, b, n) == [keys |-> k, nonces |-> [batch |-> b, next |-> n]]

(* r is what an encryption at a position may return from a generator whose *)
(* batch is b, with n of its nonces gone, and whose next fill draws d: the *)
(* cache is correct, the nonces have not moved back, and a sealed segment  *)
(* has one that was not taken.                                             *)
SegmentShape(r, ctx, b, d, n, position, kind, plaintext) ==
    \E k : \E c \in {b, d}, m \in 0 .. NONCE_BATCH_SIZE :
        /\ LabelledCache(k, ctx)
        /\ r.state = EncryptionState(k, c, m)
        /\ c = b => m >= n
        /\ r.ok => /\ m >= 1
                   /\ c = b => m > n
                   /\ r.segment = seal(derive_segment_key(ctx, masked_position(position)),
                                       <<c, m - 1>>, position, kind, plaintext)

(* One segment encryption from a state with a correct cache has that shape *)
(* (begin_segment_encryption, KeyCache and NonceGenerator).                *)
LEMMA EncryptSegmentShape ==
    ASSUME NEW ctx, NEW keys, LabelledCache(keys, ctx), NEW b \in Nat,
           NEW d \in Nat \ {b}, NEW n \in 0 .. NONCE_BATCH_SIZE,
           NEW plaintext, NEW position \in Nat, NEW kind, NEW room, NEW fault
    PROVE  SegmentShape(encrypt_segment(EncryptionState(keys, b, n), ctx, plaintext,
                                        position, kind, room, fault, d),
                        ctx, b, d, n, position, kind, plaintext)
<1> DEFINE r == encrypt_segment(EncryptionState(keys, b, n), ctx, plaintext,
                                position, kind, room, fault, d)
           old == EncryptionState(keys, b, n)
           nonces == next_nonce(old.nonces, d, fault)
           found == key_cache_after(keys, ctx, position, fault)
<1>1. old.keys = keys /\ old.nonces = [batch |-> b, next |-> n]
  BY DEF EncryptionState
<1>2. LabelledCache(found, ctx)
  BY CacheStaysLabelled
<1>3. \E c \in {b, d}, m \in 0 .. NONCE_BATCH_SIZE :
        /\ nonces = [batch |-> c, next |-> m]
        /\ c = b => m >= n
        /\ next_nonce_ok(old.nonces, fault) => m >= 1 /\ (c = b => m > n)
  BY <1>1, NonceAssumption DEF next_nonce, next_nonce_ok, needs_fill
<1>4. PICK c \in {b, d}, m \in 0 .. NONCE_BATCH_SIZE :
        /\ nonces = [batch |-> c, next |-> m]
        /\ c = b => m >= n
        /\ next_nonce_ok(old.nonces, fault) => m >= 1 /\ (c = b => m > n)
  BY <1>3
<1>5. CASE r.ok
  <2>1. /\ r = [ok |-> TRUE, state |-> [keys |-> found, nonces |-> nonces],
                segment |-> seal(key_of(found), taken_nonce(nonces), position, kind, plaintext)]
        /\ next_nonce_ok(old.nonces, fault)
        /\ key_for_position_ok(keys, position, fault)
    BY <1>1, <1>5 DEF encrypt_segment, Failed
  <2>2. key_of(found) = derive_segment_key(ctx, masked_position(position))
    BY <2>1, LookupReturnsKey
  <2>3. taken_nonce(nonces) = <<c, m - 1>>
    BY <1>4 DEF taken_nonce
  <2>4. r.state = EncryptionState(found, c, m)
    BY <1>4, <2>1 DEF EncryptionState
  <2>5. r.segment = seal(derive_segment_key(ctx, masked_position(position)),
                         <<c, m - 1>>, position, kind, plaintext)
    BY <2>1, <2>2, <2>3
  <2> HIDE DEF found, nonces
  <2> QED BY <1>2, <1>4, <2>1, <2>4, <2>5 DEF SegmentShape
<1>6. CASE ~r.ok
  <2>1. \/ r.state = old
        \/ r.state = [old EXCEPT !.nonces = nonces]
        \/ r.state = [keys |-> found, nonces |-> nonces]
    BY <1>1, <1>6 DEF encrypt_segment, Failed
  <2>2. CASE r.state = old
    BY <1>6, <2>2 DEF SegmentShape
  <2>3. CASE r.state = [old EXCEPT !.nonces = nonces]
    <3>1. r.state = EncryptionState(keys, c, m)
      BY <1>4, <2>3 DEF EncryptionState
    <3> QED BY <1>4, <1>6, <3>1 DEF SegmentShape
  <2>4. CASE r.state = [keys |-> found, nonces |-> nonces]
    <3>1. r.state = EncryptionState(found, c, m)
      BY <1>4, <2>4 DEF EncryptionState
    <3> HIDE DEF found, nonces
    <3> QED BY <1>2, <1>4, <1>6, <3>1 DEF SegmentShape
  <2> QED BY <2>1, <2>2, <2>3, <2>4
<1> QED BY <1>5, <1>6

(* The fields of a state and of a sealed segment. *)
LEMMA StateFields ==
    ASSUME NEW k, NEW b, NEW n
    PROVE  LET e == EncryptionState(k, b, n)
           IN  e.keys = k /\ e.nonces.batch = b /\ e.nonces.next = n
BY DEF EncryptionState

LEMMA SealFields ==
    ASSUME NEW key, NEW nonce, NEW i, NEW kind, NEW plaintext
    PROVE  LET s == seal(key, nonce, i, kind, plaintext)
           IN  /\ s.key = key /\ s.nonce = nonce /\ s.position = i /\ s.kind = kind
               /\ s.plaintext = plaintext /\ ~s.damaged
               /\ s.length = SEGMENT_OVERHEAD + plaintext.length
               /\ s.prefix = segment_prefix(kind, SEGMENT_OVERHEAD + plaintext.length)
BY DEF seal

-----------------------------------------------------------------------------
(* What the buffer's operations do. *)

Buffer(p, state, payload, segment) ==
    [parameters |-> p, state |-> state, payload |-> payload, segment |-> segment]

IsBuffer(b) == b = Buffer(b.parameters, b.state, b.payload, b.segment)

(* What the operations leave in a buffer (SegmentBuffer::prepare, clear    *)
(* and mark_ciphertext).                                                   *)
LEMMA BufferOperations ==
    ASSUME NEW b, IsBuffer(b), NEW x
    PROVE  /\ prepare_plaintext(b, x) = Buffer(b.parameters, "Plaintext", x, None)
           /\ prepare_ciphertext(b, x) = Buffer(b.parameters, "Ciphertext", <<>>, Some(x))
           /\ mark_ciphertext(b, x) = Buffer(b.parameters, "Ciphertext", <<>>, Some(x))
           /\ clear(b) = Buffer(b.parameters, "Empty", <<>>, None)
<1>1. PICK p, state, payload, segment : b = Buffer(p, state, payload, segment)
  BY DEF IsBuffer
<1>2. b.parameters = p
  BY <1>1 DEF Buffer
<1>3. prepare_plaintext(b, x) = Buffer(p, "Plaintext", x, None)
  <2>1. [b EXCEPT !.state = "Plaintext"] = Buffer(p, "Plaintext", payload, segment)
    BY <1>1 DEF Buffer
  <2>2. [Buffer(p, "Plaintext", payload, segment) EXCEPT !.payload = x]
          = Buffer(p, "Plaintext", x, segment)
    BY DEF Buffer
  <2>3. [Buffer(p, "Plaintext", x, segment) EXCEPT !.segment = None]
          = Buffer(p, "Plaintext", x, None)
    BY DEF Buffer
  <2>4. prepare_plaintext(b, x)
          = [[[b EXCEPT !.state = "Plaintext"] EXCEPT !.payload = x] EXCEPT !.segment = None]
    BY DEF prepare_plaintext
  <2> QED BY <2>1, <2>2, <2>3, <2>4
<1>4. prepare_ciphertext(b, x) = Buffer(p, "Ciphertext", <<>>, Some(x))
  <2>1. [b EXCEPT !.state = "Ciphertext"] = Buffer(p, "Ciphertext", payload, segment)
    BY <1>1 DEF Buffer
  <2>2. [Buffer(p, "Ciphertext", payload, segment) EXCEPT !.payload = <<>>]
          = Buffer(p, "Ciphertext", <<>>, segment)
    BY DEF Buffer
  <2>3. [Buffer(p, "Ciphertext", <<>>, segment) EXCEPT !.segment = Some(x)]
          = Buffer(p, "Ciphertext", <<>>, Some(x))
    BY DEF Buffer
  <2>4. prepare_ciphertext(b, x)
          = [[[b EXCEPT !.state = "Ciphertext"] EXCEPT !.payload = <<>>] EXCEPT !.segment = Some(x)]
    BY DEF prepare_ciphertext
  <2> QED BY <2>1, <2>2, <2>3, <2>4
<1>5. clear(b) = Buffer(p, "Empty", <<>>, None)
  BY <1>2 DEF Buffer, clear, buffer_new
<1> QED BY <1>2, <1>3, <1>4, <1>5 DEF mark_ciphertext

LEMMA BufferFields ==
    ASSUME NEW p, NEW state, NEW payload, NEW segment
    PROVE  LET b == Buffer(p, state, payload, segment)
           IN  /\ IsBuffer(b) /\ b.parameters = p /\ b.payload = payload /\ b.segment = segment
               /\ holds_plaintext(b) <=> state = "Plaintext"
               /\ holds_ciphertext(b) <=> state = "Ciphertext"
BY DEF Buffer, IsBuffer, holds_plaintext, holds_ciphertext

(* A choice from one value is that value. *)
LEMMA ChooseSome ==
    ASSUME NEW x
    PROVE  (CHOOSE y \in Some(x) : TRUE) = x /\ Some(x) # None
BY DEF Some, None

-----------------------------------------------------------------------------
(* What the sequential encryptor makes of a payload. *)

(* An encryptor that has sealed k segments. *)
EncryptorAt(state, k) == [state |-> state, counter |-> [next |-> k, closed |-> FALSE]]

(* s is the segment of position k that carries the bytes. *)
SegmentNumber(s, k, kind, bytes) ==
    /\ s.position = k /\ s.kind = kind /\ s.plaintext = plaintext_of(bytes)
    /\ s.length = SEGMENT_OVERHEAD + Len(bytes)

(* A segment that could be sealed carries what it was sealed from. *)
LEMMA SealsWhatItIsGiven ==
    ASSUME NEW ctx, NEW state, NEW bytes, NEW k, NEW kind, NEW fault, NEW batch, NEW r,
           r = encrypt_segment(state, ctx, plaintext_of(bytes), k, kind, TRUE, fault, batch),
           r.ok
    PROVE  /\ SegmentNumber(r.segment, k, kind, bytes)
           /\ is_payload_length(ctx.parameters, Len(bytes), kind)
<1>1. is_payload_length(ctx.parameters, plaintext_of(bytes).length, kind)
  BY DEF encrypt_segment, Failed
<1>2. \E key, nonce : r.segment = seal(key, nonce, k, kind, plaintext_of(bytes))
  BY DEF encrypt_segment, Failed
<1>3. SegmentNumber(r.segment, k, kind, bytes)
  <2>1. PICK key, nonce : r.segment = seal(key, nonce, k, kind, plaintext_of(bytes))
    BY <1>2
  <2>2. PICK s : s = seal(key, nonce, k, kind, plaintext_of(bytes))
    OBVIOUS
  <2>3. /\ s.position = k /\ s.kind = kind /\ s.plaintext = plaintext_of(bytes)
        /\ s.length = SEGMENT_OVERHEAD + plaintext_of(bytes).length
    BY <2>2, SealFields
  <2> QED BY <2>1, <2>2, <2>3 DEF SegmentNumber, plaintext_of
<1>4. plaintext_of(bytes).length = Len(bytes)
  BY DEF plaintext_of
<1> QED BY <1>1, <1>3, <1>4

(* What Encryptor::advance makes of a non-final segment: nothing, or the   *)
(* segment of its position and the encryptor at the next.                  *)
Advanced(r, ctx, k, bytes) ==
    r.segment # None =>
        \E s, state : /\ r.segment = Some(s) /\ SegmentNumber(s, k, "NonFinal", bytes)
                      /\ r.encryptor = Some(EncryptorAt(state, k + 1))
                      /\ Len(bytes) = plaintext_segment_length(ctx.parameters)

LEMMA NonFinalAdvances ==
    ASSUME NEW ctx, NEW state, NEW k \in Nat, NEW bytes, NEW fault, NEW batch, NEW e,
           e = EncryptorAt(state, k), NEW r,
           r = encrypt_non_final(e, ctx, plaintext_of(bytes), TRUE, fault, batch)
    PROVE  Advanced(r, ctx, k, bytes)
<1> SUFFICES ASSUME r.segment # None PROVE Advanced(r, ctx, k, bytes)
  BY DEF Advanced
<1>1. e.counter = [next |-> k, closed |-> FALSE] /\ e.counter.next = k
  BY DEF EncryptorAt
<1>2. PICK q : q = encrypt_segment(e.state, ctx, plaintext_of(bytes), k, "NonFinal",
                                   TRUE, fault, batch)
  OBVIOUS
<1>3. /\ q.ok
      /\ r.encryptor = Some([state |-> q.state,
                             counter |-> counter_after(e.counter, "NonFinal", q.ok)])
      /\ r.segment = Some(q.segment)
  BY <1>1, <1>2 DEF encrypt_non_final, EncryptorResult, None
<1>4. SegmentNumber(q.segment, k, "NonFinal", bytes) /\ Len(bytes) = plaintext_segment_length(ctx.parameters)
  <2>1. q.ok
    BY <1>3
  <2>2. /\ SegmentNumber(q.segment, k, "NonFinal", bytes)
        /\ is_payload_length(ctx.parameters, Len(bytes), "NonFinal")
    BY <1>2, <2>1, SealsWhatItIsGiven
  <2> QED BY <2>2 DEF is_payload_length
<1>5. counter_after(e.counter, "NonFinal", q.ok) = [next |-> k + 1, closed |-> FALSE]
  BY <1>1, <1>3, CounterSteps DEF counter_after
<1> QED BY <1>3, <1>4, <1>5 DEF Advanced, EncryptorAt

(* What Encryptor::finalize makes of a final segment. *)
Closed(r, k, bytes) ==
    r.segment # None => /\ \E s : r.segment = Some(s) /\ SegmentNumber(s, k, "Final", bytes)
                        /\ k < AEAD_MAX_SEGMENTS

LEMMA FinalCloses ==
    ASSUME NEW ctx, NEW state, NEW k \in Nat, NEW bytes, NEW fault, NEW batch, NEW e,
           e = EncryptorAt(state, k), NEW r,
           r = encrypt_final(e, ctx, plaintext_of(bytes), TRUE, fault, batch)
    PROVE  Closed(r, k, bytes)
<1> SUFFICES ASSUME r.segment # None
             PROVE  /\ \E s : r.segment = Some(s) /\ SegmentNumber(s, k, "Final", bytes)
                    /\ k < AEAD_MAX_SEGMENTS
  BY DEF Closed
<1>1. e.counter.next = k
  BY DEF EncryptorAt
<1>2. PICK q : q = encrypt_segment(e.state, ctx, plaintext_of(bytes), k, "Final",
                                   TRUE, fault, batch)
  OBVIOUS
<1>3. q.ok /\ r.segment = Some(q.segment) /\ k < AEAD_MAX_SEGMENTS
  BY <1>1, <1>2 DEF encrypt_final, EncryptorResult, None, position_for_ok
<1> QED BY <1>2, <1>3, SealsWhatItIsGiven

(* What an in-place call returns, after a refusal and otherwise. *)
Sealed(r, b, q) ==
    \/ ~r.ok
    \/ /\ r.ok /\ q.segment # None /\ r.call = q
       /\ r.buffer = mark_ciphertext(b, CHOOSE x \in q.segment : TRUE)

LEMMA InPlaceOutcome ==
    ASSUME NEW r, NEW e, NEW b, NEW q,
           \/ r = InPlaceResult(EncryptorResult(Some(e), None, FALSE), b)
           \/ r = InPlaceResult(q, after_encryption(b, q.segment))
    PROVE  Sealed(r, b, q)
<1>1. CASE r = InPlaceResult(EncryptorResult(Some(e), None, FALSE), b)
  BY <1>1 DEF Sealed, InPlaceResult, EncryptorResult
<1>2. CASE r = InPlaceResult(q, after_encryption(b, q.segment))
  BY <1>2 DEF Sealed, InPlaceResult, after_encryption
<1> QED BY <1>1, <1>2

(* The same of the calls that seal a buffer's payload in place: the buffer *)
(* then holds the segment.                                                 *)
AdvancedInPlace(r, k, b) ==
    \E s, state : /\ SegmentNumber(s, k, "NonFinal", b.payload)
                  /\ r.buffer = Buffer(b.parameters, "Ciphertext", <<>>, Some(s))
                  /\ r.call.encryptor = Some(EncryptorAt(state, k + 1))

LEMMA InPlaceAdvances ==
    ASSUME NEW ctx, NEW state, NEW k \in Nat, NEW b, IsBuffer(b), NEW fault, NEW batch, NEW e,
           e = EncryptorAt(state, k), NEW r,
           r = encrypt_non_final_in_place(e, ctx, b, fault, batch)
    PROVE  ~r.ok \/ AdvancedInPlace(r, k, b)
<1>1. PICK bytes : bytes = b.payload
  OBVIOUS
<1>2. PICK q : q = encrypt_non_final(e, ctx, plaintext_of(bytes), TRUE, fault, batch)
  OBVIOUS
<1>3. \/ r = InPlaceResult(EncryptorResult(Some(e), None, FALSE), b)
      \/ r = InPlaceResult(q, after_encryption(b, q.segment))
  BY <1>1, <1>2 DEF encrypt_non_final_in_place
<1>4. Sealed(r, b, q)
  BY <1>3, InPlaceOutcome
<1> SUFFICES ASSUME q.segment # None, r.call = q,
                    r.buffer = mark_ciphertext(b, CHOOSE x \in q.segment : TRUE)
             PROVE  AdvancedInPlace(r, k, b)
  BY <1>4 DEF Sealed
<1>6. Advanced(q, ctx, k, bytes)
  BY <1>2, NonFinalAdvances
<1>7. PICK s, state2 : /\ q.segment = Some(s) /\ SegmentNumber(s, k, "NonFinal", bytes)
                       /\ q.encryptor = Some(EncryptorAt(state2, k + 1))
  BY <1>6 DEF Advanced
<1>8. (CHOOSE x \in q.segment : TRUE) = s
  BY <1>7, ChooseSome
<1>9. r.buffer = Buffer(b.parameters, "Ciphertext", <<>>, Some(s))
  BY <1>8, BufferOperations
<1> QED BY <1>1, <1>7, <1>9 DEF AdvancedInPlace

ClosedInPlace(r, k, b) ==
    /\ k < AEAD_MAX_SEGMENTS
    /\ \E s : /\ SegmentNumber(s, k, "Final", b.payload)
              /\ r.buffer = Buffer(b.parameters, "Ciphertext", <<>>, Some(s))

LEMMA InPlaceCloses ==
    ASSUME NEW ctx, NEW state, NEW k \in Nat, NEW b, IsBuffer(b), NEW fault, NEW batch, NEW e,
           e = EncryptorAt(state, k), NEW r,
           r = encrypt_final_in_place(e, ctx, b, fault, batch)
    PROVE  ~r.ok \/ ClosedInPlace(r, k, b)
<1>1. PICK bytes : bytes = b.payload
  OBVIOUS
<1>2. PICK q : q = encrypt_final(e, ctx, plaintext_of(bytes), TRUE, fault, batch)
  OBVIOUS
<1>3. \/ r = InPlaceResult(EncryptorResult(Some(e), None, FALSE), b)
      \/ r = InPlaceResult(q, after_encryption(b, q.segment))
  BY <1>1, <1>2 DEF encrypt_final_in_place
<1>4. Sealed(r, b, q)
  BY <1>3, InPlaceOutcome
<1> SUFFICES ASSUME q.segment # None,
                    r.buffer = mark_ciphertext(b, CHOOSE x \in q.segment : TRUE)
             PROVE  ClosedInPlace(r, k, b)
  BY <1>4 DEF Sealed
<1>6. Closed(q, k, bytes)
  BY <1>2, FinalCloses
<1>7. PICK s : q.segment = Some(s) /\ SegmentNumber(s, k, "Final", bytes)
  BY <1>6 DEF Closed
<1>8. (CHOOSE x \in q.segment : TRUE) = s
  BY <1>7, ChooseSome
<1>9. r.buffer = Buffer(b.parameters, "Ciphertext", <<>>, Some(s))
  BY <1>8, BufferOperations
<1>10. k < AEAD_MAX_SEGMENTS
  BY <1>6 DEF Closed
<1> QED BY <1>1, <1>7, <1>9, <1>10 DEF ClosedInPlace

-----------------------------------------------------------------------------
(* Reading from a source. *)

(* What a slice within a source is. *)
LEMMA SliceOf ==
    ASSUME NEW S, NEW source \in Seq(S), NEW at \in Nat, NEW n \in Nat, at + n <= Len(source)
    PROVE  /\ Slice(source, at, n) \in Seq(S)
           /\ Len(Slice(source, at, n)) = n
           /\ \A i \in 1 .. n : Slice(source, at, n)[i] = source[at + i]
<1>1. Len(source) \in Nat
  BY LenProperties
<1>2. CASE n = 0
  <2>1. SubSeq(source, at + 1, at + n) = <<>>
    BY <1>2, SubSeqProperties
  <2> QED BY <1>2, <2>1 DEF Slice
<1>3. CASE n > 0
  <2>1. at + 1 \in 1 .. Len(source) + 1 /\ at + n \in at .. Len(source)
    BY <1>1
  <2>2. /\ SubSeq(source, at + 1, at + n) \in Seq(S)
        /\ Len(SubSeq(source, at + 1, at + n)) = n
        /\ \A i \in 1 .. n : SubSeq(source, at + 1, at + n)[i] = source[at + i]
    BY <1>1, <1>3, <2>1, SubSeqProperties
  <2> QED BY <2>2 DEF Slice
<1> QED BY <1>2, <1>3

(* Adjacent slices make one. *)
LEMMA SliceJoin ==
    ASSUME NEW S, NEW s \in Seq(S), NEW a \in Nat, NEW n \in Nat, NEW m \in Nat,
           a + n + m <= Len(s)
    PROVE  Slice(s, a, n) \o Slice(s, a + n, m) = Slice(s, a, n + m)
<1>1. PICK c \in Nat, w \in Nat : c = a + n /\ w = n + m
  OBVIOUS
<1>2. PICK x, y, z : x = Slice(s, a, n) /\ y = Slice(s, c, m) /\ z = Slice(s, a, w)
  OBVIOUS
<1>3. Len(s) \in Nat
  BY LenProperties
<1>4. a + n <= Len(s) /\ c + m <= Len(s) /\ a + w <= Len(s)
  BY <1>1, <1>3
<1>5. x \in Seq(S) /\ Len(x) = n /\ \A i \in 1 .. n : x[i] = s[a + i]
  BY <1>2, <1>4, SliceOf, ZenonT(60)
<1>6. y \in Seq(S) /\ Len(y) = m /\ \A i \in 1 .. m : y[i] = s[c + i]
  BY <1>2, <1>4, SliceOf
<1>7. z \in Seq(S) /\ Len(z) = w /\ \A i \in 1 .. w : z[i] = s[a + i]
  BY <1>2, <1>4, SliceOf
<1>8. /\ x \o y \in Seq(S) /\ Len(x \o y) = w
      /\ \A i \in 1 .. w : (x \o y)[i] = IF i <= n THEN x[i] ELSE y[i - n]
  BY <1>1, <1>5, <1>6, ConcatProperties, ZenonT(60)
<1>9. ASSUME NEW i \in 1 .. w PROVE (x \o y)[i] = z[i]
  <2>1. CASE i <= n
    <3>1. i \in 1 .. n
      BY <2>1
    <3> QED BY <1>5, <1>7, <1>8, <2>1, <3>1
  <2>2. CASE i > n
    <3>1. i - n \in 1 .. m /\ c + (i - n) = a + i /\ ~(i <= n)
      BY <1>1, <2>2
    <3>2. (x \o y)[i] = y[i - n]
      BY <1>8, <3>1
    <3>3. y[i - n] = s[c + (i - n)]
      BY <1>6, <3>1
    <3>4. z[i] = s[a + i]
      BY <1>7
    <3> QED BY <3>1, <3>2, <3>3, <3>4
  <2>3. i <= n \/ i > n
    OBVIOUS
  <2> QED BY <2>1, <2>2, <2>3
<1>10. x \o y = z
  <2>1. Len(x \o y) = Len(z) /\ \A i \in 1 .. Len(x \o y) : (x \o y)[i] = z[i]
    BY <1>7, <1>8, <1>9
  <2> QED BY <1>7, <1>8, <2>1, SeqEqual
<1> QED BY <1>1, <1>2, <1>10

(* A read_fully within its source succeeds with what there is, up to what  *)
(* is required, or fails with no more than that.                           *)
LEMMA ReadFullyResult ==
    ASSUME NEW source, Len(source) \in Nat, NEW at \in 0 .. Len(source), NEW required \in Nat,
           NEW budget \in Int, budget >= 0, NEW r, r = read_fully(source, at, required, budget)
    PROVE  /\ r.got \in Nat /\ r.got <= required /\ at + r.got <= Len(source)
           /\ r.got <= budget
           /\ r.ok => r.got = least(required, Len(source) - at)
           /\ r.ok \in BOOLEAN
<1> DEFINE available == IF at < Len(source) THEN Len(source) - at ELSE 0
<1>1. available = Len(source) - at /\ available \in Nat
  OBVIOUS
<1>2. r = IF budget < required /\ budget <= available
          THEN [ok |-> FALSE, got |-> budget]
          ELSE [ok |-> TRUE, got |-> least(required, available)]
  BY DEF read_fully
<1> HIDE DEF available
<1>3. CASE budget < required /\ budget <= available
  <2>1. r.got = budget /\ ~r.ok /\ r.ok \in BOOLEAN
    BY <1>2, <1>3
  <2> QED BY <1>1, <1>3, <2>1
<1>4. CASE ~(budget < required /\ budget <= available)
  <2>1. r.got = least(required, available) /\ r.ok \in BOOLEAN
    BY <1>2, <1>4
  <2>2. r.got \in Nat /\ r.got <= required /\ r.got <= available /\ r.got <= budget
    BY <1>1, <1>4, <2>1 DEF least
  <2> QED BY <1>1, <2>1, <2>2
<1> QED BY <1>3, <1>4

-----------------------------------------------------------------------------
(* Induction over the naturals, stated of sets. *)

LEMMA NatWellFounded == IsWellFoundedOn({ss \in Nat \X Nat : ss[1] < ss[2]}, Nat)
BY NatLessThanWellFounded DEF OpToRel

(* Every non-empty set of naturals has a least element. *)
LEMMA LeastNatural ==
    ASSUME NEW U, U \subseteq Nat, U # {}
    PROVE  \E x \in U : \A y \in U : ~(y < x)
<1>1. PICK R : R = {ss \in Nat \X Nat : ss[1] < ss[2]}
  OBVIOUS
<1>2. IsWellFoundedOn(R, Nat)
  BY <1>1, NatWellFounded
<1>3. \E x \in U : \A y \in U : ~(<<y, x>> \in R)
  BY <1>2, WFMin
<1> QED BY <1>1, <1>3

(* A set of naturals with 0 and every successor has them all. *)
LEMMA SetInduction ==
    ASSUME NEW T, 0 \in T, \A n \in Nat : n \in T => n + 1 \in T
    PROVE  Nat \subseteq T
<1> SUFFICES ASSUME ~(Nat \subseteq T) PROVE FALSE
  OBVIOUS
<1>1. PICK U : U = Nat \ T
  OBVIOUS
<1>2. PICK x \in U : \A y \in U : ~(y < x)
  BY <1>1, LeastNatural
<1>3. x \in Nat /\ x # 0 /\ x - 1 \in Nat /\ x - 1 < x
  BY <1>1, <1>2
<1>4. x - 1 \in T
  BY <1>1, <1>2, <1>3
<1>5. (x - 1) + 1 \in T
  BY <1>3, <1>4
<1> QED BY <1>1, <1>2, <1>3, <1>5

-----------------------------------------------------------------------------
(* Running concatenations: what FlattenSeq computes. *)

Concatenation(f, seqs, n) ==
    \A i \in 1 .. n : f[i] = IF i = 1 THEN seqs[i] ELSE f[i - 1] \o seqs[i]

IsRunning(f, seqs, n) ==
    f = [i \in 1 .. n |-> IF i = 1 THEN seqs[i] ELSE f[i - 1] \o seqs[i]]

(* The recursion has a solution. *)
LEMMA ConcatenationExists ==
    ASSUME NEW seqs, NEW n \in Nat
    PROVE  \E f : IsRunning(f, seqs, n)
<1>1. PICK T : T = {m \in Nat : \E f : IsRunning(f, seqs, m)}
  OBVIOUS
<1>2. 0 \in T
  <2> DEFINE f == [i \in 1 .. 0 |-> 0]
  <2>1. IsRunning(f, seqs, 0)
    BY DEF IsRunning
  <2> HIDE DEF f
  <2> QED BY <1>1, <2>1
<1>3. ASSUME NEW m \in Nat, m \in T
      PROVE  m + 1 \in T
  <2>1. PICK f : IsRunning(f, seqs, m)
    BY <1>1, <1>3
  <2> DEFINE g == [i \in 1 .. m + 1 |->
                     IF i <= m THEN f[i] ELSE IF i = 1 THEN seqs[i] ELSE f[i - 1] \o seqs[i]]
  <2>2. \A i \in 1 .. m : g[i] = f[i]
    OBVIOUS
  <2>3. \A i \in 1 .. m : f[i] = IF i = 1 THEN seqs[i] ELSE f[i - 1] \o seqs[i]
    BY <2>1 DEF IsRunning
  <2>4. \A i \in 1 .. m + 1 : g[i] = IF i = 1 THEN seqs[i] ELSE g[i - 1] \o seqs[i]
    <3> SUFFICES ASSUME NEW i \in 1 .. m + 1
                 PROVE  g[i] = IF i = 1 THEN seqs[i] ELSE g[i - 1] \o seqs[i]
      OBVIOUS
    <3>1. CASE i = 1
      BY <2>2, <2>3, <3>1
    <3>2. CASE i # 1
      <4>1. i - 1 \in 1 .. m
        BY <3>2
      <4>2. g[i - 1] = f[i - 1]
        BY <2>2, <4>1
      <4>3. CASE i <= m
        <5>1. i \in 1 .. m
          BY <4>3
        <5>2. g[i] = f[i] /\ f[i] = IF i = 1 THEN seqs[i] ELSE f[i - 1] \o seqs[i]
          BY <2>2, <2>3, <5>1
        <5> HIDE DEF g
        <5> QED BY <3>2, <4>2, <5>2, Zenon
      <4>4. CASE ~(i <= m)
        BY <3>2, <4>2, <4>4
      <4> QED BY <4>3, <4>4
    <3> QED BY <3>1, <3>2
  <2>5. g = [i \in 1 .. m + 1 |-> g[i]]
    OBVIOUS
  <2> HIDE DEF g
  <2>6. IsRunning(g, seqs, m + 1)
    BY <2>4, <2>5 DEF IsRunning
  <2> QED BY <1>1, <2>6
<1>4. Nat \subseteq T
  BY <1>2, <1>3, SetInduction
<1> QED BY <1>1, <1>4

(* A recursive function defined so is a running concatenation. *)
LEMMA ConcatenationDefined ==
    ASSUME NEW seqs, NEW n \in Nat, NEW f, f = CHOOSE g : IsRunning(g, seqs, n)
    PROVE  Concatenation(f, seqs, n)
<1>1. IsRunning(f, seqs, n)
  BY ConcatenationExists
<1> QED BY <1>1 DEF IsRunning, Concatenation

(* Its elements are elements of the sequences. *)
LEMMA ConcatenationType ==
    ASSUME NEW S, NEW seqs, NEW n \in Nat, NEW f, Concatenation(f, seqs, n),
           \A i \in 1 .. n : seqs[i] \in Seq(S)
    PROVE  \A i \in 1 .. n : f[i] \in Seq(S)
<1>1. PICK T : T = {m \in Nat : m \in 1 .. n => f[m] \in Seq(S)}
  OBVIOUS
<1>2. ASSUME NEW m \in Nat, m \in T
      PROVE  m + 1 \in T
  <2> SUFFICES ASSUME m + 1 \in 1 .. n
               PROVE  f[m + 1] \in Seq(S)
    BY <1>1
  <2>1. f[m + 1] = IF m + 1 = 1 THEN seqs[m + 1] ELSE f[m + 1 - 1] \o seqs[m + 1]
    BY DEF Concatenation
  <2>2. CASE m = 0
    BY <2>1, <2>2
  <2>3. CASE m # 0
    <3>1. f[m] \in Seq(S) /\ seqs[m + 1] \in Seq(S)
      BY <1>1, <1>2, <2>3
    <3>2. m + 1 - 1 = m /\ m + 1 # 1
      BY <2>3
    <3>4. f[m + 1] = f[m] \o seqs[m + 1]
      BY <2>1, <3>2, Zenon
    <3> QED BY <3>1, <3>4, ConcatProperties
  <2> QED BY <2>2, <2>3
<1>3. 0 \in T
  BY <1>1
<1>4. Nat \subseteq T
  BY <1>2, <1>3, SetInduction
<1> QED BY <1>1, <1>4

(* One step of a running concatenation. *)
Extends(f, seqs, i, j) ==
    /\ f[j] = f[i] \o seqs[j]
    /\ Len(f[i]) \in Nat /\ Len(seqs[j]) \in Nat
    /\ Len(f[j]) = Len(f[i]) + Len(seqs[j])
    /\ \A k \in 1 .. Len(f[i]) : f[j][k] = f[i][k]
    /\ \A k \in 1 .. Len(seqs[j]) : f[j][Len(f[i]) + k] = seqs[j][k]

LEMMA ConcatenationStep ==
    ASSUME NEW S, NEW seqs, NEW n \in Nat, NEW f, Concatenation(f, seqs, n),
           \A i \in 1 .. n : seqs[i] \in Seq(S), NEW i \in 1 .. n, NEW j \in 1 .. n, j = i + 1
    PROVE  Extends(f, seqs, i, j)
<1>1. f[i] \in Seq(S) /\ seqs[j] \in Seq(S)
  BY ConcatenationType
<1>2. f[j] = f[i] \o seqs[j]
  <2>1. f[j] = IF j = 1 THEN seqs[j] ELSE f[j - 1] \o seqs[j]
    BY DEF Concatenation
  <2>2. j - 1 = i /\ j # 1
    OBVIOUS
  <2> QED BY <2>1, <2>2, Zenon
<1>3. PICK a : a = f[i]
  OBVIOUS
<1>4. PICK b : b = seqs[j]
  OBVIOUS
<1>5. Len(a) \in Nat /\ Len(b) \in Nat
  BY <1>1, <1>3, <1>4, LenProperties
<1>6. /\ Len(a \o b) = Len(a) + Len(b)
      /\ \A k \in 1 .. Len(a) + Len(b) : (a \o b)[k] = IF k <= Len(a) THEN a[k] ELSE b[k - Len(a)]
  BY <1>1, <1>3, <1>4, ConcatProperties, ZenonT(60)
<1>7. PICK c : c = a \o b
  OBVIOUS
<1>8. PICK l, m \in Nat : l = Len(a) /\ m = Len(b)
  BY <1>5
<1>9. ASSUME NEW k \in 1 .. l
      PROVE  c[k] = a[k]
  <2>1. k \in 1 .. l + m /\ k <= l
    OBVIOUS
  <2> QED BY <1>6, <1>7, <1>8, <2>1
<1>10. ASSUME NEW k \in 1 .. m
       PROVE  c[l + k] = b[k]
  <2>1. l + k \in 1 .. l + m /\ ~(l + k <= l) /\ (l + k) - l = k
    OBVIOUS
  <2> QED BY <1>6, <1>7, <1>8, <2>1
<1>11. /\ c = a \o b /\ Len(c) = Len(a) + Len(b)
       /\ \A k \in 1 .. Len(a) : c[k] = a[k]
       /\ \A k \in 1 .. Len(b) : c[Len(a) + k] = b[k]
  BY <1>6, <1>7, <1>8, <1>9, <1>10
<1>12. f[j] = c
  BY <1>2, <1>3, <1>4, <1>7
<1> QED BY <1>3, <1>4, <1>5, <1>11, <1>12 DEF Extends

(* It starts with its shorter ones. *)
StartsAs(f, i, j) ==
    Len(f[i]) <= Len(f[j]) /\ \A k \in 1 .. Len(f[i]) : f[j][k] = f[i][k]

LEMMA ConcatenationPrefix ==
    ASSUME NEW S, NEW seqs, NEW n \in Nat, NEW f, Concatenation(f, seqs, n),
           \A i \in 1 .. n : seqs[i] \in Seq(S), NEW i \in 1 .. n, NEW last \in 1 .. n,
           i <= last
    PROVE  StartsAs(f, i, last)
<1> DEFINE P(j) == /\ Len(f[i]) <= Len(f[j])
                   /\ \A k \in 1 .. Len(f[i]) : f[j][k] = f[i][k]
<1>0. \A j \in 1 .. n : Len(f[j]) \in Nat
  <2>1. \A j \in 1 .. n : f[j] \in Seq(S)
    BY ConcatenationType
  <2> QED BY <2>1, LenProperties
<1>1. PICK T : T = {m \in Nat : i + m \in 1 .. n => P(i + m)}
  OBVIOUS
<1>2. 0 \in T
  <2>1. i + 0 = i
    OBVIOUS
  <2> QED BY <1>0, <1>1, <2>1
<1>3. ASSUME NEW m \in Nat, m \in T
      PROVE  m + 1 \in T
  <2> SUFFICES ASSUME i + (m + 1) \in 1 .. n
               PROVE  P(i + (m + 1))
    BY <1>1
  <2>1. PICK j : j = i + m
    OBVIOUS
  <2>2. j \in 1 .. n /\ j + 1 \in 1 .. n /\ i + (m + 1) = j + 1
    BY <2>1
  <2>3. P(j)
    BY <1>1, <1>3, <2>1, <2>2
  <2>4. PICK q \in 1 .. n : q = j + 1
    BY <2>2
  <2>5. Extends(f, seqs, j, q)
    <3> HIDE DEF P
    <3> QED BY <2>2, <2>4, ConcatenationStep
  <2>6. P(q)
    <3>1. Len(f[j]) \in Nat /\ Len(f[i]) \in Nat /\ Len(f[i]) <= Len(f[j])
      BY <1>0, <2>2, <2>3
    <3>2. Len(f[i]) <= Len(f[q])
      <4>1. Len(f[q]) = Len(f[j]) + Len(seqs[q]) /\ Len(seqs[q]) \in Nat
        BY <2>5 DEF Extends
      <4>2. PICK x, y, z \in Nat : x = Len(f[i]) /\ y = Len(f[j]) /\ z = Len(seqs[q])
        BY <3>1, <4>1
      <4>3. x <= y
        BY <3>1, <4>2, Zenon
      <4>4. x <= y + z
        BY <4>3
      <4> QED BY <4>1, <4>2, <4>4, Zenon
    <3>3. ASSUME NEW k \in 1 .. Len(f[i])
          PROVE  f[q][k] = f[i][k]
      <4>1. k \in 1 .. Len(f[j])
        BY <3>1
      <4> QED BY <2>3, <2>5, <4>1 DEF Extends
    <3> QED BY <3>2, <3>3
  <2>7. q = i + (m + 1)
    BY <2>2, <2>4
  <2> QED BY <2>6, <2>7, Zenon
<1>4. Nat \subseteq T
  <2> HIDE DEF P
  <2> QED BY <1>2, <1>3, SetInduction
<1> SUFFICES P(last)
  BY DEF StartsAs
<1>5. PICK m \in Nat : i + m = last
  <2>1. last - i \in Nat /\ i + (last - i) = last
    OBVIOUS
  <2> QED BY <2>1
<1>6. m \in T /\ i + m \in 1 .. n
  BY <1>4, <1>5
<1> HIDE DEF P
<1> QED BY <1>1, <1>5, <1>6

(* Behind a first sequence of length h and full ones of length p, another  *)
(* one starts at a multiple of p.                                          *)
FullBefore(f, seqs, n, h, p) ==
    /\ \A m \in Nat : m + 1 <= n - 1 => Len(f[m + 1]) = h + m * p
    /\ Len(f[n]) = h + (n - 2) * p + Len(seqs[n])

LEMMA ConcatenationLength ==
    ASSUME NEW S, NEW seqs, NEW n \in Nat, NEW f, Concatenation(f, seqs, n),
           \A i \in 1 .. n : seqs[i] \in Seq(S), NEW h \in Nat, NEW p \in Nat,
           Len(seqs[1]) = h, \A i \in 2 .. n - 1 : Len(seqs[i]) = p, n > 1
    PROVE  FullBefore(f, seqs, n, h, p)
<1>1. PICK T : T = {m \in Nat : m + 1 <= n - 1 => Len(f[m + 1]) = h + m * p}
  OBVIOUS
<1>2. 0 \in T
  <2>1. 1 \in 1 .. n
    OBVIOUS
  <2>2. f[1] = seqs[1]
    BY <2>1 DEF Concatenation
  <2> QED BY <1>1, <2>2
<1>3. ASSUME NEW m \in Nat, m \in T
      PROVE  m + 1 \in T
  <2> SUFFICES ASSUME m + 1 + 1 <= n - 1
               PROVE  Len(f[m + 1 + 1]) = h + (m + 1) * p
    BY <1>1
  <2>1. PICK j : j = m + 1
    OBVIOUS
  <2>2. j \in 1 .. n /\ j + 1 \in 1 .. n /\ j + 1 \in 2 .. n - 1 /\ m + 1 <= n - 1
    BY <2>1
  <2>3. Len(f[j]) = h + m * p
    BY <1>1, <1>3, <2>1, <2>2
  <2>4. PICK q \in 1 .. n : q = j + 1
    BY <2>2
  <2>5. Extends(f, seqs, j, q)
    BY <2>2, <2>4, ConcatenationStep
  <2>6. Len(f[q]) = h + m * p + p
    BY <2>2, <2>3, <2>4, <2>5 DEF Extends
  <2>7. h + m * p + p = h + (m + 1) * p
    OBVIOUS
  <2> QED BY <2>1, <2>4, <2>6, <2>7
<1>4. Nat \subseteq T
  BY <1>2, <1>3, SetInduction
<1>5. \A m \in Nat : m + 1 <= n - 1 => Len(f[m + 1]) = h + m * p
  BY <1>1, <1>4
<1>6. PICK m \in Nat : m = n - 2
  OBVIOUS
<1>7. Len(f[m + 1]) = h + m * p
  BY <1>5, <1>6
<1>8. PICK j : j = m + 1
  OBVIOUS
<1>9. j \in 1 .. n /\ n \in 1 .. n /\ n = j + 1
  BY <1>6, <1>8
<1>10. Extends(f, seqs, j, n)
  BY <1>9, ConcatenationStep
<1>11. Len(f[n]) = h + m * p + Len(seqs[n])
  BY <1>7, <1>8, <1>10 DEF Extends
<1> QED BY <1>5, <1>6, <1>11 DEF FullBefore

=============================================================================
