-------------------------- MODULE DecryptionProofs --------------------------
(***************************************************************************)
(* Proofs about DecryptReader and about the one-shot functions, for every  *)
(* format and every message, whatever was made of its ciphertext and       *)
(* whatever failed.                                                        *)
(***************************************************************************)
EXTENDS DecryptReader, OneShot, CiphertextProofs

-----------------------------------------------------------------------------
(* A reader and the result of a step. *)

ReaderOf(c, d, b, n, a, s) ==
    [context |-> c, decryptor |-> d, buffer |-> b, consumed |-> n, available |-> a, status |-> s]

(* The fields of a reader. *)
LEMMA ReaderFields ==
    ASSUME NEW c, NEW d, NEW b, NEW n, NEW a, NEW s, NEW r, r = ReaderOf(c, d, b, n, a, s)
    PROVE  /\ r.context = c /\ r.decryptor = d /\ r.buffer = b
           /\ r.consumed = n /\ r.available = a /\ r.status = s
BY DEF ReaderOf

(* Setting fields of a reader. *)
LEMMA ReaderUpdates ==
    ASSUME NEW c, NEW d, NEW b, NEW n, NEW a, NEW s, NEW x, NEW y, NEW r,
           r = ReaderOf(c, d, b, n, a, s)
    PROVE  /\ [r EXCEPT !.decryptor = x] = ReaderOf(c, x, b, n, a, s)
           /\ [r EXCEPT !.buffer = x] = ReaderOf(c, d, x, n, a, s)
           /\ [r EXCEPT !.consumed = x] = ReaderOf(c, d, b, x, a, s)
           /\ [r EXCEPT !.status = x] = ReaderOf(c, d, b, n, a, x)
           /\ [r EXCEPT !.decryptor = x, !.buffer = y] = ReaderOf(c, x, y, n, a, s)
           /\ [r EXCEPT !.decryptor = x, !.status = y] = ReaderOf(c, x, b, n, a, y)
           /\ [r EXCEPT !.consumed = x, !.available = y] = ReaderOf(c, d, b, x, y, s)
<1>1. \A t : [ReaderOf(c, d, b, n, a, s) EXCEPT !.decryptor = t] = ReaderOf(c, t, b, n, a, s)
  BY DEF ReaderOf
<1>2. \A t, u : [ReaderOf(c, t, b, n, a, s) EXCEPT !.buffer = u] = ReaderOf(c, t, u, n, a, s)
  BY DEF ReaderOf
<1>3. \A t : [ReaderOf(c, d, b, n, a, s) EXCEPT !.consumed = t] = ReaderOf(c, d, b, t, a, s)
  BY DEF ReaderOf
<1>4. \A t, u : [ReaderOf(c, t, b, n, a, s) EXCEPT !.status = u] = ReaderOf(c, t, b, n, a, u)
  BY DEF ReaderOf
<1>5. \A t, u : [ReaderOf(c, d, b, t, a, s) EXCEPT !.available = u] = ReaderOf(c, d, b, t, u, s)
  BY DEF ReaderOf
<1>6. [r EXCEPT !.decryptor = x, !.buffer = y] = ReaderOf(c, x, y, n, a, s)
  <2>1. [r EXCEPT !.decryptor = x, !.buffer = y] = [[r EXCEPT !.decryptor = x] EXCEPT !.buffer = y]
    OBVIOUS
  <2> QED BY <1>1, <1>2, <2>1, Zenon
<1>7. [r EXCEPT !.decryptor = x, !.status = y] = ReaderOf(c, x, b, n, a, y)
  <2>1. [r EXCEPT !.decryptor = x, !.status = y] = [[r EXCEPT !.decryptor = x] EXCEPT !.status = y]
    OBVIOUS
  <2> QED BY <1>1, <1>4, <2>1, Zenon
<1>8. [r EXCEPT !.consumed = x, !.available = y] = ReaderOf(c, d, b, x, y, s)
  <2>1. [r EXCEPT !.consumed = x, !.available = y]
          = [[r EXCEPT !.consumed = x] EXCEPT !.available = y]
    OBVIOUS
  <2> QED BY <1>3, <1>5, <2>1, Zenon
<1> QED BY <1>1, <1>2, <1>3, <1>4, <1>6, <1>7, <1>8, Zenon

(* The fields of a step's result, and how an error is marked in it. *)
LEMMA StepFields ==
    ASSUME NEW r, NEW p, NEW ok, NEW bytes, NEW l, l = Opened(r, p, ok, bytes)
    PROVE  /\ l.reader = r /\ l.at = p /\ l.ok = ok /\ l.bytes = bytes
           /\ [l EXCEPT !.ok = FALSE] = Opened(r, p, FALSE, bytes)
<1>1. PICK no : no = FALSE
  OBVIOUS
<1>2. [l EXCEPT !.ok = no] = Opened(r, p, no, bytes)
  BY DEF Opened
<1> QED BY <1>1, <1>2 DEF Opened

(* poisoned: an error poisons the reader. *)
LEMMA PoisonedForm ==
    ASSUME NEW c, NEW d, NEW b, NEW n, NEW a, NEW s, NEW p, NEW ok \in BOOLEAN, NEW bytes,
           NEW l, l = Opened(ReaderOf(c, d, b, n, a, s), p, ok, bytes)
    PROVE  /\ ok => poisoned(l) = l
           /\ ~ok => poisoned(l) = Opened(ReaderOf(c, d, b, n, a, "Failed"), p, ok, bytes)
<1>1. PICK r, t, q : r = ReaderOf(c, d, b, n, a, s) /\ t = "Failed" /\ q = [r EXCEPT !.status = t]
  OBVIOUS
<1>2. l = Opened(r, p, ok, bytes) /\ l.ok = ok
  <2>1. PICK e : e = ok
    OBVIOUS
  <2>2. l = Opened(r, p, e, bytes)
    BY <1>1, <2>1, Zenon
  <2>3. l.ok = e
    BY <2>2 DEF Opened
  <2> QED BY <2>1, <2>2, <2>3, Zenon
<1>3. [l EXCEPT !.reader.status = t] = Opened(q, p, ok, bytes)
  BY <1>1, <1>2 DEF Opened
<1>4. q = ReaderOf(c, d, b, n, a, t)
  BY <1>1 DEF ReaderOf
<1> QED BY <1>1, <1>2, <1>3, <1>4 DEF poisoned

-----------------------------------------------------------------------------
(* Fetching a segment. *)

(* A read_fully with the budget for it does not fail. *)
LEMMA ReadFullyEnough ==
    ASSUME NEW src, Len(src) \in Nat, NEW pos \in 0 .. Len(src), NEW required \in Nat,
           NEW budget \in Int, budget >= required, NEW g,
           g = read_fully(src, pos, required, budget)
    PROVE  g.ok /\ g.got = least(required, Len(src) - pos)
<1>1. ~(budget < required)
  OBVIOUS
<1>2. g = [ok |-> TRUE, got |-> least(required, IF pos < Len(src) THEN Len(src) - pos ELSE 0)]
  BY <1>1 DEF read_fully
<1>3. (IF pos < Len(src) THEN Len(src) - pos ELSE 0) = Len(src) - pos
  OBVIOUS
<1> QED BY <1>2, <1>3

(* fetch_segment leaves a segment of so many bytes in the buffer, or fails. *)
Fetched(f, c, d, b, n, a, s, length) ==
    \E pos, b2 : \E ok \in BOOLEAN :
        /\ f = Opened(ReaderOf(c, d, b2, n, a, s), pos, ok, <<>>)
        /\ pos \in at .. Len(source)
        /\ IsBuffer(b2) /\ b2.parameters = b.parameters
        /\ ok => /\ length \in Nat \ {0}
                 /\ at + length <= Len(source) /\ pos = at + length
                 /\ b2 = Buffer(b.parameters, "Ciphertext", <<>>,
                                Some(FilledSegment(Slice(source, at, length))))

(* The next bytes declare a length, and so many bytes there are.           *)
Declares(length, kind) ==
    /\ at + length <= Len(source)
    /\ LET f == decode_framing(SegmentLength, prefix_in(Slice(source, at, SEGMENT_PREFIX_LENGTH)))
       IN  f.ok /\ f.value = Framing(length, kind)

(* fetch_body, once the prefix has been read. *)
LEMMA BodyForm ==
    ASSUME Len(source) \in Nat, at \in Nat, NEW B, source \in Seq(B),
           at + SEGMENT_PREFIX_LENGTH <= Len(source),
           NEW c, NEW d, NEW b, IsBuffer(b), NEW n, NEW a, NEW s, NEW r,
           r = ReaderOf(c, d, b, n, a, s), NEW length \in SEGMENT_OVERHEAD .. SegmentLength,
           NEW budget \in Nat, SEGMENT_PREFIX_LENGTH <= budget,
           NEW f, f = fetch_body(r, length, budget)
    PROVE  /\ Fetched(f, c, d, b, n, a, s, length)
           /\ budget >= length /\ at + length <= Len(source) => f.ok
<1>1. PICK q \in Nat \ {0} : q = SEGMENT_PREFIX_LENGTH
  BY ParametersAssumption
<1>2. length \in Nat /\ length - q \in Nat /\ length # 0 /\ length > q
  BY <1>1, ParametersAssumption, SegmentLengths, CiphertextsAssumption DEF SEGMENT_OVERHEAD
<1>3. PICK here \in 0 .. Len(source), more \in Nat, left \in Int :
        here = at + q /\ more = length - q /\ left = budget - q /\ left >= 0
  BY <1>1, <1>2
<1>4. PICK tail : tail = read_fully(source, here, more, left)
  OBVIOUS
<1>5. /\ tail.got \in Nat /\ tail.got <= more /\ here + tail.got <= Len(source)
      /\ tail.ok \in BOOLEAN
  BY <1>3, <1>4, ReadFullyResult
<1>6. PICK bytes, x, b2, pos, ok :
        /\ bytes = Slice(source, at, q + tail.got)
        /\ x = [segment_in(bytes) EXCEPT !.length = length]
        /\ b2 = prepare_ciphertext(b, x)
        /\ pos = at + q + tail.got
        /\ ok = (tail.ok /\ q + tail.got = length)
  OBVIOUS
<1>7. f = Opened(ReaderOf(c, d, b2, n, a, s), pos, ok, <<>>)
  <2>1. [r EXCEPT !.buffer = prepare_ciphertext(@, x)] = ReaderOf(c, d, b2, n, a, s)
    <3>1. [r EXCEPT !.buffer = prepare_ciphertext(@, x)] = [r EXCEPT !.buffer = b2]
      BY <1>6, ReaderFields
    <3>2. [r EXCEPT !.buffer = b2] = ReaderOf(c, d, b2, n, a, s)
      BY DEF ReaderOf
    <3> QED BY <3>1, <3>2, Zenon
  <2>2. f = Opened([r EXCEPT !.buffer = prepare_ciphertext(@, x)], pos, ok, <<>>)
    BY <1>1, <1>3, <1>4, <1>6, Zenon DEF fetch_body
  <2> QED BY <2>1, <2>2, Zenon
<1>8. ok \in BOOLEAN
  BY <1>6, Zenon
<1>9. b2 = Buffer(b.parameters, "Ciphertext", <<>>, Some(x)) /\ IsBuffer(b2)
      /\ b2.parameters = b.parameters
  BY <1>6, BufferOperations, BufferFields
<1>10. pos \in at .. Len(source)
  BY <1>1, <1>3, <1>5, <1>6
<1>11. ASSUME ok PROVE at + length <= Len(source) /\ pos = at + length
                       /\ x = FilledSegment(Slice(source, at, length))
  <2>1. q + tail.got = length
    BY <1>6, <1>11
  <2>2. at + length <= Len(source) /\ pos = at + length
    <3>1. PICK g \in Nat : g = tail.got /\ here + g <= Len(source)
      BY <1>5
    <3>2. pos = at + q + g /\ q + g = length
      BY <1>6, <2>1, <3>1
    <3> QED BY <1>3, <3>1, <3>2
  <2>3. bytes = Slice(source, at, length)
    BY <1>6, <2>1
  <2>4. Len(bytes) = length
    BY <1>2, <2>2, <2>3, SliceOf
  <2> QED BY <1>6, <2>2, <2>3, <2>4, Zenon DEF FilledSegment
<1>12. Fetched(f, c, d, b, n, a, s, length)
  <2>1. length \in Nat \ {0}
    BY <1>2
  <2>2. ok => /\ length \in Nat \ {0}
              /\ at + length <= Len(source) /\ pos = at + length
              /\ b2 = Buffer(b.parameters, "Ciphertext", <<>>,
                             Some(FilledSegment(Slice(source, at, length))))
    BY <1>9, <1>11, <2>1, Zenon
  <2> QED BY <1>7, <1>8, <1>9, <1>10, <2>2, Zenon DEF Fetched
<1>13. ASSUME budget >= length, at + length <= Len(source) PROVE f.ok
  <2>1. left >= more
    BY <1>1, <1>2, <1>3, <1>13
  <2>2. tail.ok /\ tail.got = least(more, Len(source) - here)
    BY <1>3, <1>4, <2>1, ReadFullyEnough
  <2>3. q + tail.got = length
    BY <1>1, <1>2, <1>3, <1>13, <2>2 DEF least
  <2>4. ok
    BY <1>6, <2>2, <2>3, Zenon
  <2>5. f.ok = ok
    BY <1>7 DEF Opened
  <2> QED BY <2>4, <2>5, Zenon
<1> QED BY <1>12, <1>13

(* What fetch_segment does. *)
LEMMA FetchForm ==
    ASSUME Len(source) \in Nat, at \in 0 .. Len(source), NEW B, source \in Seq(B),
           NEW c, c.parameters = SegmentLength, NEW d, NEW b, IsBuffer(b), NEW n, NEW a, NEW s,
           NEW r, r = ReaderOf(c, d, b, n, a, s), NEW budget \in Nat,
           NEW f, f = fetch_segment(r, budget)
    PROVE  /\ \E length : /\ Fetched(f, c, d, b, n, a, s, length)
                          /\ f.ok => \E kind : Declares(length, kind)
           /\ \A length \in Nat : \A kind :
                 budget >= SegmentLength /\ Declares(length, kind) => f.ok
<1>1. PICK q \in Nat \ {0} : q = SEGMENT_PREFIX_LENGTH
  BY ParametersAssumption
<1>2. PICK prefix : prefix = read_fully(source, at, q, budget)
  OBVIOUS
<1>3. /\ prefix.got \in Nat /\ prefix.got <= q /\ at + prefix.got <= Len(source)
      /\ prefix.got <= budget /\ prefix.ok \in BOOLEAN
  BY <1>1, <1>2, ReadFullyResult
<1>4. PICK v, framed :
        /\ v = prefix_in(Slice(source, at, prefix.got)) /\ framed = decode_framing(SegmentLength, v)
  OBVIOUS
<1>5. f = fetch_framed(r, prefix, framed, budget)
  BY <1>1, <1>2, <1>4, ReaderFields DEF fetch_segment
<1>6. CASE ~prefix.ok \/ prefix.got < q \/ ~framed.ok
  <2>1. PICK no \in BOOLEAN : no = FALSE
    OBVIOUS
  <2>2. f = Opened(r, at + prefix.got, no, <<>>)
    BY <1>1, <1>5, <1>6, <2>1, Zenon DEF fetch_framed
  <2>3. PICK pos \in at .. Len(source) : pos = at + prefix.got
    BY <1>3
  <2>4. f = Opened(ReaderOf(c, d, b, n, a, s), pos, no, <<>>)
    BY <2>2, <2>3, Zenon
  <2>5. Fetched(f, c, d, b, n, a, s, 0) /\ ~f.ok
    <3>1. Fetched(f, c, d, b, n, a, s, 0)
      BY <2>1, <2>3, <2>4, Zenon DEF Fetched
    <3>2. f.ok = no
      BY <2>2 DEF Opened
    <3> QED BY <2>1, <3>1, <3>2
  <2>6. ASSUME NEW length \in Nat, NEW kind, budget >= SegmentLength, Declares(length, kind)
        PROVE  FALSE
    <3>1. SegmentLength \in Nat /\ SegmentLength >= q
      BY <1>1, ParametersAssumption, SegmentLengths, CiphertextsAssumption DEF SEGMENT_OVERHEAD
    <3>2. prefix.ok /\ prefix.got = least(q, Len(source) - at)
      BY <1>1, <1>2, <2>6, <3>1, ReadFullyEnough
    <3>3. CASE prefix.got < q
      <4>1. at + length <= Len(source)
        BY <2>6 DEF Declares
      <4>2. PICK g : g = decode_framing(SegmentLength, prefix_in(Slice(source, at, q)))
        OBVIOUS
      <4>3. g.ok /\ g.value = Framing(length, kind)
        BY <1>1, <2>6, <4>2 DEF Declares
      <4>4. PICK l \in SEGMENT_OVERHEAD .. SegmentLength, k \in Kinds : g.value = Framing(l, k)
        BY <4>2, <4>3, FramingForm
      <4>5. length = l
        <5>1. PICK y : y = g.value
          OBVIOUS
        <5>2. y.ciphertext_length = length /\ y.ciphertext_length = l
          BY <4>3, <4>4, <5>1 DEF Framing
        <5> QED BY <5>2
      <4>6. l \in Nat /\ l > q
        BY <1>1, ParametersAssumption, SegmentLengths, CiphertextsAssumption DEF SEGMENT_OVERHEAD
      <4> QED BY <3>2, <3>3, <4>1, <4>5, <4>6 DEF least
    <3>4. CASE ~framed.ok /\ prefix.got = q
      <4>1. framed = decode_framing(SegmentLength, prefix_in(Slice(source, at, SEGMENT_PREFIX_LENGTH)))
        BY <1>1, <1>4, <3>4
      <4> QED BY <2>6, <3>4, <4>1 DEF Declares
    <3> QED BY <1>1, <1>3, <1>6, <3>2, <3>3, <3>4
  <2> QED BY <2>5, <2>6
<1>7. CASE prefix.ok /\ prefix.got = q /\ framed.ok
  <2>1. PICK l \in SEGMENT_OVERHEAD .. SegmentLength, k \in Kinds : framed.value = Framing(l, k)
    BY <1>4, <1>7, FramingForm
  <2>2. framed.value.ciphertext_length = l
    BY <2>1 DEF Framing
  <2>3. f = fetch_body(r, l, budget)
    <3>1. ~(prefix.got < SEGMENT_PREFIX_LENGTH)
      BY <1>1, <1>7
    <3> QED BY <1>5, <1>7, <2>2, <3>1, Zenon DEF fetch_framed
  <2>4. at \in Nat /\ at + SEGMENT_PREFIX_LENGTH <= Len(source) /\ SEGMENT_PREFIX_LENGTH <= budget
    BY <1>1, <1>3, <1>7
  <2>5. /\ Fetched(f, c, d, b, n, a, s, l)
        /\ budget >= l /\ at + l <= Len(source) => f.ok
    BY <2>3, <2>4, BodyForm, SMTT(30)
  <2>6. ASSUME NEW length \in Nat, NEW kind, budget >= SegmentLength, Declares(length, kind)
        PROVE  f.ok
    <3>1. framed = decode_framing(SegmentLength, prefix_in(Slice(source, at, SEGMENT_PREFIX_LENGTH)))
      BY <1>1, <1>4, <1>7
    <3>2. framed.value = Framing(length, kind) /\ at + length <= Len(source)
      BY <2>6, <3>1 DEF Declares
    <3>3. framed.value.ciphertext_length = length
      BY <3>2 DEF Framing
    <3>4. length = l /\ budget >= l
      BY <2>2, <2>6, <3>3, CiphertextsAssumption, SegmentLengths
    <3> QED BY <2>5, <3>2, <3>4
  <2>7. ASSUME f.ok PROVE Declares(l, k)
    <3>1. PICK pos, b2, ok : /\ f = Opened(ReaderOf(c, d, b2, n, a, s), pos, ok, <<>>)
                             /\ ok => at + l <= Len(source)
      BY <2>5 DEF Fetched
    <3>2. f.ok = ok
      BY <3>1 DEF Opened
    <3>3. framed = decode_framing(SegmentLength, prefix_in(Slice(source, at, SEGMENT_PREFIX_LENGTH)))
      BY <1>1, <1>4, <1>7
    <3> QED BY <1>7, <2>1, <2>7, <3>1, <3>2, <3>3 DEF Declares
  <2> QED BY <2>5, <2>6, <2>7
<1> QED BY <1>1, <1>3, <1>6, <1>7

(* The next bytes declare one length. *)
LEMMA DeclaresOnce ==
    ASSUME NEW l1, NEW kind1, NEW l2, NEW kind2, Declares(l1, kind1), Declares(l2, kind2)
    PROVE  l1 = l2
<1>1. PICK v : v = decode_framing(SegmentLength, prefix_in(Slice(source, at, SEGMENT_PREFIX_LENGTH))).value
  OBVIOUS
<1>2. v = Framing(l1, kind1) /\ v = Framing(l2, kind2)
  BY <1>1 DEF Declares
<1>3. v.ciphertext_length = l1 /\ v.ciphertext_length = l2
  BY <1>2 DEF Framing
<1> QED BY <1>3


-----------------------------------------------------------------------------
(* Opening a segment. *)

(* The reader after a segment was opened; available is what of its payload *)
(* the buffer keeps.                                                       *)
NextReader(c, keys, k, kind, b, available) ==
    IF kind = "NonFinal" THEN ReaderOf(c, Some(DecryptorAt(keys, k + 1)), b, 0, available, "Open")
                         ELSE ReaderOf(c, None, b, 0, available, "FrameComplete")

(* the, of an option that is there. *)
LEMMA TheSome ==
    ASSUME NEW x
    PROVE  the(Some(x)) = x /\ Some(x) # None
BY DEF the, Some, None

Ending(f, r, x, q, available, bytes) ==
    poisoned(after_opening(f, finish_if_final(r, x, q.plaintext # None), available, bytes))

EndsRefused(l, f, c, b, n, a) ==
    \E d : l = Opened(ReaderOf(c, d, b, n, a, "Failed"), f.at, FALSE, <<>>)

EndsOpened(l, f, c, k, x, b, available, bytes) ==
    \E keys, kind :
        /\ LabelledCache(keys, c) /\ OpensAs(c, k, x, kind)
        /\ l = Opened(NextReader(c, keys, k, kind, b, available), f.at, TRUE, bytes)

(* What finish_if_final and the rest of load_segment and                   *)
(* read_segment_direct do after the decryptor has refused or opened the    *)
(* segment.                                                                *)
LEMMA AfterForm ==
    ASSUME NEW c, NEW k \in Nat, NEW x, NEW q, NEW b, NEW n, NEW a, NEW f, NEW available,
           NEW bytes, NEW r, r = ReaderOf(c, Some(q.decryptor), b, n, a, "Open"),
           NEW l, l = Ending(f, r, x, q, available, bytes)
    PROVE  /\ Refuses(q, c, k) => EndsRefused(l, f, c, b, n, a)
           /\ Accepts(q, c, k, x) => EndsOpened(l, f, c, k, x, b, available, bytes)
<1>1. PICK pos, no, yes : pos = f.at /\ no = FALSE /\ yes = TRUE
  OBVIOUS
<1>2. ASSUME Refuses(q, c, k)
      PROVE  EndsRefused(l, f, c, b, n, a)
  <2>1. PICK keys : q = DecryptorResult(DecryptorAt(keys, k), None)
    BY <1>2 DEF Refuses
  <2>2. q.plaintext = None
    BY <2>1 DEF DecryptorResult
  <2>3. PICK done : done = [reader |-> r, ok |-> no]
    OBVIOUS
  <2>4. finish_if_final(r, x, q.plaintext # None) = done
    BY <1>1, <2>2, <2>3, Zenon DEF finish_if_final
  <2>5. done.ok = no /\ done.reader = r
    BY <2>3
  <2>6. after_opening(f, done, available, bytes) = Opened(r, pos, no, <<>>)
    BY <1>1, <2>5, Zenon DEF after_opening
  <2>7. PICK e \in BOOLEAN : e = no
    BY <1>1
  <2>8. PICK step, d : step = Opened(ReaderOf(c, d, b, n, a, "Open"), pos, e, <<>>)
                       /\ step = Opened(r, pos, no, <<>>)
    BY <2>7, Zenon
  <2>9. poisoned(step) = Opened(ReaderOf(c, d, b, n, a, "Failed"), pos, e, <<>>)
    BY <1>1, <2>7, <2>8, PoisonedForm
  <2> QED BY <1>1, <2>4, <2>6, <2>7, <2>8, <2>9, Zenon DEF Ending, EndsRefused
<1>3. ASSUME Accepts(q, c, k, x)
      PROVE  EndsOpened(l, f, c, k, x, b, available, bytes)
  <2>1. PICK keys, kind :
          /\ q = DecryptorResult(DecryptorAfter(keys, k, kind), Some(x.plaintext))
          /\ LabelledCache(keys, c) /\ OpensAs(c, k, x, kind)
          /\ x.prefix = U32_MAX <=> kind = "NonFinal"
    BY <1>3 DEF Accepts, OpensAs
  <2>2. PICK d, p : d = DecryptorAfter(keys, k, kind) /\ p = Some(x.plaintext)
    OBVIOUS
  <2>3. q.plaintext = p /\ q.decryptor = d
    BY <2>1, <2>2 DEF DecryptorResult
  <2>4. p # None /\ the(Some(d)) = d
    BY <2>2, TheSome
  <2>5. PICK r2 : r2 = IF kind = "NonFinal" THEN r
                       ELSE [r EXCEPT !.decryptor = None, !.status = "FrameComplete"]
    OBVIOUS
  <2>6. PICK done : done = [reader |-> r2, ok |-> yes]
    OBVIOUS
  <2>7. r.decryptor = Some(d)
    BY <2>3, ReaderFields
  <2>8. finish_if_final(r, x, q.plaintext # None) = done
    <3>1. CASE kind = "NonFinal"
      <4>1. finish_if_final(r, x, q.plaintext # None) = [reader |-> r, ok |-> q.plaintext # None]
        BY <2>1, <3>1, Zenon DEF finish_if_final
      <4>2. (q.plaintext # None) = yes
        BY <1>1, <2>3, <2>4, Zenon
      <4> QED BY <2>5, <2>6, <3>1, <4>1, <4>2, Zenon
    <3>2. CASE kind # "NonFinal"
      <4>1. finish(d) = "Ok"
        <5>1. d = [keys |-> keys, counter |-> [next |-> k, closed |-> TRUE]]
          BY <2>2, <3>2 DEF DecryptorAfter, ClosedAt
        <5>2. d.counter.closed
          BY <5>1
        <5> QED BY <5>2 DEF finish
      <4>2. x.prefix # U32_MAX /\ q.plaintext # None /\ finish(the(r.decryptor)) = "Ok"
        BY <2>1, <2>3, <2>4, <2>7, <3>2, <4>1, Zenon
      <4> QED BY <1>1, <2>5, <2>6, <3>2, <4>2, Zenon DEF finish_if_final
    <3> QED BY <3>1, <3>2
  <2>9. done.ok = yes /\ done.reader = r2
    BY <2>6
  <2>10. PICK r3 : r3 = [r2 EXCEPT !.consumed = 0, !.available = available]
    OBVIOUS
  <2>11. after_opening(f, done, available, bytes) = Opened(r3, pos, yes, bytes)
    BY <1>1, <2>9, <2>10, Zenon DEF after_opening
  <2>12. r3 = NextReader(c, keys, k, kind, b, available)
    <3>1. CASE kind = "NonFinal"
      <4>1. r2 = ReaderOf(c, Some(d), b, n, a, "Open") /\ d = DecryptorAt(keys, k + 1)
        BY <2>2, <2>3, <2>5, <3>1 DEF DecryptorAfter
      <4>2. r3 = ReaderOf(c, Some(d), b, 0, available, "Open")
        BY <2>10, <4>1 DEF ReaderOf
      <4> QED BY <3>1, <4>1, <4>2 DEF NextReader
    <3>2. CASE kind # "NonFinal"
      <4>1. PICK t, e : t = "FrameComplete" /\ e = None
        OBVIOUS
      <4>2. r2 = [r EXCEPT !.decryptor = e, !.status = t]
        BY <2>5, <3>2, <4>1
      <4>3. r2 = ReaderOf(c, e, b, n, a, t)
        BY <4>2 DEF ReaderOf
      <4>4. r3 = ReaderOf(c, e, b, 0, available, t)
        BY <2>10, <4>3 DEF ReaderOf
      <4> QED BY <3>2, <4>1, <4>4 DEF NextReader
    <3> QED BY <3>1, <3>2
  <2>13. PICK step : step = Opened(r3, pos, yes, bytes)
    OBVIOUS
  <2>14. step.ok = yes
    BY <2>13 DEF Opened
  <2>15. poisoned(step) = step
    BY <1>1, <2>14, Zenon DEF poisoned
  <2> QED BY <1>1, <2>1, <2>8, <2>11, <2>12, <2>13, <2>15, Zenon DEF Ending, EndsOpened
<1> QED BY <1>2, <1>3


-----------------------------------------------------------------------------
(* load_segment and read_segment_direct. *)

(* The step failed and the reader is poisoned. *)
Fails(l, c, n, a) ==
    \E d, b : \E pos \in at .. Len(source) :
        /\ l = Opened(ReaderOf(c, d, b, n, a, "Failed"), pos, FALSE, <<>>)
        /\ IsBuffer(b) /\ b.parameters = SegmentLength

(* The segment in the next bytes was opened into the buffer, or into the   *)
(* slice of the caller.                                                    *)
NextOpens(c, k, length, x, kind, keys, b) ==
    /\ length \in Nat \ {0} /\ at + length <= Len(source)
    /\ x = FilledSegment(Slice(source, at, length))
    /\ OpensAs(c, k, x, kind) /\ LabelledCache(keys, c)
    /\ IsBuffer(b) /\ b.parameters = SegmentLength

Loads(l, c, k) ==
    \E length, x, kind, keys, b :
        /\ NextOpens(c, k, length, x, kind, keys, b) /\ b.payload = x.plaintext.data
        /\ l = Opened(NextReader(c, keys, k, kind, b, Len(b.payload)), at + length, TRUE, <<>>)

ReadsDirectly(l, c, k) ==
    \E length, x, kind, keys, b :
        /\ NextOpens(c, k, length, x, kind, keys, b)
        /\ l = Opened(NextReader(c, keys, k, kind, b, 0), at + length, TRUE, x.plaintext.data)

(* The segment that belongs at the position is in the next bytes. *)
Stands(c, k, length, x, kind) ==
    /\ length \in Nat \ {0} /\ Declares(length, kind)
    /\ x = FilledSegment(Slice(source, at, length))
    /\ OpensAs(c, k, x, kind)
    /\ position_for_ok([next |-> k, closed |-> FALSE], kind) /\ k < AEAD_MAX_SEGMENTS

(* What was fetched, whichever way it is opened then. *)
HasFetched(f, c, d, n, a, s, budget, pos, b, ok, length, x) ==
    /\ f = Opened(ReaderOf(c, d, b, n, a, s), pos, ok, <<>>)
    /\ ok \in BOOLEAN /\ pos \in at .. Len(source)
    /\ IsBuffer(b) /\ b.parameters = SegmentLength
    /\ ok => /\ length \in Nat \ {0} /\ at + length <= Len(source)
             /\ pos = at + length /\ x = FilledSegment(Slice(source, at, length))
             /\ b = Buffer(SegmentLength, "Ciphertext", <<>>, Some(x))
    /\ \A k, l2, x2, kind :
          budget >= SegmentLength /\ Stands(c, k, l2, x2, kind) => ok /\ l2 = length /\ x2 = x

(* fetch_segment, for the two ways to open what it fetched. *)
LEMMA FetchedForm ==
    ASSUME Len(source) \in Nat, at \in 0 .. Len(source), NEW B, source \in Seq(B),
           NEW c, c.parameters = SegmentLength, NEW d, NEW b, IsBuffer(b),
           b.parameters = SegmentLength, NEW n, NEW a, NEW s, NEW r,
           r = ReaderOf(c, d, b, n, a, s), NEW budget \in Nat,
           NEW f, f = fetch_segment(r, budget)
    PROVE  \E pos, b2, ok, length, x : HasFetched(f, c, d, n, a, s, budget, pos, b2, ok, length, x)
<1>1. /\ \E length : /\ Fetched(f, c, d, b, n, a, s, length)
                     /\ f.ok => \E kind : Declares(length, kind)
      /\ \A length \in Nat : \A kind : budget >= SegmentLength /\ Declares(length, kind) => f.ok
  BY FetchForm
<1>2. PICK length : /\ Fetched(f, c, d, b, n, a, s, length)
                    /\ f.ok => \E kind : Declares(length, kind)
  BY <1>1
<1>3. PICK pos, b2, ok :
        /\ f = Opened(ReaderOf(c, d, b2, n, a, s), pos, ok, <<>>)
        /\ ok \in BOOLEAN /\ pos \in at .. Len(source)
        /\ IsBuffer(b2) /\ b2.parameters = b.parameters
        /\ ok => /\ length \in Nat \ {0}
                 /\ at + length <= Len(source) /\ pos = at + length
                 /\ b2 = Buffer(b.parameters, "Ciphertext", <<>>,
                                Some(FilledSegment(Slice(source, at, length))))
  BY <1>2 DEF Fetched
<1>4. PICK x : x = FilledSegment(Slice(source, at, length))
  OBVIOUS
<1>5. f.ok = ok
  BY <1>3 DEF Opened
<1>6. ASSUME NEW k, NEW l2, NEW x2, NEW kind, budget >= SegmentLength, Stands(c, k, l2, x2, kind)
      PROVE  ok /\ l2 = length /\ x2 = x
  <2>1. l2 \in Nat /\ Declares(l2, kind) /\ x2 = FilledSegment(Slice(source, at, l2))
    BY <1>6 DEF Stands
  <2>2. f.ok
    BY <1>1, <1>6, <2>1
  <2>3. PICK kind2 : Declares(length, kind2)
    BY <1>2, <2>2
  <2>4. l2 = length
    BY <2>1, <2>3, DeclaresOnce
  <2> QED BY <1>4, <1>5, <2>1, <2>2, <2>4
<1>7. \A k, l2, x2, kind : budget >= SegmentLength /\ Stands(c, k, l2, x2, kind)
                              => ok /\ l2 = length /\ x2 = x
  BY <1>6
<1>8. HasFetched(f, c, d, n, a, s, budget, pos, b2, ok, length, x)
  BY <1>3, <1>4, <1>7 DEF HasFetched
<1> QED BY <1>8


(* load_segment opens the next segment into the buffer, or fails; it does  *)
(* not fail if the segment stands there and nothing else goes wrong.       *)
LEMMA LoadForm ==
    ASSUME Len(source) \in Nat, at \in 0 .. Len(source), NEW B, source \in Seq(B),
           NEW c, c.parameters = SegmentLength, NEW keys, LabelledCache(keys, c),
           NEW k \in Nat, NEW b, IsBuffer(b), b.parameters = SegmentLength, NEW n, NEW a,
           NEW r, r = ReaderOf(c, Some(DecryptorAt(keys, k)), b, n, a, "Open"),
           NEW budget \in Nat, NEW fault,
           NEW l, l = load_segment(r, fetch_segment(r, budget), fault)
    PROVE  /\ Fails(l, c, n, a) \/ Loads(l, c, k)
           /\ \A length, x, kind :
                 fault = "none" /\ budget >= SegmentLength /\ Stands(c, k, length, x, kind)
                   => Loads(l, c, k)
<1>1. PICK f, d : f = fetch_segment(r, budget) /\ d = DecryptorAt(keys, k)
  OBVIOUS
<1>2. PICK pos, b1, ok, length, x :
        HasFetched(f, c, Some(d), n, a, "Open", budget, pos, b1, ok, length, x)
  BY <1>1, FetchedForm
<1>3. /\ f = Opened(ReaderOf(c, Some(d), b1, n, a, "Open"), pos, ok, <<>>)
      /\ ok \in BOOLEAN /\ pos \in at .. Len(source)
      /\ IsBuffer(b1) /\ b1.parameters = SegmentLength
      /\ ok => /\ length \in Nat \ {0} /\ at + length <= Len(source)
               /\ pos = at + length /\ x = FilledSegment(Slice(source, at, length))
               /\ b1 = Buffer(SegmentLength, "Ciphertext", <<>>, Some(x))
      /\ \A l2, x2, kind :
            budget >= SegmentLength /\ Stands(c, k, l2, x2, kind) => ok /\ l2 = length /\ x2 = x
  BY <1>2 DEF HasFetched
<1>4. PICK r1 : r1 = ReaderOf(c, Some(d), b1, n, a, "Open")
  OBVIOUS
<1>5. f.reader = r1 /\ f.at = pos /\ f.ok = ok
  BY <1>3, <1>4 DEF Opened
<1>6. r.decryptor = Some(d) /\ r.context = c /\ r1.buffer = b1
  BY <1>1, <1>4, ReaderFields
<1>7. the(Some(d)) = d /\ Some(d) # None
  BY TheSome
<1>8. CASE ~ok
  <2>1. PICK no \in BOOLEAN : no = FALSE
    OBVIOUS
  <2>2. load_fetched(r, f, fault) = [f EXCEPT !.ok = FALSE]
    BY <1>5, <1>8, Zenon DEF load_fetched
  <2>3. [f EXCEPT !.ok = no] = Opened(r1, pos, no, <<>>)
    BY <1>3, <1>4 DEF Opened
  <2>4. PICK step : step = Opened(ReaderOf(c, Some(d), b1, n, a, "Open"), pos, no, <<>>)
    OBVIOUS
  <2>5. load_fetched(r, f, fault) = step
    BY <1>4, <2>1, <2>2, <2>3, <2>4, Zenon
  <2>6. poisoned(step) = Opened(ReaderOf(c, Some(d), b1, n, a, "Failed"), pos, no, <<>>)
    BY <2>1, <2>4, PoisonedForm
  <2>7. l = Opened(ReaderOf(c, Some(d), b1, n, a, "Failed"), pos, FALSE, <<>>)
    BY <1>1, <2>1, <2>5, <2>6, Zenon DEF load_segment
  <2>8. Fails(l, c, n, a)
    BY <1>3, <2>7 DEF Fails
  <2> QED BY <1>3, <1>8, <2>8
<1>9. CASE ok
  <2>1. /\ length \in Nat \ {0} /\ at + length <= Len(source)
        /\ pos = at + length /\ x = FilledSegment(Slice(source, at, length))
        /\ b1 = Buffer(SegmentLength, "Ciphertext", <<>>, Some(x))
    BY <1>3, <1>9
  <2>2. PICK q : q = decrypt_segment(d, c, x, TRUE, fault)
    OBVIOUS
  <2>3. b1.segment = Some(x) /\ holds_ciphertext(b1) /\ b1.parameters = SegmentLength
    BY <2>1, BufferFields
  <2>4. PICK b2 : b2 = decrypt_with(b1, q.plaintext)
    OBVIOUS
  <2>5. PICK opening : opening = [call |-> q, buffer |-> b2]
    OBVIOUS
  <2>6. decrypt_in_place(d, c, b1, fault) = opening
    <3>1. (CHOOSE s \in b1.segment : TRUE) = x
      BY <2>3, ChooseSome
    <3> QED BY <2>2, <2>3, <2>4, <2>5, <3>1 DEF decrypt_in_place
  <2>7. load_fetched(r, f, fault) = after_loading(f, opening)
    BY <1>5, <1>6, <1>7, <1>9, <2>6, Zenon DEF load_fetched
  <2>8. opening.call = q /\ opening.buffer = b2
    BY <2>5
  <2>9. PICK r2, d2 : d2 = Some(q.decryptor) /\ r2 = ReaderOf(c, d2, b2, n, a, "Open")
    OBVIOUS
  <2>10. [r1 EXCEPT !.decryptor = d2, !.buffer = b2] = r2
    <3>1. PICK e, t : e = Some(d) /\ t = "Open"
      OBVIOUS
    <3>2. r1 = ReaderOf(c, e, b1, n, a, t) /\ r2 = ReaderOf(c, d2, b2, n, a, t)
      BY <1>4, <2>9, <3>1
    <3>3. PICK r3 : r3 = [r1 EXCEPT !.decryptor = d2]
      OBVIOUS
    <3>4. r3 = ReaderOf(c, d2, b1, n, a, t)
      BY <3>2, <3>3 DEF ReaderOf
    <3>5. [r3 EXCEPT !.buffer = b2] = r2
      BY <3>2, <3>4 DEF ReaderOf
    <3> QED BY <3>3, <3>5, Zenon
  <2>11. the(b1.segment) = x
    BY <2>3, TheSome
  <2>12. PICK available : available = Len(b2.payload)
    OBVIOUS
  <2>13. after_loading(f, opening)
           = after_opening(f, finish_if_final(r2, x, q.plaintext # None), available, <<>>)
    BY <1>5, <1>6, <2>8, <2>9, <2>10, <2>11, <2>12, Zenon DEF after_loading
  <2>14. l = Ending(f, r2, x, q, available, <<>>)
    BY <1>1, <2>7, <2>13, Zenon DEF load_segment, Ending
  <2>15. /\ Refuses(q, c, k) \/ Accepts(q, c, k, x)
         /\ \A kind \in Kinds :
              /\ fault = "none" /\ position_for_ok([next |-> k, closed |-> FALSE], kind)
              /\ k < AEAD_MAX_SEGMENTS
              /\ validate_segment(SegmentLength, x, kind)
              /\ opens(derive_segment_key(c, masked_position(k)), x, k, kind)
              => Accepts(q, c, k, x)
    BY <1>1, <2>2, FramedForm
  <2>16. /\ Refuses(q, c, k) => EndsRefused(l, f, c, b2, n, a)
         /\ Accepts(q, c, k, x) => EndsOpened(l, f, c, k, x, b2, available, <<>>)
    <3>1. r2 = ReaderOf(c, Some(q.decryptor), b2, n, a, "Open")
      BY <2>9
    <3> QED BY <2>14, <3>1, AfterForm
  <2>17. ASSUME Refuses(q, c, k) PROVE Fails(l, c, n, a)
    <3>1. q.plaintext = None
      BY <2>17 DEF Refuses, DecryptorResult
    <3>2. b2 = clear(b1)
      BY <2>4, <3>1 DEF decrypt_with
    <3>3. b2 = Buffer(SegmentLength, "Empty", <<>>, None)
      BY <1>3, <3>2, BufferOperations
    <3>4. IsBuffer(b2) /\ b2.parameters = SegmentLength
      BY <3>3, BufferFields
    <3> QED BY <1>3, <1>5, <2>16, <2>17, <3>4 DEF Fails, EndsRefused
  <2>18. ASSUME Accepts(q, c, k, x) PROVE Loads(l, c, k)
    <3>1. q.plaintext = Some(x.plaintext)
      BY <2>18 DEF Accepts, DecryptorResult
    <3>2. b2 = prepare_plaintext(b1, x.plaintext.data)
      <4>1. PICK p : p = x.plaintext
        OBVIOUS
      <4>2. q.plaintext = Some(p)
        BY <3>1, <4>1
      <4>3. (CHOOSE y \in q.plaintext : TRUE) = p /\ q.plaintext # None
        BY <4>2, ChooseSome
      <4> QED BY <2>4, <4>1, <4>3 DEF decrypt_with
    <3>3. b2 = Buffer(SegmentLength, "Plaintext", x.plaintext.data, None)
      BY <1>3, <3>2, BufferOperations
    <3>4. IsBuffer(b2) /\ b2.parameters = SegmentLength /\ b2.payload = x.plaintext.data
      BY <3>3, BufferFields
    <3>5. PICK keys2, kind :
            /\ LabelledCache(keys2, c) /\ OpensAs(c, k, x, kind)
            /\ l = Opened(NextReader(c, keys2, k, kind, b2, available), f.at, TRUE, <<>>)
      BY <2>16, <2>18 DEF EndsOpened
    <3>6. NextOpens(c, k, length, x, kind, keys2, b2)
      BY <2>1, <3>4, <3>5 DEF NextOpens
    <3>7. l = Opened(NextReader(c, keys2, k, kind, b2, Len(b2.payload)), at + length, TRUE, <<>>)
      BY <1>5, <2>1, <2>12, <3>5
    <3> QED BY <3>4, <3>6, <3>7 DEF Loads
  <2>19. ASSUME NEW l2, NEW x2, NEW kind, fault = "none", budget >= SegmentLength,
                Stands(c, k, l2, x2, kind)
         PROVE  Loads(l, c, k)
    <3>1. x2 = x
      BY <1>3, <2>19
    <3>2. Accepts(q, c, k, x)
      BY <2>15, <2>19, <3>1 DEF Stands, OpensAs
    <3> QED BY <2>18, <3>2
  <2> QED BY <2>15, <2>17, <2>18, <2>19
<1> QED BY <1>3, <1>8, <1>9

(* read_segment_direct likewise, into the slice of the caller.             *)
LEMMA DirectForm ==
    ASSUME Len(source) \in Nat, at \in 0 .. Len(source), NEW B, source \in Seq(B),
           NEW c, c.parameters = SegmentLength, NEW keys, LabelledCache(keys, c),
           NEW k \in Nat, NEW b, IsBuffer(b), b.parameters = SegmentLength, NEW n, NEW a,
           NEW r, r = ReaderOf(c, Some(DecryptorAt(keys, k)), b, n, a, "Open"),
           NEW budget \in Nat, NEW fault,
           NEW l, l = read_segment_direct(r, fetch_segment(r, budget), fault)
    PROVE  /\ Fails(l, c, n, a) \/ ReadsDirectly(l, c, k)
           /\ \A length, x, kind :
                 fault = "none" /\ budget >= SegmentLength /\ Stands(c, k, length, x, kind)
                   => ReadsDirectly(l, c, k)
<1>1. PICK f, d : f = fetch_segment(r, budget) /\ d = DecryptorAt(keys, k)
  OBVIOUS
<1>2. PICK pos, b1, ok, length, x :
        HasFetched(f, c, Some(d), n, a, "Open", budget, pos, b1, ok, length, x)
  BY <1>1, FetchedForm
<1>3. /\ f = Opened(ReaderOf(c, Some(d), b1, n, a, "Open"), pos, ok, <<>>)
      /\ ok \in BOOLEAN /\ pos \in at .. Len(source)
      /\ IsBuffer(b1) /\ b1.parameters = SegmentLength
      /\ ok => /\ length \in Nat \ {0} /\ at + length <= Len(source)
               /\ pos = at + length /\ x = FilledSegment(Slice(source, at, length))
               /\ b1 = Buffer(SegmentLength, "Ciphertext", <<>>, Some(x))
      /\ \A l2, x2, kind :
            budget >= SegmentLength /\ Stands(c, k, l2, x2, kind) => ok /\ l2 = length /\ x2 = x
  BY <1>2 DEF HasFetched
<1>4. PICK r1 : r1 = ReaderOf(c, Some(d), b1, n, a, "Open")
  OBVIOUS
<1>5. f.reader = r1 /\ f.at = pos /\ f.ok = ok
  BY <1>3, <1>4 DEF Opened
<1>6. r.decryptor = Some(d) /\ r.context = c /\ r1.buffer = b1
  BY <1>1, <1>4, ReaderFields
<1>7. the(Some(d)) = d /\ Some(d) # None
  BY TheSome
<1>8. CASE ~ok
  <2>1. PICK no \in BOOLEAN : no = FALSE
    OBVIOUS
  <2>2. open_fetched(r, f, fault) = [f EXCEPT !.ok = FALSE]
    BY <1>5, <1>8, Zenon DEF open_fetched
  <2>3. [f EXCEPT !.ok = no] = Opened(r1, pos, no, <<>>)
    BY <1>3, <1>4 DEF Opened
  <2>4. PICK step : step = Opened(ReaderOf(c, Some(d), b1, n, a, "Open"), pos, no, <<>>)
    OBVIOUS
  <2>5. open_fetched(r, f, fault) = step
    BY <1>4, <2>1, <2>2, <2>3, <2>4, Zenon
  <2>6. poisoned(step) = Opened(ReaderOf(c, Some(d), b1, n, a, "Failed"), pos, no, <<>>)
    BY <2>1, <2>4, PoisonedForm
  <2>7. l = Opened(ReaderOf(c, Some(d), b1, n, a, "Failed"), pos, FALSE, <<>>)
    BY <1>1, <2>1, <2>5, <2>6, Zenon DEF read_segment_direct
  <2>8. Fails(l, c, n, a)
    BY <1>3, <2>7 DEF Fails
  <2> QED BY <1>3, <1>8, <2>8
<1>9. CASE ok
  <2>1. /\ length \in Nat \ {0} /\ at + length <= Len(source)
        /\ pos = at + length /\ x = FilledSegment(Slice(source, at, length))
        /\ b1 = Buffer(SegmentLength, "Ciphertext", <<>>, Some(x))
    BY <1>3, <1>9
  <2>2. PICK q : q = decrypt_segment(d, c, x, TRUE, fault)
    OBVIOUS
  <2>3. b1.segment = Some(x) /\ holds_ciphertext(b1) /\ b1.parameters = SegmentLength
    BY <2>1, BufferFields
  <2>4. the(b1.segment) = x
    BY <2>3, TheSome
  <2>7. open_fetched(r, f, fault) = after_direct(f, q)
    BY <1>5, <1>6, <1>7, <1>9, <2>2, <2>4, Zenon DEF open_fetched
  <2>9. PICK r2, d2 : d2 = Some(q.decryptor) /\ r2 = ReaderOf(c, d2, b1, n, a, "Open")
    OBVIOUS
  <2>10. [r1 EXCEPT !.decryptor = d2] = r2
    <3>1. PICK e, t : e = Some(d) /\ t = "Open"
      OBVIOUS
    <3>2. r1 = ReaderOf(c, e, b1, n, a, t) /\ r2 = ReaderOf(c, d2, b1, n, a, t)
      BY <1>4, <2>9, <3>1
    <3> QED BY <3>2 DEF ReaderOf
  <2>12. PICK bytes : bytes = the(q.plaintext).data
    OBVIOUS
  <2>13. after_direct(f, q) = after_opening(f, finish_if_final(r2, x, q.plaintext # None), 0, bytes)
    BY <1>5, <1>6, <2>4, <2>9, <2>10, <2>12, Zenon DEF after_direct
  <2>14. l = Ending(f, r2, x, q, 0, bytes)
    BY <1>1, <2>7, <2>13, Zenon DEF read_segment_direct, Ending
  <2>15. /\ Refuses(q, c, k) \/ Accepts(q, c, k, x)
         /\ \A kind \in Kinds :
              /\ fault = "none" /\ position_for_ok([next |-> k, closed |-> FALSE], kind)
              /\ k < AEAD_MAX_SEGMENTS
              /\ validate_segment(SegmentLength, x, kind)
              /\ opens(derive_segment_key(c, masked_position(k)), x, k, kind)
              => Accepts(q, c, k, x)
    BY <1>1, <2>2, FramedForm
  <2>16. /\ Refuses(q, c, k) => EndsRefused(l, f, c, b1, n, a)
         /\ Accepts(q, c, k, x) => EndsOpened(l, f, c, k, x, b1, 0, bytes)
    <3>1. r2 = ReaderOf(c, Some(q.decryptor), b1, n, a, "Open")
      BY <2>9
    <3> QED BY <2>14, <3>1, AfterForm
  <2>17. ASSUME Refuses(q, c, k) PROVE Fails(l, c, n, a)
    BY <1>3, <1>5, <2>16, <2>17 DEF Fails, EndsRefused
  <2>18. ASSUME Accepts(q, c, k, x) PROVE ReadsDirectly(l, c, k)
    <3>1. PICK p : p = x.plaintext
      OBVIOUS
    <3>2. q.plaintext = Some(p)
      BY <2>18, <3>1 DEF Accepts, DecryptorResult
    <3>3. bytes = p.data
      BY <2>12, <3>2, TheSome
    <3>4. PICK keys2, kind :
            /\ LabelledCache(keys2, c) /\ OpensAs(c, k, x, kind)
            /\ l = Opened(NextReader(c, keys2, k, kind, b1, 0), f.at, TRUE, bytes)
      BY <2>16, <2>18 DEF EndsOpened
    <3>5. NextOpens(c, k, length, x, kind, keys2, b1)
      BY <1>3, <2>1, <3>4 DEF NextOpens
    <3>6. l = Opened(NextReader(c, keys2, k, kind, b1, 0), at + length, TRUE, x.plaintext.data)
      BY <1>5, <2>1, <3>1, <3>3, <3>4
    <3> QED BY <3>5, <3>6 DEF ReadsDirectly
  <2>19. ASSUME NEW l2, NEW x2, NEW kind, fault = "none", budget >= SegmentLength,
                Stands(c, k, l2, x2, kind)
         PROVE  ReadsDirectly(l, c, k)
    <3>1. x2 = x
      BY <1>3, <2>19
    <3>2. Accepts(q, c, k, x)
      BY <2>15, <2>19, <3>1 DEF Stands, OpensAs
    <3> QED BY <2>18, <3>2
  <2> QED BY <2>15, <2>17, <2>18, <2>19
<1> QED BY <1>3, <1>8, <1>9

-----------------------------------------------------------------------------
(* The message a reader is on: ours, or the other one. *)

Subject(m, c, M, W, h) ==
    \/ c = contexts.ours /\ M = m /\ W = intact(m) /\ h = headers.ours
    \/ c = contexts.other /\ M = other /\ W = other_bytes /\ h = headers.other

(* What is known of it. *)
LEMMA SubjectForm ==
    ASSUME NEW m, IsMessage(m), Len(m.segments) <= AEAD_MAX_SEGMENTS,
           NEW c, NEW M, NEW W, NEW h, Subject(m, c, M, W, h)
    PROVE  /\ IsMessageOf(c, M) /\ IsWhole(W, h, M) /\ c.parameters = SegmentLength
           /\ Len(M.segments) <= AEAD_MAX_SEGMENTS
           /\ message_of(c, m) = M /\ bytes_of_message(c, m) = W
<1>1. contexts.ours # contexts.other
  BY DEF contexts, Context, derive_message
<1>2. contexts.ours.parameters = SegmentLength /\ contexts.other.parameters = SegmentLength
  BY DEF contexts, Context
<1>3. CASE c = contexts.ours /\ M = m /\ W = intact(m) /\ h = headers.ours
  <2>1. IsMessageOf(c, M) /\ IsWhole(W, h, M)
    BY <1>3, IntactIsWhole DEF IsMessage
  <2> QED BY <1>2, <1>3, <2>1 DEF message_of, bytes_of_message
<1>4. CASE c = contexts.other /\ M = other /\ W = other_bytes /\ h = headers.other
  <2>1. IsMessageOf(c, M) /\ Len(M.segments) = 2
    BY <1>4, OtherIsMessage
  <2>2. IsWhole(W, h, M)
    BY <1>4, OtherIsWhole
  <2>3. 2 <= AEAD_MAX_SEGMENTS
    BY DecryptReaderAssumption, ParametersAssumption
  <2> QED BY <1>1, <1>2, <1>4, <2>1, <2>2, <2>3 DEF message_of, bytes_of_message
<1> QED BY <1>3, <1>4 DEF Subject

(* What alters a segment keeps the key it was sealed under. *)
LEMMA AlteredKeys ==
    ASSUME NEW m, IsMessage(m), NEW x \in AlteredSegments(m)
    PROVE  \E masked : x.key = derive_segment_key(contexts.ours, masked)
<1>1. PICK j \in 1 .. Len(m.segments) :
        x \in Altered(m.segments[j], {SEGMENT_OVERHEAD, SegmentLength})
  BY DEF AlteredSegments, OurSegments
<1>2. PICK s : s = m.segments[j]
  OBVIOUS
<1>3. IsSealed(s) /\ s.key = derive_segment_key(contexts.ours, masked_position(j - 1))
  BY <1>2, OurKeys
<1>4. PICK pre, len, k, n, pos, knd, p :
         s = [prefix |-> pre, length |-> len, damaged |-> FALSE, key |-> k,
              nonce |-> n, position |-> pos, kind |-> knd, plaintext |-> p]
  BY <1>3, Zenon DEF IsSealed
<1>5. s.key = k
  BY <1>4
<1>6. PICK no, yes : no = FALSE /\ yes = TRUE
  OBVIOUS
<1>7. s = [prefix |-> pre, length |-> len, damaged |-> no, key |-> k,
           nonce |-> n, position |-> pos, kind |-> knd, plaintext |-> p]
  BY <1>4, <1>6, Zenon
<1>8. CASE x = [s EXCEPT !.damaged = yes]
  BY <1>3, <1>5, <1>7, <1>8
<1>9. CASE \E l : x = [s EXCEPT !.prefix = l]
  BY <1>3, <1>5, <1>7, <1>9
<1>10. CASE \E l : x = [s EXCEPT !.length = l, !.damaged = yes]
  BY <1>3, <1>5, <1>7, <1>10
<1> QED BY <1>1, <1>2, <1>6, <1>8, <1>9, <1>10 DEF Altered

(* Under the context of a message only that message's own segment opens,   *)
(* at its own position and as its own kind.                                *)
LEMMA OnlyItsOwnOpens ==
    ASSUME NEW m, IsMessage(m), NEW c, NEW M, NEW W, NEW h, Subject(m, c, M, W, h),
           NEW x \in Items(m), is_segment(x), NEW i \in Nat, NEW kind, OpensAs(c, i, x, kind)
    PROVE  i + 1 \in 1 .. Len(M.segments) /\ x = M.segments[i + 1] /\ kind = KindOf(M, i + 1)
<1>1. /\ opens(derive_segment_key(c, masked_position(i)), x, i, kind)
      /\ validate_segment(SegmentLength, x, kind)
  BY DEF OpensAs
<1>2. CASE c = contexts.ours /\ M = m
  BY <1>1, <1>2, OnlyOursOpens
<1>3. CASE c = contexts.other /\ M = other
  <2>1. /\ x.key = derive_segment_key(contexts.other, masked_position(i))
        /\ x.position = i /\ x.kind = kind
    BY <1>1, <1>3 DEF opens
  <2>2. x \in OurSegments(m) \cup AlteredSegments(m) \cup OtherSegments
    BY ItemKinds DEF Items, NoForeignSegment, NoForeignHeader
  <2>3. x \notin AlteredSegments(m)
    BY <2>1, AlteredKeys, ForeignKeys
  <2>4. x \notin OurSegments(m)
    <3> SUFFICES ASSUME x \in OurSegments(m) PROVE FALSE
      OBVIOUS
    <3>1. x \in NoForeignSegment(m)
      BY DEF NoForeignSegment
    <3> QED BY <1>1, <1>3, <3>1, NoForeignOpens
  <2>5. IsMessageOf(c, M) /\ Len(M.segments) = 2
    BY <1>3, OtherIsMessage
  <2>6. PICK j \in 1 .. Len(M.segments) : x = M.segments[j]
    BY <1>3, <2>2, <2>3, <2>4, <2>5 DEF OtherSegments
  <2>7. x.position = j - 1 /\ x.kind = KindOf(M, j)
    <3>1. IsMessageOf(c, M)
      BY <2>5
    <3> QED BY <2>6, <3>1, KeysOf, SMTT(30)
  <2>8. j = i + 1
    BY <2>1, <2>5, <2>7
  <2> QED BY <2>1, <2>6, <2>7, <2>8
<1> QED BY <1>2, <1>3 DEF Subject

-----------------------------------------------------------------------------
(* Segments in the source. *)

(* What opens in the next bytes is the message's segment for the position, *)
(* and the bytes are its bytes.                                            *)
LEMMA NextIsItsOwn ==
    ASSUME NEW m, IsMessage(m), NEW c, NEW M, NEW W, NEW h, Subject(m, c, M, W, h),
           source \in Seq(BytesOf(Items(m)) \cup {junk[1]}), at \in Nat,
           NEW k \in Nat, NEW length, NEW x, NEW kind, NEW keys, NEW b,
           NextOpens(c, k, length, x, kind, keys, b)
    PROVE  /\ k + 1 \in 1 .. Len(M.segments) /\ x = M.segments[k + 1] /\ kind = KindOf(M, k + 1)
           /\ length = x.length /\ Slice(source, at, length) = segment_bytes(x)
<1> DEFINE B == BytesOf(Items(m)) \cup {junk[1]}
<1>1. /\ length \in Nat /\ at + length <= Len(source)
      /\ x = FilledSegment(Slice(source, at, length)) /\ OpensAs(c, k, x, kind)
  BY DEF NextOpens
<1>2. PICK bytes : bytes = Slice(source, at, length)
  OBVIOUS
<1> HIDE DEF B
<1>3. bytes \in Seq(B) /\ Len(bytes) = length
  <2>1. source \in Seq(B)
    BY DEF B
  <2> QED BY <1>1, <1>2, <2>1, SliceOf
<1>4. x = segment_in(bytes)
  BY <1>1, <1>2, <1>3, FilledIsFound DEF B
<1>5. Found(bytes, Items(m), x) /\ x.length = length
  <2>1. Sized(Items(m)) /\ \A y \in Items(m) : is_segment(y) => ~is_header(y)
    BY ItemsSized, ItemKinds DEF Items, NoForeignSegment, NoForeignHeader
  <2> QED BY <1>3, <1>4, <2>1, SegmentFound DEF B
<1>6. ~x.damaged
  BY <1>1 DEF OpensAs, opens
<1>7. x \in Items(m) /\ is_segment(x) /\ bytes = segment_bytes(x)
  BY <1>5, <1>6 DEF Found
<1>8. k + 1 \in 1 .. Len(M.segments) /\ x = M.segments[k + 1] /\ kind = KindOf(M, k + 1)
  BY <1>1, <1>7, OnlyItsOwnOpens
<1> QED BY <1>2, <1>5, <1>7, <1>8

(* A segment of the message that is in the next bytes stands there. *)
LEMMA SegmentStands ==
    ASSUME NEW B, source \in Seq(B), at \in Nat, NEW c, NEW M, IsMessageOf(c, M),
           Len(M.segments) <= AEAD_MAX_SEGMENTS, NEW k \in Nat, NEW j \in 1 .. Len(M.segments),
           j = k + 1, NEW x, x = M.segments[j],
           at + x.length <= Len(source), Slice(source, at, x.length) = segment_bytes(x)
    PROVE  Stands(c, k, x.length, x, KindOf(M, j))
<1>1. /\ OpensAs(c, k, x, KindOf(M, j)) /\ segment_in(Slice(source, at, x.length)) = x
      /\ DeclaredBy(Slice(source, at, SEGMENT_PREFIX_LENGTH), x.length, KindOf(M, j))
  <2>1. IsThere(c, k, x, KindOf(M, j), source, at)
    BY SegmentDeclares
  <2> QED BY <2>1 DEF IsThere
<1>2. Declares(x.length, KindOf(M, j))
  BY <1>1 DEF Declares, DeclaredBy
<1>3. x = FilledSegment(Slice(source, at, x.length))
  <2>1. Len(segment_bytes(x)) = x.length
    BY SegmentSize
  <2>2. IsSealed(x)
    BY KeysOf
  <2>3. [x EXCEPT !.length = x.length] = x
    BY <2>2, SealedKeepsLength DEF Relengthened
  <2> QED BY <1>1, <2>1, <2>3 DEF FilledSegment
<1>4. position_for_ok([next |-> k, closed |-> FALSE], KindOf(M, j)) /\ k < AEAD_MAX_SEGMENTS
  BY PositionGiven
<1>5. x.length \in Nat \ {0}
  BY SegmentSize
<1> QED BY <1>1, <1>2, <1>3, <1>4, <1>5 DEF Stands

-----------------------------------------------------------------------------
(* The part of a message that the source has from some place on. *)

(* The source has the first k segments of the message, and the reader has  *)
(* consumed them.                                                          *)
Place(M, W, k, src, start, pos) ==
    /\ k \in 0 .. Len(M.segments)
    /\ SameBytes(src, start, W, EndOf(M, W, k)) /\ pos = start + EndOf(M, W, k)

(* The decryptor and the status after k segments. *)
Position(c, M, k, d, s) ==
    \/ /\ k < Len(M.segments) /\ s = "Open"
       /\ \E keys : LabelledCache(keys, c) /\ d = Some(DecryptorAt(keys, k))
    \/ k = Len(M.segments) /\ d = None /\ s = "FrameComplete"

(* The messages and the source, as they are throughout. *)
Setting ==
    /\ IsMessage(sent) /\ Len(sent.segments) <= AEAD_MAX_SEGMENTS
    /\ source \in Seq(BytesOf(Items(sent)) \cup {junk[1]})
    /\ at \in 0 .. Len(source) /\ began \in 0 .. at

(* The positions, as numbers. *)
LEMMA SettingForm ==
    ASSUME Setting
    PROVE  /\ Len(source) \in Nat /\ at \in Nat /\ began \in Nat /\ at <= Len(source) /\ began <= at
           /\ \E B : source \in Seq(B)
<1>1. source \in Seq(BytesOf(Items(sent)) \cup {junk[1]})
  BY DEF Setting
<1>2. Len(source) \in Nat
  BY <1>1, LenProperties
<1> QED BY <1>1, <1>2 DEF Setting

(* What opened is the next segment of the message. *)
LEMMA OpenedNext ==
    ASSUME Setting, NEW c, NEW M, NEW W, NEW h, Subject(sent, c, M, W, h),
           NEW k \in Nat, Place(M, W, k, source, began, at),
           NEW length, NEW x, NEW kind, NEW keys, NEW b, NextOpens(c, k, length, x, kind, keys, b),
           NEW available, NEW r2, r2 = NextReader(c, keys, k, kind, b, available)
    PROVE  /\ k + 1 \in 1 .. Len(M.segments) /\ at + length \in at .. Len(source)
           /\ Place(M, W, k + 1, source, began, at + length)
           /\ x.plaintext.data = PayloadOf(M, k + 1)
           /\ \E d, s : Position(c, M, k + 1, d, s) /\ r2 = ReaderOf(c, d, b, 0, available, s)
<1>1. /\ IsMessage(sent) /\ Len(sent.segments) <= AEAD_MAX_SEGMENTS
      /\ source \in Seq(BytesOf(Items(sent)) \cup {junk[1]})
  BY DEF Setting
<1>2. Len(source) \in Nat /\ at \in Nat /\ began \in Nat
  BY SettingForm
<1>3. IsMessageOf(c, M) /\ IsWhole(W, h, M)
  BY <1>1, SubjectForm
<1>4. PICK j \in Nat : j = k + 1
  OBVIOUS
<1>5. /\ j \in 1 .. Len(M.segments) /\ x = M.segments[j] /\ kind = KindOf(M, j)
      /\ length = x.length /\ Slice(source, at, length) = segment_bytes(x)
  BY <1>1, <1>2, <1>4, NextIsItsOwn
<1>6. length \in Nat /\ at + length <= Len(source) /\ LabelledCache(keys, c)
  BY DEF NextOpens
<1>7. PICK e : e = EndOf(M, W, k)
  OBVIOUS
<1>8. /\ e \in Nat /\ EndOf(M, W, j) = e + length /\ e + length <= Len(W)
      /\ Slice(W, e, length) = segment_bytes(x)
  BY <1>3, <1>4, <1>5, <1>7, NextSegment
<1>9. SameBytes(source, began, W, e) /\ at = began + e
  BY <1>7 DEF Place
<1>10. SameBytes(source, began, W, e + length)
  <2>1. PICK B, C : source \in Seq(B) /\ W \in Seq(C)
    BY <1>1, <1>3 DEF IsWhole
  <2>2. began + e + length <= Len(source) /\ Slice(source, began + e, length) = Slice(W, e, length)
    BY <1>5, <1>6, <1>8, <1>9
  <2> QED BY <1>2, <1>6, <1>8, <1>9, <2>1, <2>2, SameExtends
<1>11. Place(M, W, j, source, began, at + length)
  <2>1. j \in 0 .. Len(M.segments)
    BY <1>5
  <2>2. at + length = began + (e + length)
    BY <1>2, <1>6, <1>8, <1>9
  <2> QED BY <1>8, <1>10, <2>1, <2>2 DEF Place
<1>12. x.plaintext.data = PayloadOf(M, j)
  <2>1. x.plaintext = plaintext_of(PayloadOf(M, j))
    BY <1>3, <1>5, KeysOf
  <2> QED BY <2>1 DEF plaintext_of
<1>13. \E d, s : Position(c, M, j, d, s) /\ r2 = ReaderOf(c, d, b, 0, available, s)
  <2>1. CASE j = Len(M.segments)
    <3>1. r2 = ReaderOf(c, None, b, 0, available, "FrameComplete")
      BY <1>5, <2>1 DEF KindOf, NextReader
    <3> QED BY <2>1, <3>1 DEF Position
  <2>2. CASE j # Len(M.segments)
    <3>1. r2 = ReaderOf(c, Some(DecryptorAt(keys, j)), b, 0, available, "Open")
      BY <1>4, <1>5, <2>2 DEF KindOf, NextReader
    <3>2. j < Len(M.segments)
      BY <1>3, <1>5, <2>2, MessageNumbers
    <3> QED BY <1>6, <3>1, <3>2 DEF Position
  <2> QED BY <2>1, <2>2
<1>14. at + length \in at .. Len(source)
  BY <1>2, <1>6
<1> QED BY <1>4, <1>5, <1>11, <1>12, <1>13, <1>14

(* A source that has the whole message has its next segment there. *)
LEMMA NextStands ==
    ASSUME Setting, NEW c, NEW M, NEW W, NEW h, Subject(sent, c, M, W, h),
           NEW k \in Nat, k < Len(M.segments), Place(M, W, k, source, began, at),
           SameBytes(source, began, W, Len(W))
    PROVE  \E length, x, kind : Stands(c, k, length, x, kind)
<1>1. /\ IsMessage(sent) /\ Len(sent.segments) <= AEAD_MAX_SEGMENTS
      /\ source \in Seq(BytesOf(Items(sent)) \cup {junk[1]})
  BY DEF Setting
<1>2. Len(source) \in Nat /\ at \in Nat /\ began \in Nat
  BY SettingForm
<1>3. IsMessageOf(c, M) /\ IsWhole(W, h, M) /\ Len(M.segments) <= AEAD_MAX_SEGMENTS
  BY <1>1, SubjectForm
<1>4. PICK j \in 1 .. Len(M.segments) : j = k + 1
  BY <1>3, MessageNumbers
<1>5. PICK x, e, length : x = M.segments[j] /\ e = EndOf(M, W, k) /\ length = x.length
  OBVIOUS
<1>6. /\ e \in Nat /\ length \in Nat /\ e + length <= Len(W)
      /\ Slice(W, e, length) = segment_bytes(x)
  BY <1>3, <1>4, <1>5, NextSegment
<1>7. at = began + e
  BY <1>5 DEF Place
<1>8. began + e + length <= Len(source) /\ Slice(source, began + e, length) = Slice(W, e, length)
  <2>1. PICK B, C : source \in Seq(B) /\ W \in Seq(C)
    BY <1>1, <1>3 DEF IsWhole
  <2>2. Len(W) \in Nat
    BY <1>3 DEF IsWhole
  <2> QED BY <1>2, <1>6, <2>1, <2>2, SameContains
<1>9. at + x.length <= Len(source) /\ Slice(source, at, x.length) = segment_bytes(x)
  BY <1>5, <1>6, <1>7, <1>8
<1>10. Stands(c, k, x.length, x, KindOf(M, j))
  BY <1>1, <1>2, <1>3, <1>4, <1>5, <1>9, SegmentStands
<1> QED BY <1>10

(* A step has failed for a cause, or has opened segment j of the message   *)
(* into the buffer or into the slice of the caller.                        *)
Spoilt(l, c, W, n, a, fault, budget) ==
    /\ Fails(l, c, n, a)
    /\ caused(fault, budget) \/ ~SameBytes(source, began, W, Len(W))

Reached(c, M, W, j, d, b, s, pos) ==
    /\ IsBuffer(b) /\ b.parameters = SegmentLength
    /\ Position(c, M, j, d, s) /\ Place(M, W, j, source, began, pos)
    /\ pos \in at .. Len(source) /\ j \in 1 .. Len(M.segments)

Loaded(l, c, M, W, j) ==
    \E d, b, s, pos :
        /\ Reached(c, M, W, j, d, b, s, pos) /\ b.payload = PayloadOf(M, j)
        /\ l = Opened(ReaderOf(c, d, b, 0, Len(PayloadOf(M, j)), s), pos, TRUE, <<>>)

Delivered(l, c, M, W, j) ==
    \E d, b, s, pos :
        /\ Reached(c, M, W, j, d, b, s, pos)
        /\ l = Opened(ReaderOf(c, d, b, 0, 0, s), pos, TRUE, PayloadOf(M, j))

(* load_segment in the middle of a message. *)
LEMMA LoadStep ==
    ASSUME Setting, NEW c, NEW M, NEW W, NEW h, Subject(sent, c, M, W, h),
           NEW k \in Nat, k < Len(M.segments), Place(M, W, k, source, began, at),
           NEW keys, LabelledCache(keys, c), NEW b, IsBuffer(b), b.parameters = SegmentLength,
           NEW n, NEW a, NEW r, r = ReaderOf(c, Some(DecryptorAt(keys, k)), b, n, a, "Open"),
           NEW budget \in Nat, NEW fault,
           NEW l, l = load_segment(r, fetch_segment(r, budget), fault)
    PROVE  Spoilt(l, c, W, n, a, fault, budget) \/ Loaded(l, c, M, W, k + 1)
<1>1. IsMessage(sent) /\ Len(sent.segments) <= AEAD_MAX_SEGMENTS
  BY DEF Setting
<1>2. c.parameters = SegmentLength
  BY <1>1, SubjectForm
<1>3. PICK B : source \in Seq(B)
  BY SettingForm
<1>4. Len(source) \in Nat /\ at \in 0 .. Len(source)
  BY SettingForm DEF Setting
<1>5. /\ Fails(l, c, n, a) \/ Loads(l, c, k)
      /\ \A length, x, kind :
            fault = "none" /\ budget >= SegmentLength /\ Stands(c, k, length, x, kind)
              => Loads(l, c, k)
  BY <1>2, <1>3, <1>4, LoadForm
<1>6. ASSUME Loads(l, c, k) PROVE Loaded(l, c, M, W, k + 1)
  <2>1. PICK length, x, kind, keys2, b2 :
          /\ NextOpens(c, k, length, x, kind, keys2, b2) /\ b2.payload = x.plaintext.data
          /\ l = Opened(NextReader(c, keys2, k, kind, b2, Len(b2.payload)), at + length, TRUE, <<>>)
    BY <1>6 DEF Loads
  <2>2. PICK j, pos, r2, available :
          /\ j = k + 1 /\ pos = at + length /\ available = Len(b2.payload)
          /\ r2 = NextReader(c, keys2, k, kind, b2, available)
    OBVIOUS
  <2>3. /\ j \in 1 .. Len(M.segments) /\ pos \in at .. Len(source)
        /\ Place(M, W, j, source, began, pos) /\ x.plaintext.data = PayloadOf(M, j)
        /\ \E d, s : Position(c, M, j, d, s) /\ r2 = ReaderOf(c, d, b2, 0, available, s)
    BY <2>1, <2>2, OpenedNext
  <2>4. PICK d, s : Position(c, M, j, d, s) /\ r2 = ReaderOf(c, d, b2, 0, available, s)
    BY <2>3
  <2>5. IsBuffer(b2) /\ b2.parameters = SegmentLength
    BY <2>1 DEF NextOpens
  <2>6. Reached(c, M, W, j, d, b2, s, pos)
    BY <2>3, <2>4, <2>5 DEF Reached
  <2>7. b2.payload = PayloadOf(M, j)
    BY <2>1, <2>3
  <2>8. l = Opened(ReaderOf(c, d, b2, 0, Len(PayloadOf(M, j)), s), pos, TRUE, <<>>)
    BY <2>1, <2>2, <2>4, <2>7, Zenon
  <2>9. Loaded(l, c, M, W, j)
    BY <2>6, <2>7, <2>8, Zenon DEF Loaded
  <2> QED BY <2>2, <2>9
<1>7. ASSUME ~Loads(l, c, k) PROVE Spoilt(l, c, W, n, a, fault, budget)
  <2>1. Fails(l, c, n, a)
    BY <1>5, <1>7
  <2>2. ASSUME ~caused(fault, budget), SameBytes(source, began, W, Len(W)) PROVE FALSE
    <3>1. fault = "none" /\ budget >= SegmentLength
      BY <2>2, SegmentLengths, CiphertextsAssumption DEF caused
    <3>2. PICK length, x, kind : Stands(c, k, length, x, kind)
      BY <2>2, NextStands
    <3> QED BY <1>5, <1>7, <3>1, <3>2
  <2> QED BY <2>1, <2>2 DEF Spoilt
<1> QED BY <1>6, <1>7

(* read_segment_direct in the middle of a message. *)
LEMMA DirectStep ==
    ASSUME Setting, NEW c, NEW M, NEW W, NEW h, Subject(sent, c, M, W, h),
           NEW k \in Nat, k < Len(M.segments), Place(M, W, k, source, began, at),
           NEW keys, LabelledCache(keys, c), NEW b, IsBuffer(b), b.parameters = SegmentLength,
           NEW n, NEW a, NEW r, r = ReaderOf(c, Some(DecryptorAt(keys, k)), b, n, a, "Open"),
           NEW budget \in Nat, NEW fault,
           NEW l, l = read_segment_direct(r, fetch_segment(r, budget), fault)
    PROVE  Spoilt(l, c, W, n, a, fault, budget) \/ Delivered(l, c, M, W, k + 1)
<1>1. IsMessage(sent) /\ Len(sent.segments) <= AEAD_MAX_SEGMENTS
  BY DEF Setting
<1>2. c.parameters = SegmentLength
  BY <1>1, SubjectForm
<1>3. PICK B : source \in Seq(B)
  BY SettingForm
<1>4. Len(source) \in Nat /\ at \in 0 .. Len(source)
  BY SettingForm DEF Setting
<1>5. /\ Fails(l, c, n, a) \/ ReadsDirectly(l, c, k)
      /\ \A length, x, kind :
            fault = "none" /\ budget >= SegmentLength /\ Stands(c, k, length, x, kind)
              => ReadsDirectly(l, c, k)
  BY <1>2, <1>3, <1>4, DirectForm
<1>6. ASSUME ReadsDirectly(l, c, k) PROVE Delivered(l, c, M, W, k + 1)
  <2>1. PICK length, x, kind, keys2, b2 :
          /\ NextOpens(c, k, length, x, kind, keys2, b2)
          /\ l = Opened(NextReader(c, keys2, k, kind, b2, 0), at + length, TRUE, x.plaintext.data)
    BY <1>6 DEF ReadsDirectly
  <2>2. PICK j, pos, r2 :
          j = k + 1 /\ pos = at + length /\ r2 = NextReader(c, keys2, k, kind, b2, 0)
    OBVIOUS
  <2>3. /\ j \in 1 .. Len(M.segments) /\ pos \in at .. Len(source)
        /\ Place(M, W, j, source, began, pos) /\ x.plaintext.data = PayloadOf(M, j)
        /\ \E d, s : Position(c, M, j, d, s) /\ r2 = ReaderOf(c, d, b2, 0, 0, s)
    BY <2>1, <2>2, OpenedNext
  <2>4. PICK d, s : Position(c, M, j, d, s) /\ r2 = ReaderOf(c, d, b2, 0, 0, s)
    BY <2>3
  <2>5. IsBuffer(b2) /\ b2.parameters = SegmentLength
    BY <2>1 DEF NextOpens
  <2>6. Reached(c, M, W, j, d, b2, s, pos)
    BY <2>3, <2>4, <2>5 DEF Reached
  <2>7. l = Opened(ReaderOf(c, d, b2, 0, 0, s), pos, TRUE, PayloadOf(M, j))
    BY <2>1, <2>2, <2>3, <2>4, Zenon
  <2>8. Delivered(l, c, M, W, j)
    BY <2>6, <2>7, Zenon DEF Delivered
  <2> QED BY <2>2, <2>8
<1>7. ASSUME ~ReadsDirectly(l, c, k) PROVE Spoilt(l, c, W, n, a, fault, budget)
  <2>1. Fails(l, c, n, a)
    BY <1>5, <1>7
  <2>2. ASSUME ~caused(fault, budget), SameBytes(source, began, W, Len(W)) PROVE FALSE
    <3>1. fault = "none" /\ budget >= SegmentLength
      BY <2>2, SegmentLengths, CiphertextsAssumption DEF caused
    <3>2. PICK length, x, kind : Stands(c, k, length, x, kind)
      BY <2>2, NextStands
    <3> QED BY <1>5, <1>7, <3>1, <3>2
  <2> QED BY <2>1, <2>2 DEF Spoilt
<1> QED BY <1>6, <1>7

-----------------------------------------------------------------------------
(* The inductive invariant. *)

(* What the buffer still has of the plaintext, and what a caller who has   *)
(* discarded nothing has got.                                              *)
Accounted(M, k, b, n, a, s, got, disc, fin) ==
    /\ n < a => k > 0 /\ b.payload = PayloadOf(M, k) /\ a = Len(PayloadOf(M, k))
    /\ disc \/ fin # "idle" => n = a
    /\ ~disc => Len(got) = SoFar(M, k) - (a - n)
    /\ s = "Open" => (disc <=> fin # "idle")

(* The reader is in the middle or at the end of an unaltered message. *)
Healthy(c, M, W, src, start, pos, d, b, n, a, s, got, disc, fin) ==
    \E k : /\ Place(M, W, k, src, start, pos)
           /\ \/ Position(c, M, k, d, s)
              \/ k = Len(M.segments) /\ d = None /\ s = "StreamComplete" /\ pos = Len(src)
           /\ Accounted(M, k, b, n, a, s, got, disc, fin)

(* The reader is poisoned, for a cause. *)
Broken(W, src, start, pos, n, a, s, fault) ==
    /\ s = "Failed" /\ n = a
    /\ \/ fault
       \/ ~SameBytes(src, start, W, Len(W))
       \/ start + Len(W) < Len(src) /\ pos = start + Len(W) + 1

IsReader(r, c, d, b, n, a, s) ==
    /\ r = ReaderOf(c, d, b, n, a, s) /\ n \in Nat /\ a \in Nat /\ n <= a
    /\ IsBuffer(b) /\ b.parameters = SegmentLength

GoodOn(c, M, W, src, start, pos, r, got, disc, fin, fault) ==
    /\ Returned(M, got)
    /\ \E d, b, n, a, s :
          /\ IsReader(r, c, d, b, n, a, s)
          /\ \/ Healthy(c, M, W, src, start, pos, d, b, n, a, s, got, disc, fin)
             \/ Broken(W, src, start, pos, n, a, s, fault)

Good(m, src, start, pos, r, got, disc, fin, fault) ==
    \E c, M, W, h : /\ Subject(m, c, M, W, h)
                    /\ GoodOn(c, M, W, src, start, pos, r, got, disc, fin, fault)

(* What the last result says of the reader. *)
Reports(r, res) ==
    /\ res.eof => frame_complete(r) /\ all_consumed(r)
    /\ res.op \in {"read", "try_finish", "try_finish_frame"} /\ ~res.ok => r.status = "Failed"

DecryptInv ==
    /\ Setting
    /\ \/ decrypting = None /\ call = "idle"
       \/ \E r : /\ decrypting = Some(r) /\ Reports(r, result)
                 /\ Good(sent, source, began, at, r, delivered, drained, call, failing)

-----------------------------------------------------------------------------
(* What a call returned. *)

(* The fields of a result. *)
LEMMA ResultFields ==
    ASSUME NEW op, NEW ok, NEW eof, Results(op, ok, eof)
    PROVE  result'.op = op /\ result'.ok = ok /\ result'.eof = eof
<1>1. PICK res, x, y : res = result' /\ x = ok /\ y = eof
  OBVIOUS
<1>2. res = [op |-> op, ok |-> x, eof |-> y]
  BY <1>1, Zenon DEF Results
<1>3. res.op = op /\ res.ok = x /\ res.eof = y
  BY <1>2
<1> QED BY <1>1, <1>3, Zenon

(* What read gives back, and what it leaves alone. *)
LEMMA GaveForm ==
    ASSUME NEW r2, NEW pos, NEW ok, NEW bytes, NEW ended, ended = Opened(r2, pos, ok, bytes),
           NEW n, NEW cause, Gave(ended, n, cause)
    PROVE  /\ decrypting' = Some(r2) /\ at' = pos /\ delivered' = delivered \o bytes
           /\ failing' = (failing \/ cause)
           /\ result'.op = "read" /\ result'.ok = ok
           /\ result'.eof = (ok /\ n > 0 /\ bytes = <<>>)
           /\ sent' = sent /\ source' = source /\ began' = began /\ drained' = drained
           /\ call' = call
<1>1. ended.reader = r2 /\ ended.at = pos /\ ended.ok = ok /\ ended.bytes = bytes
  <2>1. PICK e : e = ok
    OBVIOUS
  <2>2. ended = Opened(r2, pos, e, bytes)
    BY <2>1, Zenon
  <2>3. ended.reader = r2 /\ ended.at = pos /\ ended.ok = e /\ ended.bytes = bytes
    BY <2>2 DEF Opened
  <2> QED BY <2>1, <2>3, Zenon
<1>2. /\ decrypting' = Some(ended.reader) /\ at' = ended.at
      /\ delivered' = delivered \o ended.bytes
      /\ Results("read", ended.ok, ended.ok /\ n > 0 /\ ended.bytes = <<>>)
      /\ failing' = (failing \/ cause)
      /\ sent' = sent /\ source' = source /\ began' = began /\ drained' = drained /\ call' = call
  BY Zenon DEF Gave
<1>3. Results("read", ok, ok /\ n > 0 /\ bytes = <<>>)
  BY <1>1, <1>2, Zenon
<1>4. /\ result'.op = "read" /\ result'.ok = ok
      /\ result'.eof = (ok /\ n > 0 /\ bytes = <<>>)
  BY <1>3, ResultFields, Zenon
<1> QED BY <1>1, <1>2, <1>4, Zenon

(* A read that leaves a good reader keeps the invariant. *)
LEMMA ReadKeeps ==
    ASSUME Setting, NEW r2, NEW pos \in at .. Len(source), NEW ok, NEW bytes, NEW ended,
           ended = Opened(r2, pos, ok, bytes), NEW n, NEW cause, Gave(ended, n, cause),
           Good(sent, source, began, pos, r2, delivered \o bytes, drained, call,
                failing \/ cause),
           ok /\ n > 0 /\ bytes = <<>> => frame_complete(r2) /\ all_consumed(r2),
           ~ok => r2.status = "Failed"
    PROVE  DecryptInv'
<1>1. /\ decrypting' = Some(r2) /\ at' = pos /\ delivered' = delivered \o bytes
      /\ failing' = (failing \/ cause)
      /\ result'.op = "read" /\ result'.ok = ok
      /\ result'.eof = (ok /\ n > 0 /\ bytes = <<>>)
      /\ sent' = sent /\ source' = source /\ began' = began /\ drained' = drained
      /\ call' = call
  BY GaveForm, Zenon
<1>2. Setting'
  <2>1. Len(source) \in Nat /\ at \in Nat /\ began \in Nat /\ at <= Len(source) /\ began <= at
    BY SettingForm
  <2>2. pos \in 0 .. Len(source) /\ began \in 0 .. pos
    BY <2>1
  <2> QED BY <1>1, <2>2 DEF Setting
<1>3. Reports(r2, result')
  BY <1>1, Zenon DEF Reports
<1>4. Good(sent', source', began', at', r2, delivered', drained', call', failing')
  BY <1>1, Zenon
<1> QED BY <1>1, <1>2, <1>3, <1>4, Zenon DEF DecryptInv

(* What the invariant says of the reader that a caller has. *)
LEMMA TheReader ==
    ASSUME DecryptInv, NEW r \in decrypting
    PROVE  /\ Setting /\ decrypting = Some(r) /\ Reports(r, result)
           /\ Good(sent, source, began, at, r, delivered, drained, call, failing)
<1>1. decrypting # None
  BY DEF None
<1>2. PICK q : /\ decrypting = Some(q) /\ Reports(q, result)
               /\ Good(sent, source, began, at, q, delivered, drained, call, failing)
  BY <1>1, Zenon DEF DecryptInv
<1>3. q = r
  BY <1>2 DEF Some
<1> QED BY <1>2, <1>3, Zenon DEF DecryptInv

(* A further cause takes nothing away. *)
LEMMA GoodWithCause ==
    ASSUME NEW m, NEW src, NEW start, NEW pos, NEW r, NEW got, NEW disc, NEW fin, NEW fault,
           Good(m, src, start, pos, r, got, disc, fin, fault), NEW worse, fault => worse
    PROVE  Good(m, src, start, pos, r, got, disc, fin, worse)
<1>1. PICK c, M, W, h : /\ Subject(m, c, M, W, h)
                        /\ GoodOn(c, M, W, src, start, pos, r, got, disc, fin, fault)
  BY Zenon DEF Good
<1>2. ASSUME NEW n, NEW a, NEW s, Broken(W, src, start, pos, n, a, s, fault)
      PROVE  Broken(W, src, start, pos, n, a, s, worse)
  BY <1>2, Zenon DEF Broken
<1>3. GoodOn(c, M, W, src, start, pos, r, got, disc, fin, worse)
  BY <1>1, <1>2, Zenon DEF GoodOn
<1> QED BY <1>1, <1>3, Zenon DEF Good

(* Reading nothing. *)
LEMMA NothingRead ==
    ASSUME Setting, NEW r, Good(sent, source, began, at, r, delivered, drained, call, failing)
    PROVE  Good(sent, source, began, at, r, delivered \o <<>>, drained, call, failing \/ FALSE)
<1>1. PICK c, M, W, h :
        /\ Subject(sent, c, M, W, h)
        /\ GoodOn(c, M, W, source, began, at, r, delivered, drained, call, failing)
  BY Zenon DEF Good
<1>2. IsMessageOf(c, M)
  BY <1>1, SubjectForm DEF Setting
<1>3. Returned(M, delivered)
  BY <1>1, Zenon DEF GoodOn
<1>4. delivered \o <<>> = delivered
  BY <1>2, <1>3, NothingMore
<1>5. Good(sent, source, began, at, r, delivered, drained, call, failing \/ FALSE)
  <2>1. PICK worse : worse = (failing \/ FALSE)
    OBVIOUS
  <2>2. failing => worse
    BY <2>1
  <2>3. Good(sent, source, began, at, r, delivered, drained, call, worse)
    BY <2>2, GoodWithCause
  <2> QED BY <2>1, <2>3, Zenon
<1> QED BY <1>4, <1>5, Zenon

(* read, of nothing or from a poisoned reader. *)
LEMMA RefusedRead ==
    ASSUME DecryptInv, NEW r \in decrypting, NEW n \in Nat, read_refused(r, n)
    PROVE  DecryptInv'
<1>1. /\ Setting /\ decrypting = Some(r) /\ Reports(r, result)
      /\ Good(sent, source, began, at, r, delivered, drained, call, failing)
  BY TheReader
<1>2. Good(sent, source, began, at, r, delivered \o <<>>, drained, call, failing \/ FALSE)
  BY <1>1, NothingRead
<1>3. PICK ok, ended : ok = (n = 0) /\ ended = Opened(r, at, ok, <<>>)
  OBVIOUS
<1>4. Gave(ended, n, FALSE) /\ (n = 0 \/ r.status = "Failed")
  BY <1>3, Zenon DEF read_refused
<1>5. at \in at .. Len(source)
  BY <1>1, SettingForm
<1>6. ~ok => r.status = "Failed"
  BY <1>3, <1>4
<1>7. ~(ok /\ n > 0 /\ <<>> = <<>>)
  <2>1. n = 0 => ~(n > 0)
    OBVIOUS
  <2> QED BY <1>3, <2>1, Zenon
<1> QED BY <1>1, <1>2, <1>3, <1>4, <1>5, <1>6, <1>7, ReadKeeps, Zenon

(* read, after the end. *)
LEMMA ReadAtEnd ==
    ASSUME DecryptInv, NEW r \in decrypting, NEW n \in Nat, read_at_end(r, n)
    PROVE  DecryptInv'
<1>1. /\ Setting /\ decrypting = Some(r) /\ Reports(r, result)
      /\ Good(sent, source, began, at, r, delivered, drained, call, failing)
  BY TheReader
<1>2. Good(sent, source, began, at, r, delivered \o <<>>, drained, call, failing \/ FALSE)
  BY <1>1, NothingRead
<1>3. PICK ok, ended : ok = TRUE /\ ended = Opened(r, at, ok, <<>>)
  OBVIOUS
<1>4. Gave(ended, n, FALSE) /\ all_consumed(r) /\ frame_complete(r)
  BY <1>3, Zenon DEF read_at_end
<1>5. at \in at .. Len(source)
  BY <1>1, SettingForm
<1> QED BY <1>1, <1>2, <1>3, <1>4, <1>5, ReadKeeps, Zenon

-----------------------------------------------------------------------------
(* Reads that open a segment or copy from an opened one. *)

(* As much of payload j as fits was copied, from its first n bytes on. *)
Copied(l, c, M, j, d, b, n, a, s, pos, got) ==
    \E i, bytes :
        /\ l = Opened(ReaderOf(c, d, b, i, a, s), pos, TRUE, bytes) /\ bytes # <<>>
        /\ i \in Nat /\ i <= a /\ Returned(M, got \o bytes)
        /\ Len(got \o bytes) = SoFar(M, j) - (a - i)

(* The segment before position j in the plaintext. *)
LEMMA PayloadPlace ==
    ASSUME NEW c, NEW M, IsMessageOf(c, M), NEW j \in 1 .. Len(M.segments),
           NEW p, p = PayloadOf(M, j)
    PROVE  /\ p \in Seq(Nat) /\ Len(p) \in Nat
           /\ \E g \in Nat : /\ SoFar(M, j) = g + Len(p) /\ g + Len(p) <= Len(M.bytes)
                             /\ p = Slice(M.bytes, g, Len(p))
<1>1. PICK k \in Nat : j = k + 1
  <2>1. j - 1 \in Nat /\ j - 1 + 1 = j
    BY MessageNumbers
  <2> QED BY <2>1
<1>2. PICK g : g = SoFar(M, k)
  OBVIOUS
<1>3. /\ g \in Nat /\ Len(p) \in Nat /\ p \in Seq(Nat) /\ SoFar(M, j) = g + Len(p)
      /\ g + Len(p) <= Len(M.bytes) /\ p = Slice(M.bytes, g, Len(p))
  BY <1>1, <1>2, NextPayload
<1> QED BY <1>3

(* The bytes from n to n + more of payload p of segment j follow the ones  *)
(* returned before.                                                        *)
Follows(M, j, p, got, n, more, bytes) ==
    /\ Returned(M, got \o bytes) /\ Len(bytes) = more
    /\ Len(got \o bytes) = SoFar(M, j) - (Len(p) - (n + more))

(* Bytes copied from a payload. *)
LEMMA CopiedBytes ==
    ASSUME NEW c, NEW M, IsMessageOf(c, M), NEW j \in 1 .. Len(M.segments),
           NEW p, p = PayloadOf(M, j), NEW got, Returned(M, got),
           NEW n \in Nat, NEW more \in Nat, n + more <= Len(p),
           Len(got) = SoFar(M, j) - (Len(p) - n), NEW bytes, bytes = Slice(p, n, more)
    PROVE  Follows(M, j, p, got, n, more, bytes)
<1>1. p \in Seq(Nat) /\ Len(p) \in Nat
  BY PayloadPlace
<1>2. PICK g \in Nat : /\ SoFar(M, j) = g + Len(p) /\ g + Len(p) <= Len(M.bytes)
                       /\ p = Slice(M.bytes, g, Len(p))
  BY PayloadPlace
<1>3. M.bytes \in Seq(Nat) /\ Len(M.bytes) \in Nat
  BY MessageNumbers
<1>4. Len(got) = g + n
  BY <1>1, <1>2
<1>5. bytes = Slice(M.bytes, g + n, more)
  <2>1. PICK size \in Nat, all \in Seq(Nat) : size = Len(p) /\ all = M.bytes
    BY <1>1, <1>3
  <2>2. g + size <= Len(all) /\ n + more <= size
    BY <1>2, <2>1
  <2>3. Slice(Slice(all, g, size), n, more) = Slice(all, g + n, more)
    BY <2>2, SliceOfSlice
  <2> QED BY <1>2, <2>1, <2>3, Zenon
<1>6. Len(got) + more <= Len(M.bytes)
  BY <1>1, <1>2, <1>3, <1>4
<1>7. Returned(M, got \o bytes) /\ Len(got \o bytes) = Len(got) + more
  <2>1. bytes = Slice(M.bytes, Len(got), more)
    BY <1>4, <1>5, Zenon
  <2> QED BY <1>6, <2>1, ReturnedMore, ZenonT(60)
<1>8. Len(bytes) = more
  BY <1>1, SliceOf
<1> QED BY <1>1, <1>2, <1>4, <1>7, <1>8 DEF Follows

(* What copy_out does after a successful step. *)
CopiesOut(l, size, c, d, b, n, a, s, more) ==
    /\ n = a => copy_out(l, size) = l
    /\ n # a => copy_out(l, size) = Opened(ReaderOf(c, d, b, n + more, a, s), l.at, TRUE,
                                           Slice(b.payload, n, more))

(* The same, of a reader. *)
LEMMA CopyOutForm ==
    ASSUME NEW c, NEW d, NEW b, NEW n, NEW a, NEW s, NEW r, r = ReaderOf(c, d, b, n, a, s),
           NEW l, l.ok, l.reader = r, NEW size, NEW more, more = least(size, a - n)
    PROVE  CopiesOut(l, size, c, d, b, n, a, s, more)
<1>1. r.available = a /\ r.consumed = n /\ r.buffer = b
  BY ReaderFields
<1>2. [r EXCEPT !.consumed = @ + more] = ReaderOf(c, d, b, n + more, a, s)
  BY DEF ReaderOf
<1>3. least(size, r.available - r.consumed) = more
  BY <1>1
<1>4. ASSUME n = a PROVE copy_out(l, size) = l
  BY <1>1, <1>4, Zenon DEF copy_out
<1>5. ASSUME n # a
      PROVE  copy_out(l, size) = Opened([r EXCEPT !.consumed = @ + more], l.at, TRUE,
                                        Slice(b.payload, n, more))
  BY <1>1, <1>3, <1>5, Zenon DEF copy_out
<1> QED BY <1>2, <1>4, <1>5, Zenon DEF CopiesOut

(* The fields of a successful step. *)
Succeeded(l, r, pos) == l.ok /\ l.reader = r /\ l.at = pos

(* A step that succeeded. *)
LEMMA SucceededFields ==
    ASSUME NEW r, NEW pos, NEW bytes, NEW l, l = Opened(r, pos, TRUE, bytes)
    PROVE  Succeeded(l, r, pos)
<1>1. PICK yes : yes = TRUE
  OBVIOUS
<1>2. ASSUME NEW t, t = Opened(r, pos, yes, bytes)
      PROVE  t.ok = yes /\ t.reader = r /\ t.at = pos
  BY <1>2 DEF Opened
<1>3. l = Opened(r, pos, yes, bytes)
  BY <1>1, Zenon
<1>4. l.ok = yes /\ l.reader = r /\ l.at = pos
  BY <1>2, <1>3, Zenon
<1> QED BY <1>1, <1>4, Zenon DEF Succeeded

(* copy_out, of a payload of the message. *)
LEMMA CopyOut ==
    ASSUME NEW c, NEW M, IsMessageOf(c, M), NEW j \in 1 .. Len(M.segments), NEW d, NEW b,
           NEW n \in Nat, NEW a \in Nat, n < a, NEW s, NEW pos, NEW got, Returned(M, got),
           NEW p, p = PayloadOf(M, j), b.payload = p, a = Len(p),
           Len(got) = SoFar(M, j) - (a - n), NEW size \in Nat \ {0},
           NEW l, l.ok, l.reader = ReaderOf(c, d, b, n, a, s), l.at = pos
    PROVE  Copied(copy_out(l, size), c, M, j, d, b, n, a, s, pos, got)
<1>1. PICK more, bytes : more = least(size, a - n) /\ bytes = Slice(p, n, more)
  OBVIOUS
<1>2. more \in Nat \ {0} /\ n + more \in Nat /\ n + more <= a
  BY <1>1 DEF least
<1>3. /\ Returned(M, got \o bytes) /\ Len(bytes) = more
      /\ Len(got \o bytes) = SoFar(M, j) - (Len(p) - (n + more))
  <2>1. n + more <= Len(p) /\ Len(got) = SoFar(M, j) - (Len(p) - n) /\ more \in Nat
    BY <1>2
  <2>2. Follows(M, j, p, got, n, more, bytes)
    BY <1>1, <2>1, CopiedBytes
  <2> QED BY <2>2 DEF Follows
<1>4. bytes # <<>>
  BY <1>2, <1>3
<1>5. copy_out(l, size) = Opened(ReaderOf(c, d, b, n + more, a, s), pos, TRUE, bytes)
  <2>1. n # a
    OBVIOUS
  <2>2. PICK r : r = ReaderOf(c, d, b, n, a, s)
    OBVIOUS
  <2>3. CopiesOut(l, size, c, d, b, n, a, s, more)
    BY <1>1, <2>2, CopyOutForm, Zenon
  <2> QED BY <1>1, <2>1, <2>3, Zenon DEF CopiesOut
<1>6. Len(got \o bytes) = SoFar(M, j) - (a - (n + more))
  BY <1>3
<1> QED BY <1>2, <1>3, <1>4, <1>5, <1>6, Zenon DEF Copied

(* The reader is open, after k segments. *)
OpenAfter(c, M, W, k, r, keys, b, n, a, got, disc, fin) ==
    /\ k \in Nat /\ k < Len(M.segments) /\ Place(M, W, k, source, began, at)
    /\ LabelledCache(keys, c) /\ IsBuffer(b) /\ b.parameters = SegmentLength
    /\ r = ReaderOf(c, Some(DecryptorAt(keys, k)), b, n, a, "Open")
    /\ n \in Nat /\ a \in Nat /\ n <= a /\ Returned(M, got)
    /\ Accounted(M, k, b, n, a, "Open", got, disc, fin)

(* The statuses of a healthy reader. *)
LEMMA OpenReader ==
    ASSUME NEW c, NEW M, IsMessageOf(c, M), NEW W, NEW r, NEW got, NEW disc, NEW fin, NEW fault,
           GoodOn(c, M, W, source, began, at, r, got, disc, fin, fault),
           r.status # "Failed", ~frame_complete(r)
    PROVE  \E k, keys, b, n, a : OpenAfter(c, M, W, k, r, keys, b, n, a, got, disc, fin)
<1>1. Returned(M, got)
  BY Zenon DEF GoodOn
<1>2. PICK d, b, n, a, s :
        /\ IsReader(r, c, d, b, n, a, s)
        /\ \/ Healthy(c, M, W, source, began, at, d, b, n, a, s, got, disc, fin)
           \/ Broken(W, source, began, at, n, a, s, fault)
  BY Zenon DEF GoodOn
<1>3. /\ r = ReaderOf(c, d, b, n, a, s) /\ n \in Nat /\ a \in Nat /\ n <= a
      /\ IsBuffer(b) /\ b.parameters = SegmentLength
  BY <1>2 DEF IsReader
<1>4. r.status = s
  BY <1>3, ReaderFields
<1>5. s # "Failed" /\ s # "FrameComplete" /\ s # "StreamComplete"
  BY <1>4 DEF frame_complete
<1>6. Healthy(c, M, W, source, began, at, d, b, n, a, s, got, disc, fin)
  BY <1>2, <1>5, Zenon DEF Broken
<1>7. PICK k : /\ Place(M, W, k, source, began, at)
               /\ \/ Position(c, M, k, d, s)
                  \/ k = Len(M.segments) /\ d = None /\ s = "StreamComplete" /\ at = Len(source)
               /\ Accounted(M, k, b, n, a, s, got, disc, fin)
  BY <1>6, Zenon DEF Healthy
<1>8. PICK keys : /\ k < Len(M.segments) /\ s = "Open" /\ LabelledCache(keys, c)
                  /\ d = Some(DecryptorAt(keys, k))
  BY <1>5, <1>7, Zenon DEF Position
<1>9. k \in Nat
  BY <1>7, MessageNumbers DEF Place
<1>10. r = ReaderOf(c, Some(DecryptorAt(keys, k)), b, n, a, "Open")
  BY <1>3, <1>8, Zenon
<1>11. Accounted(M, k, b, n, a, "Open", got, disc, fin)
  BY <1>7, <1>8, Zenon
<1>12. OpenAfter(c, M, W, k, r, keys, b, n, a, got, disc, fin)
  BY <1>1, <1>3, <1>7, <1>8, <1>9, <1>10, <1>11, Zenon DEF OpenAfter
<1> QED BY <1>12, Zenon

(* A failed step, of a reader with nothing left in its buffer, leaves a    *)
(* good reader.                                                            *)
Fell(l, got, disc, fin, worse) ==
    \E r2, pos : /\ l = Opened(r2, pos, FALSE, <<>>) /\ pos \in at .. Len(source)
                 /\ r2.status = "Failed"
                 /\ Good(sent, source, began, pos, r2, got, disc, fin, worse)

(* Such a step. *)
LEMMA FailedStep ==
    ASSUME NEW c, NEW M, NEW W, NEW h, Subject(sent, c, M, W, h), NEW got, Returned(M, got),
           NEW a \in Nat, NEW fault, NEW budget, NEW l, Spoilt(l, c, W, a, a, fault, budget),
           NEW disc, NEW fin, NEW worse, caused(fault, budget) => worse
    PROVE  Fell(l, got, disc, fin, worse)
<1>1. PICK d, b, pos :
        /\ pos \in at .. Len(source)
        /\ l = Opened(ReaderOf(c, d, b, a, a, "Failed"), pos, FALSE, <<>>)
        /\ IsBuffer(b) /\ b.parameters = SegmentLength
  BY Zenon DEF Spoilt, Fails
<1>2. PICK r2 : r2 = ReaderOf(c, d, b, a, a, "Failed")
  OBVIOUS
<1>3. r2.status = "Failed"
  BY <1>2, ReaderFields
<1>4. IsReader(r2, c, d, b, a, a, "Failed")
  BY <1>1, <1>2 DEF IsReader
<1>5. Broken(W, source, began, pos, a, a, "Failed", worse)
  BY Zenon DEF Broken, Spoilt
<1>6. GoodOn(c, M, W, source, began, pos, r2, got, disc, fin, worse)
  BY <1>4, <1>5, Zenon DEF GoodOn
<1>7. Good(sent, source, began, pos, r2, got, disc, fin, worse)
  BY <1>6, Zenon DEF Good
<1> QED BY <1>1, <1>2, <1>3, <1>7, Zenon DEF Fell

(* A reader that has reached segment j is good. *)
LEMMA ReachedIsGood ==
    ASSUME NEW c, NEW M, NEW W, NEW h, Subject(sent, c, M, W, h), NEW got, Returned(M, got),
           NEW j, NEW d, NEW b, NEW s, NEW pos, Reached(c, M, W, j, d, b, s, pos),
           NEW n \in Nat, NEW a \in Nat, n <= a, NEW disc, NEW fin, NEW fault,
           Accounted(M, j, b, n, a, s, got, disc, fin), NEW r2, r2 = ReaderOf(c, d, b, n, a, s)
    PROVE  Good(sent, source, began, pos, r2, got, disc, fin, fault)
<1>1. /\ IsBuffer(b) /\ b.parameters = SegmentLength
      /\ Position(c, M, j, d, s) /\ Place(M, W, j, source, began, pos)
  BY Zenon DEF Reached
<1>2. Healthy(c, M, W, source, began, pos, d, b, n, a, s, got, disc, fin)
  BY <1>1, Zenon DEF Healthy
<1>3. IsReader(r2, c, d, b, n, a, s)
  BY <1>1, Zenon DEF IsReader
<1>4. GoodOn(c, M, W, source, began, pos, r2, got, disc, fin, fault)
  BY <1>2, <1>3, Zenon DEF GoodOn
<1> QED BY <1>4, Zenon DEF Good

(* A segment without payload is the final one, and ends the frame. *)
LEMMA EmptyIsFinal ==
    ASSUME NEW c, NEW M, IsMessageOf(c, M), NEW W, NEW j, NEW d, NEW b, NEW s, NEW pos,
           Reached(c, M, W, j, d, b, s, pos), NEW p, p = PayloadOf(M, j), Len(p) = 0
    PROVE  j = Len(M.segments) /\ s = "FrameComplete"
<1>1. j \in 1 .. Len(M.segments) /\ Position(c, M, j, d, s)
  BY Zenon DEF Reached
<1>2. j # Len(M.segments) => Len(PayloadOf(M, j)) = capacity
  BY <1>1, PayloadsForm
<1>3. capacity # 0 /\ Len(M.segments) \in Nat
  BY MessageNumbers
<1>4. j = Len(M.segments)
  BY <1>2, <1>3
<1>5. ~(j < Len(M.segments))
  BY <1>3, <1>4
<1> QED BY <1>1, <1>4, <1>5, Zenon DEF Position

(* read_direct *)
LEMMA DirectRead ==
    ASSUME DecryptInv, call = "idle", NEW r \in decrypting, NEW n \in Nat, NEW fault,
           NEW budget \in Nat, read_direct(r, n, fault, budget)
    PROVE  DecryptInv'
<1>1. /\ Setting /\ decrypting = Some(r)
      /\ Good(sent, source, began, at, r, delivered, drained, call, failing)
  BY TheReader
<1>2. PICK c, M, W, h :
        /\ Subject(sent, c, M, W, h)
        /\ GoodOn(c, M, W, source, began, at, r, delivered, drained, call, failing)
  BY <1>1, Zenon DEF Good
<1>3. IsMessageOf(c, M)
  BY <1>1, <1>2, SubjectForm DEF Setting
<1>4. PICK l : /\ l = read_segment_direct(r, fetch_segment(r, budget), fault)
               /\ Gave(l, n, caused(fault, budget))
  BY Zenon DEF read_direct
<1>5. r.status # "Failed" /\ ~frame_complete(r) /\ all_consumed(r) /\ n > 0
  BY Zenon DEF read_direct, reads
<1>6. PICK k, keys, b, i, a : OpenAfter(c, M, W, k, r, keys, b, i, a, delivered, drained, call)
  BY <1>2, <1>3, <1>5, OpenReader
<1>7. /\ k \in Nat /\ k < Len(M.segments) /\ Place(M, W, k, source, began, at)
      /\ LabelledCache(keys, c) /\ IsBuffer(b) /\ b.parameters = SegmentLength
      /\ r = ReaderOf(c, Some(DecryptorAt(keys, k)), b, i, a, "Open")
      /\ i \in Nat /\ a \in Nat /\ Returned(M, delivered)
      /\ Accounted(M, k, b, i, a, "Open", delivered, drained, call)
  BY <1>6, Zenon DEF OpenAfter
<1>8. i = a
  BY <1>5, <1>7, ReaderFields DEF all_consumed
<1>9. PICK worse : worse = (failing \/ caused(fault, budget))
  OBVIOUS
<1>10. Spoilt(l, c, W, i, a, fault, budget) \/ Delivered(l, c, M, W, k + 1)
  BY <1>1, <1>2, <1>4, <1>7, DirectStep
<1>11. CASE Spoilt(l, c, W, i, a, fault, budget)
  <2>1. Fell(l, delivered, drained, call, worse)
    <3>1. Spoilt(l, c, W, a, a, fault, budget) /\ (caused(fault, budget) => worse)
      BY <1>8, <1>9, <1>11, Zenon
    <3> QED BY <1>2, <1>7, <3>1, FailedStep
  <2>2. PICK r2, pos : /\ l = Opened(r2, pos, FALSE, <<>>) /\ pos \in at .. Len(source)
                       /\ r2.status = "Failed"
                       /\ Good(sent, source, began, pos, r2, delivered, drained, call, worse)
    BY <2>1, Zenon DEF Fell
  <2>3. delivered \o <<>> = delivered
    BY <1>3, <1>7, NothingMore
  <2>4. Good(sent, source, began, pos, r2, delivered \o <<>>, drained, call,
             failing \/ caused(fault, budget))
    BY <1>9, <2>2, <2>3, Zenon
  <2> QED BY <1>1, <1>4, <2>2, <2>4, ReadKeeps, Zenon
<1>12. CASE Delivered(l, c, M, W, k + 1)
  <2>1. PICK j, p : j = k + 1 /\ p = PayloadOf(M, j)
    OBVIOUS
  <2>2. PICK d, b2, s, pos : /\ Reached(c, M, W, j, d, b2, s, pos)
                             /\ l = Opened(ReaderOf(c, d, b2, 0, 0, s), pos, TRUE, p)
    BY <1>12, <2>1, Zenon DEF Delivered
  <2>3. j \in 1 .. Len(M.segments) /\ pos \in at .. Len(source)
    BY <2>2 DEF Reached
  <2>4. ~drained /\ Len(delivered) = SoFar(M, k)
    <3>1. ~drained /\ Len(delivered) = SoFar(M, k) - (a - i)
      BY <1>7, Zenon DEF Accounted
    <3>2. SoFar(M, k) \in Nat
      BY <1>3, <1>7, <2>1, <2>3, NextPayload
    <3> QED BY <1>7, <1>8, <3>1, <3>2
  <2>5. /\ Len(p) \in Nat /\ p \in Seq(Nat) /\ SoFar(M, j) = Len(delivered) + Len(p)
        /\ Len(delivered) + Len(p) <= Len(M.bytes)
        /\ p = Slice(M.bytes, Len(delivered), Len(p))
    BY <1>3, <1>7, <2>1, <2>3, <2>4, NextPayload
  <2>6. Returned(M, delivered \o p) /\ Len(delivered \o p) = SoFar(M, j)
    BY <1>3, <1>7, <2>5, ReturnedMore
  <2>7. Accounted(M, j, b2, 0, 0, s, delivered \o p, drained, call)
    <3>1. SoFar(M, j) = SoFar(M, j) - (0 - 0)
      BY <1>3, <1>7, <2>5, NothingMore
    <3> QED BY <2>4, <2>6, <3>1 DEF Accounted
  <2>8. PICK r2, z : r2 = ReaderOf(c, d, b2, z, z, s) /\ z = 0
    OBVIOUS
  <2>9. Good(sent, source, began, pos, r2, delivered \o p, drained, call, worse)
    <3>1. z \in Nat /\ z <= z
      BY <2>8
    <3>2. Accounted(M, j, b2, z, z, s, delivered \o p, drained, call)
      BY <2>7, <2>8, Zenon
    <3> QED BY <1>2, <2>2, <2>6, <2>8, <3>1, <3>2, ReachedIsGood
  <2>10. ASSUME p = <<>> PROVE frame_complete(r2) /\ all_consumed(r2)
    <3>1. Len(p) = 0
      BY <2>10
    <3>2. s = "FrameComplete"
      BY <1>3, <2>1, <2>2, <3>1, EmptyIsFinal
    <3>3. r2.status = s /\ r2.consumed = z /\ r2.available = z
      BY <2>8, ReaderFields
    <3> QED BY <3>2, <3>3 DEF frame_complete, all_consumed
  <2>11. Good(sent, source, began, pos, r2, delivered \o p, drained, call,
              failing \/ caused(fault, budget))
    BY <1>9, <2>9, Zenon
  <2>12. l = Opened(r2, pos, TRUE, p)
    BY <2>2, <2>8, Zenon
  <2> QED BY <1>1, <1>4, <2>3, <2>10, <2>11, <2>12, ReadKeeps, Zenon
<1> QED BY <1>10, <1>11, <1>12

(* read_loading *)
LEMMA LoadingRead ==
    ASSUME DecryptInv, call = "idle", NEW r \in decrypting, NEW n \in Nat, NEW fault,
           NEW budget \in Nat, read_loading(r, n, fault, budget)
    PROVE  DecryptInv'
<1>1. /\ Setting /\ decrypting = Some(r)
      /\ Good(sent, source, began, at, r, delivered, drained, call, failing)
  BY TheReader
<1>2. PICK c, M, W, h :
        /\ Subject(sent, c, M, W, h)
        /\ GoodOn(c, M, W, source, began, at, r, delivered, drained, call, failing)
  BY <1>1, Zenon DEF Good
<1>3. IsMessageOf(c, M)
  BY <1>1, <1>2, SubjectForm DEF Setting
<1>4. PICK l : /\ l = load_segment(r, fetch_segment(r, budget), fault)
               /\ Gave(copy_out(l, n), n, caused(fault, budget))
  BY Zenon DEF read_loading
<1>5. r.status # "Failed" /\ ~frame_complete(r) /\ all_consumed(r) /\ n > 0
  BY Zenon DEF read_loading, reads
<1>6. PICK k, keys, b, i, a : OpenAfter(c, M, W, k, r, keys, b, i, a, delivered, drained, call)
  BY <1>2, <1>3, <1>5, OpenReader
<1>7. /\ k \in Nat /\ k < Len(M.segments) /\ Place(M, W, k, source, began, at)
      /\ LabelledCache(keys, c) /\ IsBuffer(b) /\ b.parameters = SegmentLength
      /\ r = ReaderOf(c, Some(DecryptorAt(keys, k)), b, i, a, "Open")
      /\ i \in Nat /\ a \in Nat /\ Returned(M, delivered)
      /\ Accounted(M, k, b, i, a, "Open", delivered, drained, call)
  BY <1>6, Zenon DEF OpenAfter
<1>8. i = a
  BY <1>5, <1>7, ReaderFields DEF all_consumed
<1>9. PICK worse : worse = (failing \/ caused(fault, budget))
  OBVIOUS
<1>10. Spoilt(l, c, W, i, a, fault, budget) \/ Loaded(l, c, M, W, k + 1)
  BY <1>1, <1>2, <1>4, <1>7, LoadStep
<1>11. delivered \o <<>> = delivered
  BY <1>3, <1>7, NothingMore
<1>12. CASE Spoilt(l, c, W, i, a, fault, budget)
  <2>1. Fell(l, delivered, drained, call, worse)
    <3>1. Spoilt(l, c, W, a, a, fault, budget) /\ (caused(fault, budget) => worse)
      BY <1>8, <1>9, <1>12, Zenon
    <3> QED BY <1>2, <1>7, <3>1, FailedStep
  <2>2. PICK r2, pos : /\ l = Opened(r2, pos, FALSE, <<>>) /\ pos \in at .. Len(source)
                       /\ r2.status = "Failed"
                       /\ Good(sent, source, began, pos, r2, delivered, drained, call, worse)
    BY <2>1, Zenon DEF Fell
  <2>3. Good(sent, source, began, pos, r2, delivered \o <<>>, drained, call,
             failing \/ caused(fault, budget))
    BY <1>9, <1>11, <2>2, Zenon
  <2>4. copy_out(l, n) = l
    <3>1. ~l.ok
      BY <2>2 DEF Opened
    <3> QED BY <3>1, Zenon DEF copy_out
  <2>5. Gave(l, n, caused(fault, budget))
    BY <1>4, <2>4, Zenon
  <2> QED BY <1>1, <2>2, <2>3, <2>5, ReadKeeps, Zenon
<1>13. CASE Loaded(l, c, M, W, k + 1)
  <2>1. PICK j, p, size : j = k + 1 /\ p = PayloadOf(M, j) /\ size = Len(p)
    OBVIOUS
  <2>2. PICK d, b2, s, pos :
          /\ Reached(c, M, W, j, d, b2, s, pos) /\ b2.payload = p
          /\ l = Opened(ReaderOf(c, d, b2, 0, size, s), pos, TRUE, <<>>)
    BY <1>13, <2>1, Zenon DEF Loaded
  <2>3. j \in 1 .. Len(M.segments) /\ pos \in at .. Len(source)
    BY <2>2 DEF Reached
  <2>4. ~drained /\ Len(delivered) = SoFar(M, k) /\ SoFar(M, k) \in Nat
    <3>1. ~drained /\ Len(delivered) = SoFar(M, k) - (a - i)
      BY <1>7, Zenon DEF Accounted
    <3>2. SoFar(M, k) \in Nat
      BY <1>3, <1>7, <2>1, <2>3, NextPayload
    <3> QED BY <1>7, <1>8, <3>1, <3>2
  <2>5. size \in Nat /\ SoFar(M, j) = Len(delivered) + size
    BY <1>3, <1>7, <2>1, <2>3, <2>4, NextPayload
  <2>6. PICK r1, z : r1 = ReaderOf(c, d, b2, z, size, s) /\ z = 0
    OBVIOUS
  <2>7. l.ok /\ l.reader = ReaderOf(c, d, b2, z, size, s) /\ l.at = pos /\ l = Opened(r1, pos, TRUE, <<>>)
    <3>1. l = Opened(r1, pos, TRUE, <<>>)
      BY <2>2, <2>6, Zenon
    <3>2. Succeeded(l, r1, pos)
      BY <3>1, SucceededFields, Zenon
    <3> QED BY <2>6, <3>1, <3>2, Zenon DEF Succeeded
  <2>8. CASE size = 0
    <3>1. Accounted(M, j, b2, z, size, s, delivered, drained, call)
      <4>1. Len(delivered) = SoFar(M, j) - (size - z) /\ ~(z < size) /\ z = size
        BY <2>4, <2>5, <2>6, <2>8
      <4> QED BY <2>4, <4>1 DEF Accounted
    <3>2. Good(sent, source, began, pos, r1, delivered, drained, call, worse)
      <4>1. z \in Nat /\ z <= size
        BY <2>5, <2>6
      <4> QED BY <1>2, <1>7, <2>2, <2>5, <2>6, <3>1, <4>1, ReachedIsGood
    <3>3. s = "FrameComplete"
      BY <1>3, <2>1, <2>2, <2>8, EmptyIsFinal
    <3>4. frame_complete(r1) /\ all_consumed(r1)
      <4>1. r1.status = s /\ r1.consumed = z /\ r1.available = size
        BY <2>6, ReaderFields
      <4> QED BY <2>6, <2>8, <3>3, <4>1 DEF frame_complete, all_consumed
    <3>5. copy_out(l, n) = l
      <4>1. r1.consumed = z /\ r1.available = size /\ l.reader = r1
        BY <2>6, <2>7, ReaderFields
      <4> QED BY <2>6, <2>8, <4>1 DEF copy_out
    <3>6. Gave(l, n, caused(fault, budget))
      BY <1>4, <3>5, Zenon
    <3>7. Good(sent, source, began, pos, r1, delivered \o <<>>, drained, call,
               failing \/ caused(fault, budget))
      BY <1>9, <1>11, <3>2, Zenon
    <3> QED BY <1>1, <2>3, <2>7, <3>4, <3>6, <3>7, ReadKeeps, Zenon
  <2>9. CASE size # 0
    <3>1. Copied(copy_out(l, n), c, M, j, d, b2, z, size, s, pos, delivered)
      <4>1. z \in Nat /\ z < size /\ Len(delivered) = SoFar(M, j) - (size - z) /\ n \in Nat \ {0}
        BY <1>5, <2>4, <2>5, <2>6, <2>9
      <4> QED BY <1>3, <1>7, <2>1, <2>2, <2>3, <2>5, <2>7, <4>1, CopyOut
    <3>2. PICK q, bytes :
            /\ copy_out(l, n) = Opened(ReaderOf(c, d, b2, q, size, s), pos, TRUE, bytes)
            /\ bytes # <<>> /\ q \in Nat /\ q <= size /\ Returned(M, delivered \o bytes)
            /\ Len(delivered \o bytes) = SoFar(M, j) - (size - q)
      BY <3>1, Zenon DEF Copied
    <3>3. PICK r2 : r2 = ReaderOf(c, d, b2, q, size, s)
      OBVIOUS
    <3>4. Accounted(M, j, b2, q, size, s, delivered \o bytes, drained, call)
      <4>1. j > 0
        BY <2>3
      <4>2. size = Len(PayloadOf(M, j)) /\ b2.payload = PayloadOf(M, j)
        BY <2>1, <2>2
      <4> QED BY <2>4, <3>2, <4>1, <4>2 DEF Accounted
    <3>5. Good(sent, source, began, pos, r2, delivered \o bytes, drained, call, worse)
      BY <1>2, <2>2, <2>5, <3>2, <3>3, <3>4, ReachedIsGood
    <3>6. Good(sent, source, began, pos, r2, delivered \o bytes, drained, call,
               failing \/ caused(fault, budget))
      BY <1>9, <3>5, Zenon
    <3>7. copy_out(l, n) = Opened(r2, pos, TRUE, bytes)
      BY <3>2, <3>3, Zenon
    <3> QED BY <1>1, <1>4, <2>3, <3>2, <3>6, <3>7, ReadKeeps, Zenon
  <2> QED BY <2>8, <2>9
<1> QED BY <1>10, <1>12, <1>13

(* read_loaded *)
LEMMA LoadedRead ==
    ASSUME DecryptInv, NEW r \in decrypting, NEW n \in Nat, read_loaded(r, n)
    PROVE  DecryptInv'
<1>1. /\ Setting /\ decrypting = Some(r)
      /\ Good(sent, source, began, at, r, delivered, drained, call, failing)
  BY TheReader
<1>2. PICK c, M, W, h :
        /\ Subject(sent, c, M, W, h)
        /\ GoodOn(c, M, W, source, began, at, r, delivered, drained, call, failing)
  BY <1>1, Zenon DEF Good
<1>3. IsMessageOf(c, M)
  BY <1>1, <1>2, SubjectForm DEF Setting
<1>4. PICK l : l = Opened(r, at, TRUE, <<>>) /\ Gave(copy_out(l, n), n, FALSE)
  BY Zenon DEF read_loaded
<1>5. r.status # "Failed" /\ ~all_consumed(r) /\ n > 0
  BY Zenon DEF read_loaded, reads
<1>6. PICK d, b, i, a, s :
        /\ Returned(M, delivered) /\ IsReader(r, c, d, b, i, a, s)
        /\ \/ Healthy(c, M, W, source, began, at, d, b, i, a, s, delivered, drained, call)
           \/ Broken(W, source, began, at, i, a, s, failing)
  BY <1>2, Zenon DEF GoodOn
<1>7. /\ r = ReaderOf(c, d, b, i, a, s) /\ i \in Nat /\ a \in Nat /\ i <= a
      /\ IsBuffer(b) /\ b.parameters = SegmentLength
  BY <1>6 DEF IsReader
<1>8. r.status = s /\ r.consumed = i /\ r.available = a
  BY <1>7, ReaderFields
<1>9. s # "Failed" /\ i < a
  <2>1. i # a
    BY <1>5, <1>8 DEF all_consumed
  <2> QED BY <1>5, <1>7, <1>8, <2>1
<1>10. PICK k : /\ Place(M, W, k, source, began, at)
                /\ \/ Position(c, M, k, d, s)
                   \/ k = Len(M.segments) /\ d = None /\ s = "StreamComplete" /\ at = Len(source)
                /\ Accounted(M, k, b, i, a, s, delivered, drained, call)
  BY <1>6, <1>9, Zenon DEF Healthy, Broken
<1>11. /\ k > 0 /\ b.payload = PayloadOf(M, k) /\ a = Len(PayloadOf(M, k)) /\ ~drained
       /\ call = "idle" /\ Len(delivered) = SoFar(M, k) - (a - i)
       /\ s = "Open" => (drained <=> call # "idle")
  <2>1. i # a
    BY <1>7, <1>9
  <2> QED BY <1>9, <1>10, <2>1, Zenon DEF Accounted
<1>12. k \in 1 .. Len(M.segments)
  BY <1>3, <1>10, <1>11, MessageNumbers DEF Place
<1>13. Copied(copy_out(l, n), c, M, k, d, b, i, a, s, at, delivered)
  <2>1. n \in Nat \ {0}
    BY <1>5
  <2>2. l.ok /\ l.reader = ReaderOf(c, d, b, i, a, s) /\ l.at = at
    <3>1. Succeeded(l, r, at)
      BY <1>4, SucceededFields, Zenon
    <3> QED BY <1>7, <3>1, Zenon DEF Succeeded
  <2>3. PICK p : p = PayloadOf(M, k) /\ b.payload = p /\ a = Len(p)
    BY <1>11
  <2> QED BY <1>3, <1>6, <1>7, <1>9, <1>11, <1>12, <2>1, <2>2, <2>3, CopyOut
<1>14. PICK q, bytes :
         /\ copy_out(l, n) = Opened(ReaderOf(c, d, b, q, a, s), at, TRUE, bytes)
         /\ bytes # <<>> /\ q \in Nat /\ q <= a /\ Returned(M, delivered \o bytes)
         /\ Len(delivered \o bytes) = SoFar(M, k) - (a - q)
  BY <1>13, Zenon DEF Copied
<1>15. PICK r2, worse : r2 = ReaderOf(c, d, b, q, a, s) /\ worse = (failing \/ FALSE)
  OBVIOUS
<1>16. Accounted(M, k, b, q, a, s, delivered \o bytes, drained, call)
  BY <1>11, <1>14 DEF Accounted
<1>17. Healthy(c, M, W, source, began, at, d, b, q, a, s, delivered \o bytes, drained, call)
  BY <1>10, <1>16, Zenon DEF Healthy
<1>18. IsReader(r2, c, d, b, q, a, s)
  BY <1>7, <1>14, <1>15, Zenon DEF IsReader
<1>19. Good(sent, source, began, at, r2, delivered \o bytes, drained, call, worse)
  <2>1. GoodOn(c, M, W, source, began, at, r2, delivered \o bytes, drained, call, worse)
    BY <1>14, <1>17, <1>18, Zenon DEF GoodOn
  <2> QED BY <1>2, <2>1, Zenon DEF Good
<1>20. Good(sent, source, began, at, r2, delivered \o bytes, drained, call, failing \/ FALSE)
  BY <1>15, <1>19, Zenon
<1>21. copy_out(l, n) = Opened(r2, at, TRUE, bytes) /\ Gave(copy_out(l, n), n, FALSE)
  BY <1>4, <1>14, <1>15, Zenon
<1>22. at \in at .. Len(source)
  BY <1>1, SettingForm
<1> QED BY <1>1, <1>14, <1>20, <1>21, <1>22, ReadKeeps, Zenon

-----------------------------------------------------------------------------
(* Finishing. *)

(* A finishing call that returns, and leaves a good reader. *)
LEMMA FinishKeeps ==
    ASSUME Setting, NEW op, NEW r2, NEW ok, Finishes(op, r2, ok),
           NEW pos \in at .. Len(source), at' = pos, sent' = sent, source' = source,
           began' = began, ~ok => r2.status = "Failed",
           Good(sent, source, began, pos, r2, delivered', drained', "idle", failing')
    PROVE  DecryptInv'
<1>1. Setting'
  <2>1. Len(source) \in Nat /\ at \in Nat /\ began \in Nat /\ at <= Len(source) /\ began <= at
    BY SettingForm
  <2>2. pos \in 0 .. Len(source) /\ began \in 0 .. pos
    BY <2>1
  <2> QED BY <2>2 DEF Setting
<1>2. /\ decrypting' = None \/ decrypting' = Some(r2)
      /\ call' = "idle" /\ Results(op, ok, FALSE)
  BY Zenon DEF Finishes
<1>3. result'.ok = ok /\ result'.eof = FALSE
  BY <1>2, ResultFields, Zenon
<1>4. Reports(r2, result')
  BY <1>3, Zenon DEF Reports
<1>5. Good(sent', source', began', at', r2, delivered', drained', call', failing')
  BY <1>2, Zenon
<1> QED BY <1>1, <1>2, <1>4, <1>5, Zenon DEF DecryptInv

(* The end of a finishing call discards nothing. *)
LEMMA GoodReturned ==
    ASSUME NEW m, NEW src, NEW start, NEW pos, NEW r, NEW got, NEW disc, NEW fin, NEW fault,
           Good(m, src, start, pos, r, got, disc, fin, fault), r.status # "Open"
    PROVE  Good(m, src, start, pos, r, got, disc, "idle", fault)
<1>1. PICK c, M, W, h : /\ Subject(m, c, M, W, h)
                        /\ GoodOn(c, M, W, src, start, pos, r, got, disc, fin, fault)
  BY Zenon DEF Good
<1>2. PICK d, b, n, a, s :
        /\ Returned(M, got) /\ IsReader(r, c, d, b, n, a, s)
        /\ \/ Healthy(c, M, W, src, start, pos, d, b, n, a, s, got, disc, fin)
           \/ Broken(W, src, start, pos, n, a, s, fault)
  BY <1>1, Zenon DEF GoodOn
<1>3. s # "Open"
  <2>1. r = ReaderOf(c, d, b, n, a, s)
    BY <1>2, Zenon DEF IsReader
  <2> QED BY <2>1, ReaderFields
<1>4. ASSUME NEW k, Accounted(M, k, b, n, a, s, got, disc, fin)
      PROVE  Accounted(M, k, b, n, a, s, got, disc, "idle")
  BY <1>3, <1>4, Zenon DEF Accounted
<1>5. Healthy(c, M, W, src, start, pos, d, b, n, a, s, got, disc, fin)
        => Healthy(c, M, W, src, start, pos, d, b, n, a, s, got, disc, "idle")
  BY <1>4, Zenon DEF Healthy
<1>6. GoodOn(c, M, W, src, start, pos, r, got, disc, "idle", fault)
  BY <1>2, <1>5, Zenon DEF GoodOn
<1> QED BY <1>1, <1>6, Zenon DEF Good

(* finish_again *)
LEMMA FinishAgain ==
    ASSUME DecryptInv, call = "idle", NEW r \in decrypting, NEW op, finish_again(r, op)
    PROVE  DecryptInv'
<1>1. Setting /\ Good(sent, source, began, at, r, delivered, drained, call, failing)
  BY TheReader
<1>2. /\ Finishes(op, r, TRUE) /\ sent' = sent /\ source' = source /\ at' = at /\ began' = began
      /\ delivered' = delivered /\ drained' = drained /\ failing' = failing
  BY Zenon DEF finish_again
<1>3. Good(sent, source, began, at, r, delivered', drained', "idle", failing')
  BY <1>1, <1>2, Zenon
<1>4. at \in at .. Len(source)
  BY <1>1, SettingForm
<1> QED BY <1>1, <1>2, <1>3, <1>4, FinishKeeps, Zenon

(* drain_returns *)
LEMMA DrainReturns ==
    ASSUME DecryptInv, NEW r \in decrypting, drain_returns(r)
    PROVE  DecryptInv'
<1>1. Setting /\ Good(sent, source, began, at, r, delivered, drained, call, failing)
  BY TheReader
<1>2. PICK ok : ok = (r.status # "Failed")
  OBVIOUS
<1>3. /\ Finishes(call, r, ok) /\ sent' = sent /\ source' = source /\ at' = at
      /\ began' = began /\ delivered' = delivered /\ drained' = drained /\ failing' = failing
      /\ r.status # "Open"
  BY <1>2, Zenon DEF drain_returns
<1>4. Good(sent, source, began, at, r, delivered, drained, "idle", failing)
  BY <1>1, <1>3, GoodReturned
<1>5. Good(sent, source, began, at, r, delivered', drained', "idle", failing')
  BY <1>3, <1>4, Zenon
<1>6. at \in at .. Len(source)
  BY <1>1, SettingForm
<1> QED BY <1>1, <1>2, <1>3, <1>5, <1>6, FinishKeeps, Zenon

(* finish_begin *)
LEMMA FinishBegins ==
    ASSUME DecryptInv, NEW r \in decrypting, NEW op, op # "idle", finish_begin(r, op)
    PROVE  DecryptInv'
<1>1. /\ Setting /\ Reports(r, result)
      /\ Good(sent, source, began, at, r, delivered, drained, call, failing)
  BY TheReader
<1>2. PICK c, M, W, h :
        /\ Subject(sent, c, M, W, h)
        /\ GoodOn(c, M, W, source, began, at, r, delivered, drained, call, failing)
  BY <1>1, Zenon DEF Good
<1>3. PICK d, b, n, a, s :
        /\ Returned(M, delivered) /\ IsReader(r, c, d, b, n, a, s)
        /\ \/ Healthy(c, M, W, source, began, at, d, b, n, a, s, delivered, drained, call)
           \/ Broken(W, source, began, at, n, a, s, failing)
  BY <1>2, Zenon DEF GoodOn
<1>4. /\ r = ReaderOf(c, d, b, n, a, s) /\ n \in Nat /\ a \in Nat /\ n <= a
      /\ IsBuffer(b) /\ b.parameters = SegmentLength
  BY <1>3 DEF IsReader
<1>5. r.status = s /\ r.consumed = n /\ r.available = a
  BY <1>4, ReaderFields
<1>6. PICK r2, disc : /\ r2 = ReaderOf(c, d, b, a, a, s)
                      /\ disc = (drained \/ n # a \/ s = "Open")
  OBVIOUS
<1>7. [r EXCEPT !.consumed = r.available] = r2
  <2>1. [r EXCEPT !.consumed = a] = ReaderOf(c, d, b, a, a, s)
    BY <1>4 DEF ReaderOf
  <2> QED BY <1>5, <1>6, <2>1, Zenon
<1>8. decrypting' = Some(r2) /\ drained' = disc /\ call' = op
  BY <1>5, <1>6, <1>7, Zenon DEF finish_begin
<1>9. /\ sent' = sent /\ source' = source /\ at' = at /\ began' = began
      /\ delivered' = delivered /\ result' = result /\ failing' = failing
  BY Zenon DEF finish_begin
<1>10. IsReader(r2, c, d, b, a, a, s)
  <2>1. a <= a
    BY <1>4
  <2> QED BY <1>4, <1>6, <2>1, Zenon DEF IsReader
<1>11. ASSUME NEW k, Accounted(M, k, b, n, a, s, delivered, drained, call)
       PROVE  Accounted(M, k, b, a, a, s, delivered, disc, op)
  <2>1. ~(a < a)
    BY <1>4
  <2>2. ASSUME ~disc PROVE Len(delivered) = SoFar(M, k) - (a - a)
    <3>1. ~drained /\ n = a
      BY <1>6, <2>2, Zenon
    <3> QED BY <1>11, <3>1, Zenon DEF Accounted
  <2>3. s = "Open" => disc
    BY <1>6, Zenon
  <2> QED BY <2>1, <2>2, <2>3, Zenon DEF Accounted
<1>12. Healthy(c, M, W, source, began, at, d, b, n, a, s, delivered, drained, call)
         => Healthy(c, M, W, source, began, at, d, b, a, a, s, delivered, disc, op)
  BY <1>11, Zenon DEF Healthy
<1>13. Broken(W, source, began, at, n, a, s, failing)
         => Broken(W, source, began, at, a, a, s, failing)
  BY Zenon DEF Broken
<1>14. GoodOn(c, M, W, source, began, at, r2, delivered, disc, op, failing)
  BY <1>3, <1>10, <1>12, <1>13, Zenon DEF GoodOn
<1>15. Good(sent', source', began', at', r2, delivered', drained', call', failing')
  BY <1>2, <1>8, <1>9, <1>14, Zenon DEF Good
<1>16. Reports(r2, result')
  <2>1. r2.status = s /\ r2.consumed = a /\ r2.available = a
    BY <1>6, ReaderFields
  <2> QED BY <1>1, <1>5, <1>9, <2>1, Zenon DEF Reports, frame_complete, all_consumed
<1>17. Setting'
  BY <1>1, <1>9 DEF Setting
<1> QED BY <1>8, <1>15, <1>16, <1>17, Zenon DEF DecryptInv

(* Where a complete reader stands. *)
LEMMA CompleteReader ==
    ASSUME Setting, NEW c, NEW M, IsMessageOf(c, M), NEW W, NEW d, NEW b, NEW n, NEW a, NEW s,
           NEW got, NEW disc, NEW fin,
           Healthy(c, M, W, source, began, at, d, b, n, a, s, got, disc, fin),
           s = "FrameComplete" \/ s = "StreamComplete"
    PROVE  /\ d = None /\ at = began + Len(W) /\ SameBytes(source, began, W, Len(W))
           /\ Place(M, W, Len(M.segments), source, began, at)
           /\ Accounted(M, Len(M.segments), b, n, a, s, got, disc, fin)
           /\ s = "StreamComplete" => at = Len(source)
<1>1. PICK k : /\ Place(M, W, k, source, began, at)
               /\ \/ Position(c, M, k, d, s)
                  \/ k = Len(M.segments) /\ d = None /\ s = "StreamComplete" /\ at = Len(source)
               /\ Accounted(M, k, b, n, a, s, got, disc, fin)
  BY Zenon DEF Healthy
<1>2. s # "Open"
  OBVIOUS
<1>3. k = Len(M.segments) /\ d = None /\ (s = "FrameComplete" \/ at = Len(source))
  BY <1>1, <1>2, Zenon DEF Position
<1>4. Place(M, W, Len(M.segments), source, began, at)
  BY <1>1, <1>3, Zenon
<1>5. EndOf(M, W, Len(M.segments)) = Len(W)
  BY Zenon DEF EndOf
<1>6. at = began + Len(W) /\ SameBytes(source, began, W, Len(W))
  BY <1>4, <1>5, Zenon DEF Place
<1>7. s = "StreamComplete" => at = Len(source)
  BY <1>3
<1> QED BY <1>1, <1>3, <1>4, <1>6, <1>7, Zenon

(* drain_segment *)
LEMMA DrainStep ==
    ASSUME DecryptInv, call # "idle", NEW r \in decrypting, NEW fault, NEW budget \in Nat,
           drain_segment(r, fault, budget)
    PROVE  DecryptInv'
<1>1. /\ Setting /\ Reports(r, result)
      /\ Good(sent, source, began, at, r, delivered, drained, call, failing)
  BY TheReader
<1>2. PICK c, M, W, h :
        /\ Subject(sent, c, M, W, h)
        /\ GoodOn(c, M, W, source, began, at, r, delivered, drained, call, failing)
  BY <1>1, Zenon DEF Good
<1>3. IsMessageOf(c, M)
  BY <1>1, <1>2, SubjectForm DEF Setting
<1>4. PICK l : l = load_segment(r, fetch_segment(r, budget), fault) /\ Drained(l)
  BY Zenon DEF drain_segment
<1>5. r.status = "Open"
  BY Zenon DEF drain_segment
<1>6. PICK worse : worse = (failing \/ caused(fault, budget))
  OBVIOUS
<1>7. /\ sent' = sent /\ source' = source /\ began' = began /\ delivered' = delivered
      /\ drained' = drained /\ failing' = worse
  BY <1>6, Zenon DEF drain_segment
<1>8. r.status # "Failed" /\ ~frame_complete(r)
  BY <1>5 DEF frame_complete
<1>9. PICK k, keys, b, i, a : OpenAfter(c, M, W, k, r, keys, b, i, a, delivered, drained, call)
  BY <1>2, <1>3, <1>8, OpenReader
<1>10. /\ k \in Nat /\ k < Len(M.segments) /\ Place(M, W, k, source, began, at)
       /\ LabelledCache(keys, c) /\ IsBuffer(b) /\ b.parameters = SegmentLength
       /\ r = ReaderOf(c, Some(DecryptorAt(keys, k)), b, i, a, "Open")
       /\ i \in Nat /\ a \in Nat /\ Returned(M, delivered)
       /\ Accounted(M, k, b, i, a, "Open", delivered, drained, call)
  BY <1>9, Zenon DEF OpenAfter
<1>11. i = a /\ drained
  BY <1>10, Zenon DEF Accounted
<1>12. /\ l.ok => /\ decrypting' = Some([l.reader EXCEPT !.consumed = l.reader.available])
                  /\ call' = call /\ result' = result
       /\ ~l.ok => Finishes(call, l.reader, FALSE)
       /\ at' = l.at
  BY <1>4, Zenon DEF Drained
<1>13. Spoilt(l, c, W, i, a, fault, budget) \/ Loaded(l, c, M, W, k + 1)
  BY <1>1, <1>2, <1>4, <1>10, LoadStep
<1>14. CASE Spoilt(l, c, W, i, a, fault, budget)
  <2>1. Fell(l, delivered, drained, "idle", worse)
    <3>1. Spoilt(l, c, W, a, a, fault, budget) /\ (caused(fault, budget) => worse)
      BY <1>6, <1>11, <1>14, Zenon
    <3>2. PICK fin : fin = "idle"
      OBVIOUS
    <3>3. Fell(l, delivered, drained, fin, worse)
      BY <1>2, <1>10, <3>1, FailedStep
    <3> QED BY <3>2, <3>3, Zenon
  <2>2. PICK r2, pos : /\ l = Opened(r2, pos, FALSE, <<>>) /\ pos \in at .. Len(source)
                       /\ r2.status = "Failed"
                       /\ Good(sent, source, began, pos, r2, delivered, drained, "idle", worse)
    BY <2>1, Zenon DEF Fell
  <2>3. ~l.ok /\ l.reader = r2 /\ l.at = pos
    BY <2>2 DEF Opened
  <2>4. Finishes(call, r2, FALSE) /\ at' = pos
    BY <1>12, <2>3, Zenon
  <2>5. Good(sent, source, began, pos, r2, delivered', drained', "idle", failing')
    BY <1>7, <2>2, Zenon
  <2> QED BY <1>1, <1>7, <2>2, <2>4, <2>5, FinishKeeps, Zenon
<1>15. CASE Loaded(l, c, M, W, k + 1)
  <2>1. PICK j, size : j = k + 1 /\ size = Len(PayloadOf(M, j))
    OBVIOUS
  <2>2. PICK d, b2, s, pos :
          /\ Reached(c, M, W, j, d, b2, s, pos)
          /\ l = Opened(ReaderOf(c, d, b2, 0, size, s), pos, TRUE, <<>>)
    BY <1>15, <2>1, Zenon DEF Loaded
  <2>3. j \in 1 .. Len(M.segments) /\ pos \in at .. Len(source)
    BY <2>2 DEF Reached
  <2>4. size \in Nat
    BY <1>3, <2>1, <2>3, PayloadPlace
  <2>5. PICK r1, r2, z : /\ r1 = ReaderOf(c, d, b2, z, size, s) /\ z = 0
                         /\ r2 = ReaderOf(c, d, b2, size, size, s)
    OBVIOUS
  <2>6. Succeeded(l, r1, pos)
    <3>1. l = Opened(r1, pos, TRUE, <<>>)
      BY <2>2, <2>5, Zenon
    <3> QED BY <3>1, SucceededFields, Zenon
  <2>7. [r1 EXCEPT !.consumed = r1.available] = r2
    <3>1. r1.available = size /\ [r1 EXCEPT !.consumed = size] = r2
      BY <2>5 DEF ReaderOf
    <3> QED BY <3>1, Zenon
  <2>8. decrypting' = Some(r2) /\ call' = call /\ result' = result /\ at' = pos
    BY <1>12, <2>6, <2>7, Zenon DEF Succeeded
  <2>9. Good(sent, source, began, pos, r2, delivered, drained, call, worse)
    <3>1. ~(size < size) /\ size <= size
      BY <2>4
    <3>2. Accounted(M, j, b2, size, size, s, delivered, drained, call)
      BY <1>11, <3>1, Zenon DEF Accounted
    <3> QED BY <1>2, <1>10, <2>2, <2>4, <2>5, <3>1, <3>2, ReachedIsGood
  <2>10. Good(sent', source', began', at', r2, delivered', drained', call', failing')
    BY <1>7, <2>8, <2>9, Zenon
  <2>11. Reports(r2, result')
    BY <1>1, <1>8, <2>8, Zenon DEF Reports
  <2>12. Setting'
    <3>1. Len(source) \in Nat /\ at \in Nat /\ began \in Nat /\ at <= Len(source) /\ began <= at
      BY <1>1, SettingForm
    <3>2. pos \in 0 .. Len(source) /\ began \in 0 .. pos
      BY <2>3, <3>1
    <3> QED BY <1>1, <1>7, <2>8, <3>2 DEF Setting
  <2> QED BY <2>8, <2>10, <2>11, <2>12, Zenon DEF DecryptInv
<1> QED BY <1>13, <1>14, <1>15

(* check_trailing *)
LEMMA TrailingChecked ==
    ASSUME DecryptInv, call # "idle", NEW r \in decrypting, NEW budget \in Nat,
           check_trailing(r, budget)
    PROVE  DecryptInv'
<1>1. /\ Setting
      /\ Good(sent, source, began, at, r, delivered, drained, call, failing)
  BY TheReader
<1>2. PICK c, M, W, h :
        /\ Subject(sent, c, M, W, h)
        /\ GoodOn(c, M, W, source, began, at, r, delivered, drained, call, failing)
  BY <1>1, Zenon DEF Good
<1>3. IsMessageOf(c, M)
  BY <1>1, <1>2, SubjectForm DEF Setting
<1>4. PICK t, status : t = read_fully(source, at, 1, budget) /\ status = after_trailing(t)
  OBVIOUS
<1>5. PICK r2, ok : r2 = [r EXCEPT !.status = status] /\ ok = (status = "StreamComplete")
  OBVIOUS
<1>6. /\ frame_complete(r) /\ Finishes(call, r2, ok) /\ at' = at + t.got
      /\ failing' = (failing \/ ~t.ok) /\ sent' = sent /\ source' = source /\ began' = began
      /\ delivered' = delivered /\ drained' = drained
  BY <1>4, <1>5, Zenon DEF check_trailing
<1>7. PICK d, b, n, a, s :
        /\ Returned(M, delivered) /\ IsReader(r, c, d, b, n, a, s)
        /\ \/ Healthy(c, M, W, source, began, at, d, b, n, a, s, delivered, drained, call)
           \/ Broken(W, source, began, at, n, a, s, failing)
  BY <1>2, Zenon DEF GoodOn
<1>8. /\ r = ReaderOf(c, d, b, n, a, s) /\ n \in Nat /\ a \in Nat /\ n <= a
      /\ IsBuffer(b) /\ b.parameters = SegmentLength
  BY <1>7 DEF IsReader
<1>9. s = "FrameComplete" \/ s = "StreamComplete"
  <2>1. r.status = s
    BY <1>8, ReaderFields
  <2> QED BY <1>6, <2>1 DEF frame_complete
<1>10. Healthy(c, M, W, source, began, at, d, b, n, a, s, delivered, drained, call)
  BY <1>7, <1>9 DEF Broken
<1>11. /\ d = None /\ at = began + Len(W) /\ SameBytes(source, began, W, Len(W))
       /\ Place(M, W, Len(M.segments), source, began, at)
       /\ Accounted(M, Len(M.segments), b, n, a, s, delivered, drained, call)
  BY <1>1, <1>3, <1>9, <1>10, CompleteReader
<1>12. n = a
  BY <1>11, Zenon DEF Accounted
<1>13. Len(source) \in Nat /\ at \in 0 .. Len(source) /\ began \in Nat /\ at \in Nat
  BY <1>1, SettingForm DEF Setting
<1>14. /\ t.got \in Nat /\ t.got <= 1 /\ at + t.got <= Len(source) /\ t.ok \in BOOLEAN
       /\ t.ok => t.got = least(1, Len(source) - at)
  <2>1. PICK one \in Nat : one = 1
    OBVIOUS
  <2>2. budget \in Int /\ budget >= 0
    OBVIOUS
  <2>3. /\ t.got \in Nat /\ t.got <= one /\ at + t.got <= Len(source) /\ t.ok \in BOOLEAN
        /\ t.ok => t.got = least(one, Len(source) - at)
    BY <1>4, <1>13, <2>1, <2>2, ReadFullyResult
  <2> QED BY <2>1, <2>3
<1>15. r2 = ReaderOf(c, d, b, n, a, status)
  BY <1>5, <1>8 DEF ReaderOf
<1>16. r2.status = status
  BY <1>15, ReaderFields
<1>17. IsReader(r2, c, d, b, n, a, status)
  BY <1>8, <1>15, Zenon DEF IsReader
<1>18. PICK pos : pos = at + t.got /\ pos \in at .. Len(source)
  BY <1>13, <1>14
<1>19. CASE t.ok /\ t.got = 0
  <2>1. status = "StreamComplete"
    BY <1>4, <1>19, Zenon DEF after_trailing
  <2>2. pos = at /\ at = Len(source)
    BY <1>13, <1>14, <1>18, <1>19 DEF least
  <2>3. Accounted(M, Len(M.segments), b, n, a, status, delivered, drained, "idle")
    <3>1. ~(n < a)
      BY <1>8, <1>12
    <3>2. status # "Open"
      BY <2>1
    <3> QED BY <1>11, <1>12, <3>1, <3>2, Zenon DEF Accounted
  <2>4. Healthy(c, M, W, source, began, pos, d, b, n, a, status, delivered, drained, "idle")
    BY <1>11, <2>1, <2>2, <2>3, Zenon DEF Healthy
  <2>5. GoodOn(c, M, W, source, began, pos, r2, delivered, drained, "idle", failing')
    BY <1>7, <1>17, <2>4, Zenon DEF GoodOn
  <2>6. Good(sent, source, began, pos, r2, delivered', drained', "idle", failing')
    BY <1>2, <1>6, <2>5, Zenon DEF Good
  <2>7. ~ok => r2.status = "Failed"
    BY <1>5, <2>1, Zenon
  <2> QED BY <1>1, <1>6, <1>18, <2>6, <2>7, FinishKeeps, Zenon
<1>20. CASE ~(t.ok /\ t.got = 0)
  <2>1. status = "Failed"
    BY <1>4, <1>20, Zenon DEF after_trailing
  <2>2. failing' \/ (began + Len(W) < Len(source) /\ pos = began + Len(W) + 1)
    <3>1. CASE ~t.ok
      BY <1>6, <3>1, Zenon
    <3>2. CASE t.ok
      <4>1. t.got = 1
        BY <1>14, <1>20, <3>2
      <4> QED BY <1>11, <1>13, <1>14, <1>18, <4>1
    <3> QED BY <3>1, <3>2
  <2>3. Broken(W, source, began, pos, n, a, status, failing')
    BY <1>12, <2>1, <2>2, Zenon DEF Broken
  <2>4. GoodOn(c, M, W, source, began, pos, r2, delivered, drained, "idle", failing')
    BY <1>7, <1>17, <2>3, Zenon DEF GoodOn
  <2>5. Good(sent, source, began, pos, r2, delivered', drained', "idle", failing')
    BY <1>2, <1>6, <2>4, Zenon DEF Good
  <2>6. ~ok => r2.status = "Failed"
    BY <1>16, <2>1
  <2> QED BY <1>1, <1>6, <1>18, <2>5, <2>6, FinishKeeps, Zenon
<1> QED BY <1>19, <1>20

-----------------------------------------------------------------------------
(* The source grows. *)

(* The byte that is appended is none of a message. *)
LEMMA JunkIsForeign ==
    ASSUME NEW m, IsMessage(m), Len(m.segments) <= AEAD_MAX_SEGMENTS,
           NEW c, NEW M, NEW W, NEW h, Subject(m, c, M, W, h), NEW i \in 1 .. Len(W)
    PROVE  W[i] # junk[1]
<1>1. IsMessageOf(c, M)
  BY SubjectForm
<1>2. W \in Seq(BytesOf({h} \cup OurSegments(M)))
  BY SubjectForm DEF IsWhole
<1>3. PICK y, x : y = W[i] /\ x = y.item /\ x \in {h} \cup OurSegments(M)
  <2>1. PICK y : y = W[i] /\ y \in BytesOf({h} \cup OurSegments(M))
    BY <1>2
  <2>2. y.item \in {h} \cup OurSegments(M)
    BY <2>1 DEF BytesOf
  <2> QED BY <2>1, <2>2
<1>4. is_header(x) \/ is_segment(x)
  <2>1. CASE x = h
    <3>1. h \in {headers.ours} \cup ForgedHeaders
      BY DEF Subject, ForgedHeaders
    <3> QED BY <2>1, <3>1, ItemKinds
  <2>2. CASE x \in OurSegments(M)
    <3>1. PICK j \in 1 .. Len(M.segments) : x = M.segments[j]
      BY <2>2 DEF OurSegments
    <3>2. IsSealed(x)
      BY <1>1, <3>1, KeysOf
    <3> QED BY <3>2, SealedIsSegment
  <2> QED BY <1>3, <2>1, <2>2
<1>5. DOMAIN junk[1].item = {"junk"}
  <2>1. junk[1] = [item |-> [junk |-> TRUE], at |-> 1, of |-> 1]
    BY DEF junk, bytes_of
  <2>2. junk[1].item = [junk |-> TRUE]
    BY <2>1
  <2> QED BY <2>2
<1>6. x # junk[1].item
  BY <1>4, <1>5 DEF is_header, is_segment
<1> QED BY <1>3, <1>6, Zenon

(* Growing by nothing or by that byte makes no message whole. *)
LEMMA StillNotWhole ==
    ASSUME NEW m, IsMessage(m), Len(m.segments) <= AEAD_MAX_SEGMENTS,
           NEW c, NEW M, NEW W, NEW h, Subject(m, c, M, W, h),
           NEW B, NEW src \in Seq(B), NEW more \in Seq(B), more = <<>> \/ more = junk,
           NEW start \in Nat, ~SameBytes(src, start, W, Len(W))
    PROVE  ~SameBytes(src \o more, start, W, Len(W))
<1>1. Len(W) \in Nat /\ Len(W) >= HEADER_LENGTH
  BY SubjectForm DEF IsWhole
<1>2. PICK size, n, long : /\ size \in Nat /\ n \in Nat
                           /\ size = Len(src) /\ n = Len(W) /\ long = src \o more
  BY <1>1, LenProperties
<1>3. SUFFICES ASSUME SameBytes(long, start, W, n) PROVE FALSE
  BY <1>2
<1>4. ~(start + n <= size)
  BY <1>1, <1>2, <1>3, SameInLonger
<1>5. /\ Len(long) = size + Len(more) /\ Len(more) \in Nat
      /\ Len(more) = 1 => long[size + 1] = more[1]
  <2>1. /\ Len(long) = Len(src) + Len(more) /\ Len(more) \in Nat /\ Len(src) \in Nat
        /\ \A i \in 1 .. Len(src) + Len(more) :
              long[i] = IF i <= Len(src) THEN src[i] ELSE more[i - Len(src)]
    BY <1>2, ConcatProperties, LenProperties
  <2>2. ASSUME Len(more) = 1 PROVE long[size + 1] = more[1]
    <3>1. PICK i : i = size + 1
      OBVIOUS
    <3>2. i \in 1 .. Len(src) + Len(more) /\ ~(i <= Len(src)) /\ i - Len(src) = 1
      BY <1>2, <2>1, <2>2, <3>1
    <3>3. long[i] = IF i <= Len(src) THEN src[i] ELSE more[i - Len(src)]
      BY <2>1, <3>2, Zenon
    <3> QED BY <3>1, <3>2, <3>3, Zenon
  <2> QED BY <1>2, <2>1, <2>2
<1>6. start + n <= Len(long) /\ \A i \in 1 .. n : long[start + i] = W[i]
  BY <1>3 DEF SameBytes
<1>7. more = junk
  <2>1. Len(<<>>) = 0
    OBVIOUS
  <2>2. Len(more) # 0
    BY <1>2, <1>4, <1>5, <1>6
  <2> QED BY <2>1, <2>2, Zenon
<1>8. start + n = size + 1 /\ long[size + 1] = junk[1]
  <2>1. Len(more) = 1
    BY <1>7, JunkForm
  <2> QED BY <1>2, <1>4, <1>5, <1>6, <1>7, <2>1
<1>9. n \in 1 .. n
  <2>1. HEADER_LENGTH \in Nat \ {0}
    BY ParametersAssumption
  <2> QED BY <1>1, <1>2, <2>1
<1>10. W[n] = junk[1]
  BY <1>6, <1>8, <1>9
<1> QED BY <1>2, <1>9, <1>10, JunkIsForeign

(* A reader after get_mut is good on the source that has grown. *)
LEMMA GoodOnLonger ==
    ASSUME NEW m, IsMessage(m), Len(m.segments) <= AEAD_MAX_SEGMENTS,
           NEW B, NEW src \in Seq(B), NEW more \in Seq(B), more = <<>> \/ more = junk,
           NEW start \in Nat, NEW pos, NEW r, NEW got, NEW disc, NEW fin, NEW fault,
           Good(m, src, start, pos, r, got, disc, fin, fault)
    PROVE  Good(m, src \o more, start, pos, after_get_mut(r), got, disc, fin, fault)
<1>1. PICK c, M, W, h : /\ Subject(m, c, M, W, h)
                        /\ GoodOn(c, M, W, src, start, pos, r, got, disc, fin, fault)
  BY Zenon DEF Good
<1>2. PICK d, b, n, a, s :
        /\ Returned(M, got) /\ IsReader(r, c, d, b, n, a, s)
        /\ \/ Healthy(c, M, W, src, start, pos, d, b, n, a, s, got, disc, fin)
           \/ Broken(W, src, start, pos, n, a, s, fault)
  BY <1>1, Zenon DEF GoodOn
<1>3. IsMessageOf(c, M)
  BY <1>1, SubjectForm
<1>4. Len(W) \in Nat /\ IsWhole(W, h, M)
  BY <1>1, SubjectForm DEF IsWhole
<1>5. PICK long, r2, t : /\ long = src \o more /\ r2 = after_get_mut(r)
                         /\ t = IF s = "StreamComplete" THEN "FrameComplete" ELSE s
  OBVIOUS
<1>6. IsReader(r2, c, d, b, n, a, t)
  <2>1. r = ReaderOf(c, d, b, n, a, s)
    BY <1>2, Zenon DEF IsReader
  <2>2. r.status = s /\ [r EXCEPT !.status = "FrameComplete"] = ReaderOf(c, d, b, n, a, "FrameComplete")
    BY <2>1 DEF ReaderOf
  <2>3. r2 = ReaderOf(c, d, b, n, a, t)
    BY <1>5, <2>1, <2>2, Zenon DEF after_get_mut
  <2> QED BY <1>2, <2>3, Zenon DEF IsReader
<1>7. Len(long) = Len(src) + Len(more) /\ Len(more) \in Nat /\ Len(src) \in Nat
  BY <1>5, ConcatProperties, LenProperties
<1>8. CASE Healthy(c, M, W, src, start, pos, d, b, n, a, s, got, disc, fin)
  <2>1. PICK k : /\ Place(M, W, k, src, start, pos)
                 /\ \/ Position(c, M, k, d, s)
                    \/ k = Len(M.segments) /\ d = None /\ s = "StreamComplete" /\ pos = Len(src)
                 /\ Accounted(M, k, b, n, a, s, got, disc, fin)
    BY <1>8, Zenon DEF Healthy
  <2>2. Position(c, M, k, d, t)
    <3>1. CASE Position(c, M, k, d, s)
      <4>1. s # "StreamComplete"
        BY <3>1 DEF Position
      <4> QED BY <1>5, <3>1, <4>1, Zenon
    <3>2. CASE k = Len(M.segments) /\ d = None /\ s = "StreamComplete"
      BY <1>5, <3>2, Zenon DEF Position
    <3> QED BY <2>1, <3>1, <3>2
  <2>3. Accounted(M, k, b, n, a, t, got, disc, fin)
    <3>1. t = "Open" => s = "Open"
      BY <1>5
    <3> QED BY <2>1, <3>1, Zenon DEF Accounted
  <2>4. Place(M, W, k, long, start, pos)
    <3>1. PICK e : e = EndOf(M, W, k)
      OBVIOUS
    <3>2. k \in 0 .. Len(M.segments) /\ SameBytes(src, start, W, e) /\ pos = start + e
      BY <2>1, <3>1, Zenon DEF Place
    <3>3. e \in Nat
      <4>1. CASE k = Len(M.segments)
        BY <1>4, <3>1, <4>1 DEF EndOf
      <4>2. CASE k # Len(M.segments)
        <5>1. k + 1 \in 1 .. Len(M.segments)
          BY <1>3, <3>2, <4>2, MessageNumbers
        <5> QED BY <1>4, <3>1, <4>2, <5>1 DEF EndOf, IsWhole
      <4> QED BY <4>1, <4>2
    <3>4. SameBytes(long, start, W, e)
      BY <1>4, <1>5, <3>2, <3>3, SameInLonger
    <3> QED BY <3>1, <3>2, <3>4, Zenon DEF Place
  <2>5. Healthy(c, M, W, long, start, pos, d, b, n, a, t, got, disc, fin)
    BY <2>2, <2>3, <2>4, Zenon DEF Healthy
  <2>6. GoodOn(c, M, W, long, start, pos, r2, got, disc, fin, fault)
    BY <1>2, <1>6, <2>5, Zenon DEF GoodOn
  <2> QED BY <1>1, <1>5, <2>6, Zenon DEF Good
<1>9. CASE Broken(W, src, start, pos, n, a, s, fault)
  <2>1. t = s
    BY <1>5, <1>9 DEF Broken
  <2>2. ~SameBytes(src, start, W, Len(W)) => ~SameBytes(long, start, W, Len(W))
    BY <1>1, <1>5, StillNotWhole
  <2>3. start + Len(W) < Len(src) => start + Len(W) < Len(long)
    BY <1>4, <1>7
  <2>4. Broken(W, long, start, pos, n, a, t, fault)
    BY <1>9, <2>1, <2>2, <2>3, Zenon DEF Broken
  <2>5. GoodOn(c, M, W, long, start, pos, r2, got, disc, fin, fault)
    BY <1>2, <1>6, <2>4, Zenon DEF GoodOn
  <2> QED BY <1>1, <1>5, <2>5, Zenon DEF Good
<1> QED BY <1>2, <1>8, <1>9

(* get_mut *)
LEMMA GetMut ==
    ASSUME DecryptInv, NEW r \in decrypting, NEW grown \in {<<>>, junk}, get_mut(r, grown)
    PROVE  DecryptInv'
<1>1. Setting /\ Good(sent, source, began, at, r, delivered, drained, call, failing)
  BY TheReader
<1>2. PICK r2 : r2 = after_get_mut(r)
  OBVIOUS
<1>3. /\ decrypting' = Some(r2) /\ source' = source \o grown /\ Results("get_mut", TRUE, FALSE)
      /\ sent' = sent /\ at' = at /\ began' = began /\ delivered' = delivered
      /\ drained' = drained /\ call' = call /\ failing' = failing
  BY <1>2, Zenon DEF get_mut
<1>4. IsMessage(sent) /\ Len(sent.segments) <= AEAD_MAX_SEGMENTS
  BY <1>1 DEF Setting
<1>5. Len(source) \in Nat /\ at \in Nat /\ began \in Nat /\ at <= Len(source) /\ began <= at
  BY <1>1, SettingForm
<1>6. PICK B : B = BytesOf(Items(sent)) \cup {junk[1]}
  OBVIOUS
<1>7. source \in Seq(B) /\ grown \in Seq(B)
  <2>1. source \in Seq(B)
    BY <1>1, <1>6 DEF Setting
  <2>2. junk \in Seq(B)
    BY <1>6, JunkForm
  <2>3. <<>> \in Seq(B)
    OBVIOUS
  <2> QED BY <2>1, <2>2, <2>3
<1>8. /\ source' \in Seq(B) /\ Len(source') = Len(source) + Len(grown) /\ Len(grown) \in Nat
  BY <1>3, <1>7, ConcatProperties, LenProperties
<1>9. Setting'
  <2>1. at \in 0 .. Len(source')
    BY <1>5, <1>8
  <2> QED BY <1>1, <1>3, <1>6, <1>8, <2>1 DEF Setting
<1>10. Good(sent, source \o grown, began, at, r2, delivered, drained, call, failing)
  BY <1>1, <1>2, <1>4, <1>5, <1>7, GoodOnLonger
<1>11. Good(sent', source', began', at', r2, delivered', drained', call', failing')
  BY <1>3, <1>10, Zenon
<1>12. Reports(r2, result')
  <2>1. result'.op = "get_mut" /\ result'.eof = FALSE
    BY <1>3, ResultFields, Zenon
  <2>2. "get_mut" \notin {"read", "try_finish", "try_finish_frame"}
    OBVIOUS
  <2> QED BY <2>1, <2>2, Zenon DEF Reports
<1> QED BY <1>3, <1>9, <1>11, <1>12, Zenon DEF DecryptInv

(* into_inner_unchecked *)
LEMMA IntoInner ==
    ASSUME DecryptInv, into_inner_unchecked
    PROVE  DecryptInv'
<1>1. /\ decrypting' = None /\ call' = "idle" /\ sent' = sent /\ source' = source /\ at' = at
      /\ began' = began
  BY Zenon DEF into_inner_unchecked
<1>2. Setting'
  BY <1>1 DEF Setting, DecryptInv
<1> QED BY <1>1, <1>2, Zenon DEF DecryptInv

-----------------------------------------------------------------------------
(* A new reader. *)

(* read_header, whatever its budget: a context derived from what was read  *)
(* belongs to the message or to the other one, whose header was read.      *)
LEMMA HeaderRead ==
    ASSUME Setting, NEW parameters, NEW budget \in Nat, NEW h, h = read_header(source, at, budget)
    PROVE  /\ h.at \in at .. Len(source)
           /\ h.ok => \A c \in opened_context(key, aad, parameters, h.header) :
                 \E M, W, x : /\ Subject(sent, c, M, W, x) /\ h.at = at + HEADER_LENGTH
                              /\ Slice(source, at, HEADER_LENGTH) = header_bytes(x)
<1>1. PICK B : B = BytesOf(Items(sent)) \cup {junk[1]}
  OBVIOUS
<1>2. source \in Seq(B) /\ IsMessage(sent)
  BY <1>1 DEF Setting
<1>3. Len(source) \in Nat /\ at \in 0 .. Len(source) /\ at \in Nat /\ HEADER_LENGTH \in Nat \ {0}
  BY SettingForm, ParametersAssumption DEF Setting
<1>4. PICK g : g = read_fully(source, at, HEADER_LENGTH, budget)
  OBVIOUS
<1>5. /\ h.ok <=> g.ok /\ g.got = HEADER_LENGTH
      /\ h.at = at + g.got /\ h.header = header_in(Slice(source, at, g.got))
  <2>1. PICK e, a, x : /\ e = (g.ok /\ g.got = HEADER_LENGTH) /\ a = at + g.got
                       /\ x = header_in(Slice(source, at, g.got))
    OBVIOUS
  <2>2. h = [ok |-> e, at |-> a, header |-> x]
    BY <1>4, <2>1, Zenon DEF read_header
  <2>3. h.ok = e /\ h.at = a /\ h.header = x
    BY <2>2
  <2> QED BY <2>1, <2>3, Zenon
<1>6. g.got \in Nat /\ at + g.got <= Len(source)
  <2>1. budget \in Int /\ budget >= 0 /\ HEADER_LENGTH \in Nat
    BY <1>3
  <2> QED BY <1>3, <1>4, <2>1, ReadFullyResult
<1>7. h.at \in at .. Len(source)
  BY <1>3, <1>5, <1>6
<1>8. ASSUME h.ok, NEW c \in opened_context(key, aad, parameters, h.header)
      PROVE  \E M, W, x : /\ Subject(sent, c, M, W, x) /\ h.at = at + HEADER_LENGTH
                          /\ Slice(source, at, HEADER_LENGTH) = header_bytes(x)
  <2>1. g.got = HEADER_LENGTH /\ h.at = at + HEADER_LENGTH /\ at + HEADER_LENGTH <= Len(source)
    BY <1>5, <1>6, <1>8
  <2>2. PICK bytes : bytes = Slice(source, at, HEADER_LENGTH)
    OBVIOUS
  <2>3. bytes \in Seq(B)
    BY <1>2, <1>3, <2>1, <2>2, SliceOf
  <2>4. PICK x \in header_in(bytes) :
          accepts_header(key, aad, x.parameters, x) /\ c = Context(key, x.parameters, x.iv, aad)
    BY <1>5, <1>8, <2>1, <2>2 DEF opened_context
  <2>5. x \in Items(sent) /\ is_header(x) /\ bytes = header_bytes(x)
    BY <1>1, <1>2, <2>3, ItemsSized, HeaderFound
  <2>6. x \in {headers.ours} \cup ForgedHeaders
    BY <1>2, <2>5, ItemKinds DEF Items, NoForeignSegment, NoForeignHeader
  <2>7. \/ x = headers.ours /\ c = contexts.ours
        \/ x = headers.other /\ c = contexts.other
    BY <2>4, <2>6, AcceptedHeaders
  <2>8. \E M, W : Subject(sent, c, M, W, x)
    BY <2>7, Zenon DEF Subject
  <2> QED BY <2>1, <2>2, <2>5, <2>8
<1> QED BY <1>7, <1>8

(* from_decryptor: a reader at the first segment of a message whose header *)
(* was read is good.                                                       *)
LEMMA NewReaderIsGood ==
    ASSUME Setting, NEW c, NEW M, NEW W, NEW x, Subject(sent, c, M, W, x),
           NEW pos, pos = at + HEADER_LENGTH, pos <= Len(source),
           Slice(source, at, HEADER_LENGTH) = header_bytes(x), NEW fault
    PROVE  Good(sent, source, at, pos, from_decryptor(c), <<>>, FALSE, "idle", fault)
<1>1. IsMessage(sent) /\ Len(sent.segments) <= AEAD_MAX_SEGMENTS
  BY DEF Setting
<1>2. IsMessageOf(c, M)
  BY <1>1, SubjectForm
<1>3. IsWhole(W, x, M) /\ c.parameters = SegmentLength
  BY <1>1, SubjectForm
<1>4. Len(source) \in Nat /\ at \in Nat /\ HEADER_LENGTH \in Nat
  BY SettingForm, ParametersAssumption
<1>5. PICK keys, b, z : keys = KeyCache_new(c) /\ b = buffer_new(c.parameters) /\ z = 0
  OBVIOUS
<1>6. from_decryptor(c) = ReaderOf(c, Some(DecryptorAt(keys, z)), b, z, z, "Open")
  <2>1. Decryptor_new(c) = DecryptorAt(keys, z)
    BY <1>5, Zenon DEF Decryptor_new, DecryptorAt, counter_new
  <2> QED BY <1>5, <2>1, Zenon DEF from_decryptor, ReaderOf
<1>7. LabelledCache(keys, c)
  BY <1>5 DEF KeyCache_new, LabelledCache, derive, Some
<1>8. IsBuffer(b) /\ b.parameters = SegmentLength
  <2>1. b = Buffer(SegmentLength, "Empty", <<>>, None)
    BY <1>3, <1>5 DEF buffer_new, Buffer
  <2> QED BY <2>1, BufferFields
<1>9. Len(M.segments) \in Nat \ {0}
  BY <1>2, MessageNumbers
<1>10. Place(M, W, z, source, at, pos)
  <2>1. EndOf(M, W, z) = HEADER_LENGTH
    <3>1. z # Len(M.segments) /\ z + 1 = 1
      BY <1>5, <1>9
    <3>2. Offset(1) = HEADER_LENGTH
      <4>1. PICK p \in Nat, y \in Nat : p = SegmentLength /\ y = HEADER_LENGTH
        BY <1>2, <1>4, MessageNumbers
      <4>2. y + (1 - 1) * p = y
        OBVIOUS
      <4> QED BY <4>1, <4>2 DEF Offset
    <3> QED BY <3>1, <3>2 DEF EndOf
  <2>2. SameBytes(source, at, W, HEADER_LENGTH)
    <3>1. PICK B, C : source \in Seq(B) /\ W \in Seq(C)
      BY <1>3, SettingForm DEF IsWhole
    <3>2. Len(W) \in Nat /\ Len(W) >= HEADER_LENGTH /\ Slice(W, 0, HEADER_LENGTH) = header_bytes(x)
      BY <1>3 DEF IsWhole
    <3>3. SameBytes(source, at, W, z)
      <4>1. at + z <= Len(source) /\ z <= Len(W) /\ 1 .. z = {}
        BY <1>4, <1>5, <3>2
      <4> QED BY <4>1 DEF SameBytes
    <3>4. z + HEADER_LENGTH = HEADER_LENGTH /\ at + z = at /\ at + z + HEADER_LENGTH <= Len(source)
      BY <1>4, <1>5
    <3>5. Slice(source, at + z, HEADER_LENGTH) = Slice(W, z, HEADER_LENGTH)
      BY <1>5, <3>2, <3>4, Zenon
    <3>6. z \in Nat /\ z + HEADER_LENGTH <= Len(W)
      BY <1>5, <3>2, <3>4
    <3>7. SameBytes(source, at, W, z + HEADER_LENGTH)
      BY <1>4, <3>1, <3>3, <3>4, <3>5, <3>6, SameExtends
    <3> QED BY <3>4, <3>7, Zenon
  <2>3. z \in 0 .. Len(M.segments)
    BY <1>5, <1>9
  <2> QED BY <2>1, <2>2, <2>3, Zenon DEF Place
<1>11. Position(c, M, z, Some(DecryptorAt(keys, z)), "Open")
  <2>1. z < Len(M.segments)
    BY <1>5, <1>9
  <2> QED BY <1>7, <2>1, Zenon DEF Position
<1>12. Accounted(M, z, b, z, z, "Open", <<>>, FALSE, "idle")
  <2>1. ~(z < z)
    BY <1>5
  <2>2. Len(<<>>) = SoFar(M, z) - (z - z)
    <3>1. z # Len(M.segments)
      BY <1>5, <1>9
    <3>2. PICK p \in Nat : p = capacity
      BY <1>2, MessageNumbers
    <3>3. Len(<<>>) = 0 * p - (0 - 0)
      OBVIOUS
    <3> QED BY <1>5, <3>1, <3>2, <3>3 DEF SoFar
  <2> QED BY <2>1, <2>2, Zenon DEF Accounted
<1>13. Healthy(c, M, W, source, at, pos, Some(DecryptorAt(keys, z)), b, z, z, "Open", <<>>,
               FALSE, "idle")
  BY <1>10, <1>11, <1>12, Zenon DEF Healthy
<1>14. IsReader(from_decryptor(c), c, Some(DecryptorAt(keys, z)), b, z, z, "Open")
  <2>1. z \in Nat /\ z <= z
    BY <1>5
  <2> QED BY <1>6, <1>8, <2>1, Zenon DEF IsReader
<1>15. Returned(M, <<>>)
  <2>1. Len(<<>>) = 0 /\ 0 <= Len(M.bytes)
    BY <1>2, MessageNumbers
  <2>2. Slice(M.bytes, 0, 0) = <<>>
    BY EmptySlice
  <2> QED BY <2>1, <2>2 DEF Returned
<1>16. GoodOn(c, M, W, source, at, pos, from_decryptor(c), <<>>, FALSE, "idle", fault)
  BY <1>13, <1>14, <1>15, Zenon DEF GoodOn
<1> QED BY <1>16, Zenon DEF Good

(* new and new_with_parameters *)
LEMMA NewReader ==
    ASSUME DecryptInv, NEW parameters, NEW fault, NEW budget \in Nat, new(parameters, fault, budget)
    PROVE  DecryptInv'
<1>1. PICK h, ctx :
        /\ h = read_header(source, at, budget)
        /\ ctx = IF h.ok /\ fault = "none" THEN opened_context(key, aad, parameters, h.header)
                                           ELSE None
  OBVIOUS
<1>2. /\ decrypting = None /\ decrypting' = {from_decryptor(c) : c \in ctx}
      /\ at' = h.at /\ began' = at /\ delivered' = <<>> /\ drained' = FALSE
      /\ Results("new", ctx # None, FALSE)
      /\ sent' = sent /\ source' = source /\ call' = call
  BY <1>1, Zenon DEF new
<1>3. Setting
  BY DEF DecryptInv
<1>4. call = "idle"
  <2>1. \A r : None # Some(r)
    BY DEF None, Some
  <2> QED BY <1>2, <2>1, Zenon DEF DecryptInv
<1>5. /\ h.at \in at .. Len(source)
      /\ h.ok => \A c \in opened_context(key, aad, parameters, h.header) :
            \E M, W, x : /\ Subject(sent, c, M, W, x) /\ h.at = at + HEADER_LENGTH
                         /\ Slice(source, at, HEADER_LENGTH) = header_bytes(x)
  BY <1>1, <1>3, HeaderRead
<1>6. Setting'
  <2>1. Len(source) \in Nat /\ at \in Nat /\ at <= Len(source)
    BY <1>3, SettingForm
  <2>2. h.at \in 0 .. Len(source) /\ at \in 0 .. h.at
    BY <1>5, <2>1
  <2> QED BY <1>2, <1>3, <2>2 DEF Setting
<1>7. CASE ctx = {}
  <2>1. decrypting' = None
    BY <1>2, <1>7 DEF None
  <2> QED BY <1>2, <1>4, <1>6, <2>1, Zenon DEF DecryptInv
<1>8. CASE ctx # {}
  <2>1. PICK c : c \in ctx
    BY <1>8
  <2>2. h.ok /\ ctx = opened_context(key, aad, parameters, h.header)
    BY <1>1, <2>1 DEF None
  <2>3. PICK bytes : h.header = header_in(bytes)
    <3>1. PICK g : g = read_fully(source, at, HEADER_LENGTH, budget)
      OBVIOUS
    <3>2. PICK e, a, x : /\ e = (g.ok /\ g.got = HEADER_LENGTH) /\ a = at + g.got
                         /\ x = header_in(Slice(source, at, g.got))
      OBVIOUS
    <3>3. h = [ok |-> e, at |-> a, header |-> x]
      BY <1>1, <3>1, <3>2, Zenon DEF read_header
    <3>4. h.header = x
      BY <3>3
    <3> QED BY <3>2, <3>4
  <2>4. ctx = {c}
    <3>1. c \in opened_context(key, aad, parameters, header_in(bytes))
      BY <2>1, <2>2, <2>3, Zenon
    <3>2. opened_context(key, aad, parameters, header_in(bytes)) = Some(c)
      BY <3>1, OneContext
    <3> QED BY <2>2, <2>3, <3>2, Zenon DEF Some
  <2>5. PICK r2 : r2 = from_decryptor(c)
    OBVIOUS
  <2>6. decrypting' = Some(r2)
    BY <1>2, <2>4, <2>5 DEF Some
  <2>7. PICK M, W, x : /\ Subject(sent, c, M, W, x) /\ h.at = at + HEADER_LENGTH
                       /\ Slice(source, at, HEADER_LENGTH) = header_bytes(x)
    BY <1>5, <2>1, <2>2
  <2>8. h.at <= Len(source)
    BY <1>3, <1>5, SettingForm
  <2>9. Good(sent, source, at, h.at, r2, <<>>, FALSE, "idle", failing')
    BY <1>3, <2>5, <2>7, <2>8, NewReaderIsGood, Zenon
  <2>10. Good(sent', source', began', at', r2, delivered', drained', call', failing')
    BY <1>2, <1>4, <2>9, Zenon
  <2>11. Reports(r2, result')
    <3>1. result'.op = "new" /\ result'.eof = FALSE
      BY <1>2, ResultFields, Zenon
    <3>2. "new" \notin {"read", "try_finish", "try_finish_frame"}
      OBVIOUS
    <3> QED BY <3>1, <3>2, Zenon DEF Reports
  <2> QED BY <1>6, <2>6, <2>10, <2>11, Zenon DEF DecryptInv
<1> QED BY <1>7, <1>8

-----------------------------------------------------------------------------
(* The invariant holds at first and is kept. *)

(* Init *)
LEMMA InitialDecrypt ==
    ASSUME Init
    PROVE  DecryptInv
<1>1. IsMessage(sent) /\ Len(sent.segments) <= AEAD_MAX_SEGMENTS
  BY MessagesForm, DecryptReaderAssumption DEF Init
<1>2. source \in Seq(BytesOf(Items(sent)) \cup {junk[1]})
  BY <1>1, HeldSources DEF Init, GoodSource
<1>3. Len(source) \in Nat
  BY <1>2, LenProperties
<1>4. Setting
  <2>1. at = 0 /\ began = 0
    BY DEF Init
  <2>2. at \in 0 .. Len(source) /\ began \in 0 .. at
    BY <1>3, <2>1
  <2> QED BY <1>1, <1>2, <2>2 DEF Setting
<1> QED BY <1>4, Zenon DEF Init, DecryptInv

(* What may go wrong in a call has a place. *)
LEMMA TroublesForm ==
    ASSUME NEW trouble \in Troubles
    PROVE  trouble.budget \in Nat
<1>1. SegmentLength \in Nat
  BY CiphertextsAssumption, SegmentLengths
<1>2. CASE trouble \in [fault : {"none"}, budget : 0 .. SegmentLength]
  BY <1>1, <1>2
<1>3. CASE trouble \in [fault : {"kdf", "aead"}, budget : {SegmentLength}]
  BY <1>1, <1>3
<1> QED BY <1>2, <1>3 DEF Troubles

(* Next, and stuttering. *)
LEMMA KeepsDecrypt ==
    ASSUME DecryptInv, [Next]_decryptVars
    PROVE  DecryptInv'
<1>1. ASSUME NEW parameters, NEW trouble \in Troubles,
             new(parameters, trouble.fault, trouble.budget)
      PROVE  DecryptInv'
  <2>1. PICK fault, budget : fault = trouble.fault /\ budget = trouble.budget /\ budget \in Nat
    BY TroublesForm
  <2>2. new(parameters, fault, budget)
    BY <1>1, <2>1, Zenon
  <2> QED BY <2>1, <2>2, NewReader
<1>2. ASSUME call = "idle", NEW r \in decrypting, NEW n \in 0 .. MaxRead, NEW trouble \in Troubles,
             read(r, n, trouble.fault, trouble.budget)
      PROVE  DecryptInv'
  <2>1. PICK fault, budget : fault = trouble.fault /\ budget = trouble.budget /\ budget \in Nat
    BY TroublesForm
  <2>2. n \in Nat
    BY DecryptReaderAssumption
  <2>3. read(r, n, fault, budget)
    BY <1>2, <2>1, Zenon
  <2>4. CASE read_refused(r, n)
    BY <2>2, <2>4, RefusedRead
  <2>5. CASE read_at_end(r, n)
    BY <2>2, <2>5, ReadAtEnd
  <2>6. CASE read_direct(r, n, fault, budget)
    BY <1>2, <2>1, <2>2, <2>6, DirectRead
  <2>7. CASE read_loading(r, n, fault, budget)
    BY <1>2, <2>1, <2>2, <2>7, LoadingRead
  <2>8. CASE read_loaded(r, n)
    BY <2>2, <2>8, LoadedRead
  <2> QED BY <2>3, <2>4, <2>5, <2>6, <2>7, <2>8, Zenon DEF read
<1>3. ASSUME call = "idle", NEW r \in decrypting,
             NEW op \in {"try_finish", "try_finish_frame", "finish", "finish_frame"},
             finish_again(r, op) \/ finish_begin(r, op)
      PROVE  DecryptInv'
  <2>1. op # "idle"
    OBVIOUS
  <2> QED BY <1>3, <2>1, FinishAgain, FinishBegins
<1>4. ASSUME NEW r \in decrypting, NEW grown \in {<<>>, junk}, get_mut(r, grown)
      PROVE  DecryptInv'
  BY <1>4, GetMut
<1>5. ASSUME NEW trouble \in Troubles, finishing(trouble.fault, trouble.budget)
      PROVE  DecryptInv'
  <2>1. PICK fault, budget : fault = trouble.fault /\ budget = trouble.budget /\ budget \in Nat
    BY TroublesForm
  <2>2. finishing(fault, budget)
    BY <1>5, <2>1, Zenon
  <2>3. PICK r \in decrypting : \/ drain_segment(r, fault, budget)
                                \/ drain_returns(r)
                                \/ check_trailing(r, budget)
    BY <2>2, Zenon DEF finishing
  <2>4. call # "idle"
    BY <2>2, Zenon DEF finishing
  <2>5. CASE drain_segment(r, fault, budget)
    BY <2>1, <2>4, <2>5, DrainStep
  <2>6. CASE drain_returns(r)
    BY <2>6, DrainReturns
  <2>7. CASE check_trailing(r, budget)
    BY <2>1, <2>4, <2>7, TrailingChecked
  <2> QED BY <2>3, <2>5, <2>6, <2>7
<1>6. CASE into_inner_unchecked
  BY <1>6, IntoInner
<1>7. CASE UNCHANGED decryptVars
  <2>1. /\ sent' = sent /\ source' = source /\ at' = at /\ began' = began
        /\ decrypting' = decrypting /\ delivered' = delivered /\ drained' = drained
        /\ call' = call /\ result' = result /\ failing' = failing
    BY <1>7 DEF decryptVars
  <2>2. Setting'
    BY <2>1 DEF DecryptInv, Setting
  <2>3. CASE decrypting = None /\ call = "idle"
    BY <2>1, <2>2, <2>3, Zenon DEF DecryptInv
  <2>4. CASE \E r : /\ decrypting = Some(r) /\ Reports(r, result)
                    /\ Good(sent, source, began, at, r, delivered, drained, call, failing)
    <3>1. PICK r : /\ decrypting = Some(r) /\ Reports(r, result)
                   /\ Good(sent, source, began, at, r, delivered, drained, call, failing)
      BY <2>4, Zenon
    <3>2. /\ decrypting' = Some(r) /\ Reports(r, result')
          /\ Good(sent', source', began', at', r, delivered', drained', call', failing')
      BY <2>1, <3>1, Zenon
    <3> QED BY <2>2, <3>2, Zenon DEF DecryptInv
  <2> QED BY <2>3, <2>4, Zenon DEF DecryptInv
<1> QED BY <1>1, <1>2, <1>3, <1>4, <1>5, <1>6, <1>7, Zenon DEF Next

(* The invariant, whatever the source is made of, whatever fails and       *)
(* whatever the caller mixes: a DecryptReader that is not poisoned has     *)
(* consumed whole segments of one unaltered message and nothing else,      *)
(* stands behind them in the wrapped reader, and has returned or discarded *)
(* exactly their plaintext; one that is poisoned is so for a cause         *)
(* (src/io.rs).                                                            *)
THEOREM DecryptInvariant == Spec => []DecryptInv
<1>1. Init => DecryptInv
  BY InitialDecrypt
<1>2. DecryptInv /\ [Next]_decryptVars => DecryptInv'
  BY KeepsDecrypt
<1> QED BY <1>1, <1>2, PTL DEF Spec

-----------------------------------------------------------------------------
(* The properties that the invariant implies. *)

(* The reader of a state, with its message. *)
ReaderIs(r, c, M, W, h, d, b, n, a, s) ==
    /\ r.context = c /\ r.status = s /\ r.consumed = n /\ r.available = a
    /\ n \in Nat /\ a \in Nat /\ IsMessageOf(c, M) /\ IsWhole(W, h, M)
    /\ message_of(c, sent) = M /\ bytes_of_message(c, sent) = W
    /\ Returned(M, delivered)
    /\ \/ Healthy(c, M, W, source, began, at, d, b, n, a, s, delivered, drained, call)
       \/ Broken(W, source, began, at, n, a, s, failing)

(* There is such a message. *)
LEMMA InvReader ==
    ASSUME DecryptInv, NEW r \in decrypting
    PROVE  \E c, M, W, h, d, b, n, a, s : ReaderIs(r, c, M, W, h, d, b, n, a, s)
<1>1. Setting /\ Good(sent, source, began, at, r, delivered, drained, call, failing)
  BY TheReader
<1>2. PICK c, M, W, h :
        /\ Subject(sent, c, M, W, h)
        /\ GoodOn(c, M, W, source, began, at, r, delivered, drained, call, failing)
  BY <1>1, Zenon DEF Good
<1>3. PICK d, b, n, a, s :
        /\ Returned(M, delivered) /\ IsReader(r, c, d, b, n, a, s)
        /\ \/ Healthy(c, M, W, source, began, at, d, b, n, a, s, delivered, drained, call)
           \/ Broken(W, source, began, at, n, a, s, failing)
  BY <1>2, Zenon DEF GoodOn
<1>4. r = ReaderOf(c, d, b, n, a, s) /\ n \in Nat /\ a \in Nat
  BY <1>3, Zenon DEF IsReader
<1>5. r.context = c /\ r.status = s /\ r.consumed = n /\ r.available = a
  BY <1>4, ReaderFields
<1>6. IsMessageOf(c, M)
  BY <1>1, <1>2, SubjectForm DEF Setting
<1>7. IsWhole(W, h, M) /\ message_of(c, sent) = M /\ bytes_of_message(c, sent) = W
  BY <1>1, <1>2, SubjectForm DEF Setting
<1>8. ReaderIs(r, c, M, W, h, d, b, n, a, s)
  BY <1>3, <1>4, <1>5, <1>6, <1>7, Zenon DEF ReaderIs
<1> QED BY <1>8, Zenon

(* What was returned is part of the invariant. *)
LEMMA InvDelivers == DecryptInv => DeliversAPrefix
<1> SUFFICES ASSUME DecryptInv, NEW r \in decrypting
             PROVE  LET bytes == message_of(r.context, sent).bytes
                    IN  Len(delivered) <= Len(bytes) /\ delivered = Slice(bytes, 0, Len(delivered))
  BY DEF DeliversAPrefix
<1>1. PICK c, M, W, h, d, b, n, a, s : ReaderIs(r, c, M, W, h, d, b, n, a, s)
  BY InvReader, Zenon
<1>2. message_of(r.context, sent) = M /\ Returned(M, delivered)
  BY <1>1, Zenon DEF ReaderIs
<1> QED BY <1>2 DEF Returned

(* A whole message in the source, in terms of its bytes. *)
LEMMA InvWhole ==
    ASSUME DecryptInv, NEW c, NEW M, NEW W, NEW h, IsWhole(W, h, M),
           bytes_of_message(c, sent) = W
    PROVE  holds_whole(source, began, c, sent) <=> SameBytes(source, began, W, Len(W))
<1>1. PICK B, C : source \in Seq(B) /\ W \in Seq(C)
  BY SettingForm DEF DecryptInv, IsWhole
<1>2. began \in 0 .. Len(source)
  BY SettingForm DEF DecryptInv
<1> QED BY <1>1, <1>2, WholeIsSame

(* A complete reader stands behind a whole message. *)
LEMMA InvComplete == DecryptInv => CompleteIsWhole
<1> SUFFICES ASSUME DecryptInv, NEW r \in decrypting, frame_complete(r)
             PROVE  /\ holds_whole(source, began, r.context, sent)
                    /\ at = began + Len(bytes_of_message(r.context, sent))
                    /\ r.status = "StreamComplete" => at = Len(source)
  BY DEF CompleteIsWhole
<1> PICK c, M, W, h, d, b, n, a, s : ReaderIs(r, c, M, W, h, d, b, n, a, s)
  BY InvReader, Zenon
<1>1. /\ r.context = c /\ r.status = s /\ IsMessageOf(c, M) /\ IsWhole(W, h, M)
      /\ bytes_of_message(c, sent) = W
      /\ \/ Healthy(c, M, W, source, began, at, d, b, n, a, s, delivered, drained, call)
         \/ Broken(W, source, began, at, n, a, s, failing)
  BY Zenon DEF ReaderIs
<1>2. s = "FrameComplete" \/ s = "StreamComplete"
  BY <1>1 DEF frame_complete
<1>3. Healthy(c, M, W, source, began, at, d, b, n, a, s, delivered, drained, call)
  BY <1>1, <1>2 DEF Broken
<1>4. Setting
  BY DEF DecryptInv
<1>5. /\ at = began + Len(W) /\ SameBytes(source, began, W, Len(W))
      /\ s = "StreamComplete" => at = Len(source)
  BY <1>1, <1>2, <1>3, <1>4, CompleteReader
<1>6. holds_whole(source, began, c, sent)
  BY <1>1, <1>5, InvWhole
<1> QED BY <1>1, <1>5, <1>6

(* A reader that reports its end has returned everything. *)
LEMMA InvHonest == DecryptInv => EndIsHonest
<1> SUFFICES ASSUME DecryptInv, NEW r \in decrypting, is_finished(r) \/ result.eof
             PROVE  /\ frame_complete(r)
                    /\ drained \/ delivered = message_of(r.context, sent).bytes
  BY DEF EndIsHonest
<1>1. frame_complete(r) /\ all_consumed(r)
  BY TheReader, Zenon DEF Reports, is_finished
<1> PICK c, M, W, h, d, b, n, a, s : ReaderIs(r, c, M, W, h, d, b, n, a, s)
  BY InvReader, Zenon
<1>2. /\ r.context = c /\ r.status = s /\ r.consumed = n /\ r.available = a
      /\ n \in Nat /\ a \in Nat /\ IsMessageOf(c, M)
      /\ message_of(c, sent) = M /\ Returned(M, delivered)
      /\ \/ Healthy(c, M, W, source, began, at, d, b, n, a, s, delivered, drained, call)
         \/ Broken(W, source, began, at, n, a, s, failing)
  BY Zenon DEF ReaderIs
<1>3. s = "FrameComplete" \/ s = "StreamComplete"
  BY <1>1, <1>2 DEF frame_complete
<1>4. Healthy(c, M, W, source, began, at, d, b, n, a, s, delivered, drained, call)
  BY <1>2, <1>3 DEF Broken
<1>5. Accounted(M, Len(M.segments), b, n, a, s, delivered, drained, call)
  BY <1>2, <1>3, <1>4, CompleteReader DEF DecryptInv
<1>6. ASSUME ~drained PROVE delivered = M.bytes
  <2>1. n = a
    BY <1>1, <1>2 DEF all_consumed
  <2>2. M.bytes \in Seq(Nat) /\ Len(M.bytes) \in Nat
    BY <1>2, MessageNumbers
  <2>3. Len(delivered) = SoFar(M, Len(M.segments)) - (a - n)
    BY <1>5, <1>6, Zenon DEF Accounted
  <2>4. Len(delivered) = Len(M.bytes)
    BY <1>2, <2>1, <2>2, <2>3 DEF SoFar
  <2>5. delivered = SubSeq(M.bytes, 1, Len(M.bytes))
    BY <1>2, <2>2, <2>4 DEF Returned, Slice
  <2> QED BY <2>2, <2>5
<1> QED BY <1>1, <1>2, <1>6

(* A poisoned reader has a cause. *)
LEMMA InvCause == DecryptInv => RefusesOnlyForCause
<1> SUFFICES ASSUME DecryptInv, NEW r \in decrypting, r.status = "Failed", ~failing,
                    holds_whole(source, began, r.context, sent)
             PROVE  /\ Len(source) > began + Len(bytes_of_message(r.context, sent))
                    /\ at = began + Len(bytes_of_message(r.context, sent)) + 1
  BY DEF RefusesOnlyForCause
<1> PICK c, M, W, h, d, b, n, a, s : ReaderIs(r, c, M, W, h, d, b, n, a, s)
  BY InvReader, Zenon
<1>1. /\ r.context = c /\ r.status = s /\ IsMessageOf(c, M) /\ IsWhole(W, h, M)
      /\ bytes_of_message(c, sent) = W
      /\ \/ Healthy(c, M, W, source, began, at, d, b, n, a, s, delivered, drained, call)
         \/ Broken(W, source, began, at, n, a, s, failing)
  BY Zenon DEF ReaderIs
<1>2. s = "Failed"
  BY <1>1
<1>3. ~Healthy(c, M, W, source, began, at, d, b, n, a, s, delivered, drained, call)
  BY <1>2 DEF Healthy, Position
<1>4. Broken(W, source, began, at, n, a, s, failing)
  BY <1>1, <1>3
<1>5. SameBytes(source, began, W, Len(W))
  BY <1>1, InvWhole
<1>6. began + Len(W) < Len(source) /\ at = began + Len(W) + 1
  BY <1>4, <1>5 DEF Broken
<1>7. Len(source) \in Nat /\ began \in Nat /\ Len(W) \in Nat
  BY <1>1, SettingForm DEF DecryptInv, IsWhole
<1> QED BY <1>1, <1>6, <1>7

-----------------------------------------------------------------------------
(* A poisoned reader stays poisoned. *)

(* Nothing is read or returned, and a reader that is left is poisoned. *)
StaysFailed ==
    at' = at /\ delivered' = delivered /\ \A r2 \in decrypting' : r2.status = "Failed"

LEMMA FailedReads ==
    ASSUME DecryptInv, NEW r \in decrypting, r.status = "Failed", NEW n, NEW fault, NEW budget,
           read(r, n, fault, budget)
    PROVE  StaysFailed
<1>1. ~reads(r, n)
  BY DEF reads
<1>2. read_refused(r, n)
  BY <1>1, Zenon DEF read, read_at_end, read_direct, read_loading, read_loaded
<1>3. PICK ok, ended : ok = (n = 0) /\ ended = Opened(r, at, ok, <<>>)
  OBVIOUS
<1>4. Gave(ended, n, FALSE)
  BY <1>2, <1>3, Zenon DEF read_refused
<1>5. decrypting' = Some(r) /\ at' = at /\ delivered' = delivered \o <<>>
  BY <1>3, <1>4, GaveForm, Zenon
<1>6. PICK c, M, W, h, d, b, i, a, s : ReaderIs(r, c, M, W, h, d, b, i, a, s)
  BY InvReader, Zenon
<1>7. delivered \o <<>> = delivered
  <2>1. IsMessageOf(c, M) /\ Returned(M, delivered)
    BY <1>6, Zenon DEF ReaderIs
  <2> QED BY <2>1, NothingMore
<1> QED BY <1>5, <1>7 DEF StaysFailed, Some

LEMMA FailedFinishes ==
    ASSUME DecryptInv, NEW r \in decrypting, r.status = "Failed", NEW op,
           finish_again(r, op) \/ finish_begin(r, op)
    PROVE  StaysFailed
<1>1. ~finish_again(r, op)
  BY DEF finish_again
<1>2. /\ decrypting' = Some([r EXCEPT !.consumed = r.available])
      /\ at' = at /\ delivered' = delivered
  BY <1>1, Zenon DEF finish_begin
<1>3. PICK c, d, b, n, a, s : r = ReaderOf(c, d, b, n, a, s)
  <2>1. Good(sent, source, began, at, r, delivered, drained, call, failing)
    BY TheReader, Zenon
  <2>2. PICK c, M, W, h :
          GoodOn(c, M, W, source, began, at, r, delivered, drained, call, failing)
    BY <2>1, Zenon DEF Good
  <2>3. \E d, b, n, a, s : IsReader(r, c, d, b, n, a, s)
    BY <2>2, Zenon DEF GoodOn
  <2> QED BY <2>3, Zenon DEF IsReader
<1>4. [r EXCEPT !.consumed = r.available].status = "Failed"
  BY <1>3 DEF ReaderOf
<1> QED BY <1>2, <1>4 DEF StaysFailed, Some

LEMMA FailedSteps ==
    ASSUME DecryptInv, NEW r \in decrypting, r.status = "Failed", Next
    PROVE  StaysFailed
<1>1. decrypting = Some(r)
  BY TheReader
<1>2. \A q \in decrypting : q = r
  BY <1>1 DEF Some
<1>3. ASSUME NEW parameters, NEW fault, NEW budget, new(parameters, fault, budget)
      PROVE  FALSE
  <2>1. decrypting = None
    BY <1>3, Zenon DEF new
  <2> QED BY <2>1 DEF None
<1>4. ASSUME NEW n, NEW fault, NEW budget, read(r, n, fault, budget)
      PROVE  StaysFailed
  BY <1>4, FailedReads
<1>5. ASSUME NEW op, finish_again(r, op) \/ finish_begin(r, op)
      PROVE  StaysFailed
  BY <1>5, FailedFinishes
<1>6. ASSUME NEW grown, get_mut(r, grown)
      PROVE  StaysFailed
  <2>1. decrypting' = Some(after_get_mut(r)) /\ at' = at /\ delivered' = delivered
    BY <1>6, Zenon DEF get_mut
  <2>2. after_get_mut(r) = r
    BY DEF after_get_mut
  <2> QED BY <2>1, <2>2 DEF StaysFailed, Some
<1>7. ASSUME NEW fault, NEW budget, finishing(fault, budget)
      PROVE  StaysFailed
  <2>1. drain_segment(r, fault, budget) \/ drain_returns(r) \/ check_trailing(r, budget)
    BY <1>2, <1>7, Zenon DEF finishing
  <2>2. ~drain_segment(r, fault, budget)
    BY DEF drain_segment
  <2>3. ~check_trailing(r, budget)
    <3>1. ~frame_complete(r)
      BY DEF frame_complete
    <3> QED BY <3>1, Zenon DEF check_trailing
  <2>4. /\ decrypting' = IF consuming(call) THEN None ELSE Some(r)
        /\ at' = at /\ delivered' = delivered
    BY <2>1, <2>2, <2>3, Zenon DEF drain_returns, Finishes
  <2> QED BY <2>4 DEF StaysFailed, Some, None
<1>8. ASSUME into_inner_unchecked
      PROVE  StaysFailed
  BY <1>8 DEF into_inner_unchecked, StaysFailed, None
<1> QED BY <1>2, <1>3, <1>4, <1>5, <1>6, <1>7, <1>8, Zenon DEF Next

(* A reader that reports an error of read, try_finish or try_finish_frame  *)
(* is a poisoned one.                                                      *)
LEMMA PoisonedSteps ==
    ASSUME DecryptInv, Next, NEW r \in decrypting,
           r.status = "Failed" \/ (result.op \in {"read", "try_finish", "try_finish_frame"} /\ ~result.ok)
    PROVE  /\ at' = at /\ delivered' = delivered
           /\ \A r2 \in decrypting' : ~frame_complete(r2)
<1>1. r.status = "Failed"
  BY TheReader, Zenon DEF Reports
<1>2. StaysFailed
  BY <1>1, FailedSteps
<1> QED BY <1>2 DEF StaysFailed, frame_complete

-----------------------------------------------------------------------------
(* However the source was cut off, altered or spliced, and wherever the    *)
(* wrapped reader fails, read returns the plaintext of one message from    *)
(* its first byte on, without gap, repetition or a foreign byte.           *)
THEOREM ReadDeliversAPrefix == Spec => []DeliversAPrefix
BY DecryptInvariant, InvDelivers, PTL

(* finish_if_final marks a frame complete only after a whole unaltered     *)
(* message, with the wrapped reader just after it, and try_finish a stream *)
(* only where the source ends.                                             *)
THEOREM CompletionIsEarned == Spec => []CompleteIsWhole
BY DecryptInvariant, InvComplete, PTL

(* No silent truncation: Ok(0) and is_finished report an end only when the *)
(* whole message has been returned or been discarded by a finishing call.  *)
THEOREM NoSilentTruncation == Spec => []EndIsHonest
BY DecryptInvariant, InvHonest, PTL

(* load_segment, read_segment_direct and try_finish poison the reader of a *)
(* whole message for an error of the wrapped reader or the backend, or for *)
(* a byte after the message.                                               *)
THEOREM WholeMessagesAreRead == Spec => []RefusesOnlyForCause
BY DecryptInvariant, InvCause, PTL

(* Once read or a finishing call has returned an error, no call returns    *)
(* bytes, touches the wrapped reader or completes the message.             *)
THEOREM FailureIsFinal == Spec => PoisonedForGood
<1>1. DecryptInv /\ [Next]_decryptVars =>
        [\A r \in decrypting :
            r.status = "Failed" \/ (result.op \in {"read", "try_finish", "try_finish_frame"} /\ ~result.ok)
              => /\ at' = at /\ delivered' = delivered
                 /\ \A r2 \in decrypting' : ~frame_complete(r2)]_decryptVars
  BY PoisonedSteps, Zenon
<1> QED BY <1>1, DecryptInvariant, PTL DEF Spec, PoisonedForGood

-----------------------------------------------------------------------------
(* The one-shot functions: the inductive invariant. *)

HasLayout == plaintext_layout(SegmentLength, Len(message)).ok

Count == SegmentCountFor(SegmentLength, Len(message))

(* The i-th chunk of the message, and a segment that seals it. *)
Chunk(i) == Slice(message, (i - 1) * capacity, least(capacity, Len(message) - (i - 1) * capacity))

ChunkKind(i, n) == IF i = n THEN "Final" ELSE "NonFinal"

SealOf(nonce, k, kind, bytes) ==
    seal(derive_segment_key(contexts.ours, masked_position(k)), nonce, k, kind, plaintext_of(bytes))

SealsChunk(s, i, n) == \E nonce : s = SealOf(nonce, i - 1, ChunkKind(i, n), Chunk(i))

(* The segments sealed so far are those of the first chunks. *)
SealedSoFar ==
    /\ IsSeq(sealed) /\ Len(sealed) <= Count
    /\ \A i \in 1 .. Len(sealed) : SealsChunk(sealed[i], i, Count)

KeyedEncryptor(e, k) ==
    \E keys, nonces : /\ e = EncryptorAt([keys |-> keys, nonces |-> nonces], k)
                      /\ LabelledCache(keys, contexts.ours)

(* encrypt_body has an encryptor at the next position, or has sealed all. *)
EncryptorLeft ==
    \/ Len(sealed) = Count /\ encryptor = None
    \/ Len(sealed) < Count /\ \E e : encryptor = Some(e) /\ KeyedEncryptor(e, Len(sealed))

Encrypting ==
    /\ HasLayout /\ layout = Some(plaintext_layout(SegmentLength, Len(message)).value)
    /\ SealedSoFar /\ EncryptorLeft

WholeMessage == HasLayout /\ SealedSoFar /\ Len(sealed) = Count

(* Until decrypt is called. *)
Encryption ==
    /\ body = 0 /\ decryptor = None
    /\ \/ phase = "start" /\ sealed = <<>>
       \/ phase = "encrypting" /\ Encrypting
       \/ phase = "encrypted" /\ WholeMessage
       \/ phase = "done" /\ ~succeeded /\ (faulted \/ ~HasLayout)

(* decrypt has read k segments of the message, and so all bytes that are   *)
(* read are the message's; after the last one there are no others.         *)
ReadsOurs(m, src, from, dec, out) ==
    \E k, keys, d :
        /\ k \in 0 .. Len(m.segments) /\ LabelledCache(keys, contexts.ours)
        /\ dec = Some([context |-> contexts.ours, decryptor |-> d])
        /\ from = EndOf(m, intact(m), k) /\ SameBytes(src, 0, intact(m), from)
        /\ out = Slice(m.bytes, 0, SoFar(m, k))
        /\ \/ k < Len(m.segments) /\ d = DecryptorAt(keys, k)
           \/ k = Len(m.segments) /\ d = ClosedAt(keys, k - 1) /\ from = Len(src)

(* The header was that of the other message: nothing that is left opens.   *)
ReadsOther(m, src, from, dec, out) ==
    \E keys :
        /\ LabelledCache(keys, contexts.other)
        /\ dec = Some([context |-> contexts.other, decryptor |-> DecryptorAt(keys, 0)])
        /\ from = HEADER_LENGTH /\ HEADER_LENGTH <= Len(src) /\ out = <<>>
        /\ src \in Seq(BytesOf(NoForeignSegment(m)) \cup {junk[1]}) /\ src # intact(m)

Decryption ==
    /\ phase = "decrypting" /\ WholeMessage
    /\ given \in Seq(BytesOf(Items(encrypted)) \cup {junk[1]})
    /\ \/ ReadsOurs(encrypted, given, body, decryptor, plaintext)
       \/ ReadsOther(encrypted, given, body, decryptor, plaintext)

Decrypted ==
    /\ phase = "done" /\ body > 0
    /\ succeeded => given = intact(encrypted) /\ plaintext = message
    /\ ~succeeded /\ ~faulted => given # intact(encrypted)
    /\ decryptor # None => Len(plaintext) <= Len(given) - HEADER_LENGTH

OneShotInv == message \in Seq(Nat) /\ (Encryption \/ Decryption \/ Decrypted)

-----------------------------------------------------------------------------
(* encrypt. *)

(* The numbers of the layout. *)
LEMMA OneShotNumbers ==
    ASSUME message \in Seq(Nat)
    PROVE  /\ SegmentLength \in VALID_SEGMENT_LENGTHS /\ SegmentLength \in Nat
           /\ capacity = plaintext_segment_length(SegmentLength)
           /\ capacity \in Nat \ {0} /\ SegmentLength = SEGMENT_OVERHEAD + capacity
           /\ SEGMENT_OVERHEAD \in Nat \ {0} /\ HEADER_LENGTH \in Nat \ {0}
           /\ Len(message) \in Nat /\ Count \in Nat \ {0}
           /\ (Count - 1) * capacity <= Len(message) /\ Len(message) <= Count * capacity
           /\ HasLayout => Count <= AEAD_MAX_SEGMENTS
           /\ AEAD_MAX_SEGMENTS \in Nat
<1>1. SegmentLength \in VALID_SEGMENT_LENGTHS
  BY CiphertextsAssumption
<1>2. /\ SegmentLength \in Nat /\ capacity \in Nat \ {0}
      /\ SegmentLength = SEGMENT_OVERHEAD + capacity /\ SEGMENT_OVERHEAD \in Nat \ {0}
  BY <1>1, SegmentLengths DEF capacity
<1>3. Len(message) \in Nat
  OBVIOUS
<1>4. /\ Count \in Nat \ {0}
      /\ (Count - 1) * capacity <= Len(message) /\ Len(message) <= Count * capacity
  BY <1>1, <1>3, SegmentCountBounds DEF Count, capacity
<1>5. HasLayout => Count <= AEAD_MAX_SEGMENTS
  BY <1>1, <1>3, PlaintextLayoutForm DEF HasLayout, Count
<1>6. AEAD_MAX_SEGMENTS \in Nat /\ HEADER_LENGTH \in Nat \ {0}
  BY ParametersAssumption
<1> QED BY <1>1, <1>2, <1>3, <1>4, <1>5, <1>6 DEF capacity

(* What encrypt_body finds in the layout for a position. *)
ChunkAt(s, k) ==
    /\ s.kind = ChunkKind(k + 1, Count)
    /\ Slice(message, chunk_start(s), s.plaintext_length) = Chunk(k + 1)
    /\ is_payload_length(SegmentLength, Len(Chunk(k + 1)), s.kind)

LEMMA ChunkForm ==
    ASSUME message \in Seq(Nat), HasLayout, NEW k \in Nat, k < Count,
           NEW y, y = plaintext_layout(SegmentLength, Len(message)).value
    PROVE  \E s : segment_for_position(y, k) = Some(s) /\ ChunkAt(s, k)
<1>1. /\ SegmentLength \in VALID_SEGMENT_LENGTHS /\ Len(message) \in Nat
      /\ Count \in Nat \ {0} /\ capacity \in Nat \ {0}
      /\ capacity = plaintext_segment_length(SegmentLength)
      /\ (Count - 1) * capacity <= Len(message) /\ Len(message) <= Count * capacity
  BY OneShotNumbers
<1>2. GoodLayout(y) /\ y = LayoutRecord(SegmentLength, Len(message),
                                        CiphertextLengthFor(SegmentLength, Len(message)), Count)
  BY <1>1, PlaintextLayoutIsGood DEF HasLayout, Count
<1>3. y.parameters = SegmentLength /\ y.plaintext_length = Len(message) /\ y.segment_count = Count
  BY <1>2, LayoutFields
<1>4. k \in 0 .. y.segment_count - 1
  BY <1>1, <1>3
<1>5. PICK s : s = SegmentAt(y, k) /\ segment_for_position(y, k) = Some(s)
  BY <1>2, <1>4, SegmentForPosition
<1>6. PICK n : n = PayloadAt(y, k)
  OBVIOUS
<1>7. s.kind = ChunkKind(k + 1, Count) /\ s.plaintext_offset = k * capacity /\ s.plaintext_length = n
  BY <1>1, <1>3, <1>5, <1>6 DEF SegmentAt, KindAt, ChunkKind
<1>8. /\ n \in 0 .. capacity /\ (k + 1 # Count => n = capacity)
      /\ k + 1 = Count => k * capacity + n = Len(message)
      /\ k * capacity \in Nat /\ k * capacity <= Len(message)
  BY <1>1, <1>2, <1>3, <1>4, <1>6, SegmentBounds
<1>9. k + 1 # Count => k * capacity + capacity <= Len(message)
  <2>1. SUFFICES ASSUME k + 1 # Count PROVE k * capacity + capacity <= Len(message)
    OBVIOUS
  <2>2. PICK j \in Nat : Count - 1 = (k + 1) + j
    <3>1. Count - 1 - (k + 1) \in Nat
      BY <1>1, <2>1
    <3>2. Count - 1 = (k + 1) + (Count - 1 - (k + 1))
      BY <1>1
    <3> QED BY <3>1, <3>2
  <2>3. (Count - 1) * capacity = k * capacity + capacity + j * capacity
    BY <1>1, <2>2
  <2>4. PICK kc \in Nat, jc \in Nat, c \in Nat : kc = k * capacity /\ jc = j * capacity /\ c = capacity
    BY <1>1, SMTT(30)
  <2>5. kc + c + jc <= Len(message)
    BY <1>1, <2>3, <2>4
  <2>6. kc + c <= Len(message)
    BY <1>1, <2>5
  <2> QED BY <2>4, <2>6
<1>10. n = least(capacity, Len(message) - k * capacity) /\ k * capacity + n <= Len(message)
  <2>1. PICK kc \in Nat : kc = k * capacity
    BY <1>8
  <2>2. CASE k + 1 # Count
    <3>1. n = capacity /\ kc + capacity <= Len(message)
      BY <1>8, <1>9, <2>1, <2>2
    <3>2. least(capacity, Len(message) - kc) = capacity
      <4>1. PICK c \in Nat, l \in Nat : c = capacity /\ l = Len(message)
        BY <1>1
      <4>2. kc + c <= l
        BY <3>1, <4>1
      <4>3. c < l - kc \/ c = l - kc
        BY <4>2
      <4> QED BY <4>1, <4>3 DEF least
    <3> QED BY <2>1, <3>1, <3>2
  <2>3. CASE k + 1 = Count
    <3>1. kc + n = Len(message) /\ n \in 0 .. capacity
      BY <1>8, <2>1, <2>3
    <3>2. least(capacity, Len(message) - kc) = n
      BY <1>1, <3>1 DEF least
    <3> QED BY <1>1, <2>1, <3>1, <3>2, SMTT(30)
  <2> QED BY <2>2, <2>3
<1>11. (k + 1) - 1 = k
  OBVIOUS
<1>12. Chunk(k + 1) = Slice(message, k * capacity, n)
  BY <1>10, <1>11 DEF Chunk
<1>13. Len(Chunk(k + 1)) = n
  BY <1>8, <1>10, <1>12, SliceOf
<1>14. is_payload_length(SegmentLength, n, s.kind)
  BY <1>1, <1>7, <1>8 DEF is_payload_length, ChunkKind
<1>15. ChunkAt(s, k)
  BY <1>7, <1>12, <1>13, <1>14 DEF ChunkAt, chunk_start
<1> QED BY <1>5, <1>15

(* The encryption of one segment, with all that it seals. *)
SealsAs(q, k, kind, bytes, fault) ==
    \E keys, nonces :
        /\ q.ok \in BOOLEAN /\ q.state = [keys |-> keys, nonces |-> nonces]
        /\ LabelledCache(keys, contexts.ours)
        /\ q.ok => \E nonce : q.segment = SealOf(nonce, k, kind, bytes)
        /\ fault = "none" => q.ok

(* The fields of the two kinds of result. *)
LEMMA FailedFields ==
    ASSUME NEW st, NEW err, NEW q, q = Failed(st, err)
    PROVE  ~q.ok /\ q.ok \in BOOLEAN /\ q.state = st
<1>1. PICK no : no = FALSE
  OBVIOUS
<1>2. q = [ok |-> no, state |-> st, error |-> err]
  BY <1>1, Zenon DEF Failed
<1>3. q.ok = no /\ q.state = st
  BY <1>2
<1> QED BY <1>1, <1>3

LEMMA SealedFields ==
    ASSUME NEW yes, NEW st, NEW x, NEW q, q = [ok |-> yes, state |-> st, segment |-> x]
    PROVE  q.ok = yes /\ q.state = st /\ q.segment = x
OBVIOUS

LEMMA SealingForm ==
    ASSUME NEW keys, NEW nonces, LabelledCache(keys, contexts.ours), NEW k \in Nat,
           k < AEAD_MAX_SEGMENTS, NEW kind, NEW bytes,
           is_payload_length(SegmentLength, Len(bytes), kind), NEW fault, NEW batch, NEW q,
           q = encrypt_segment([keys |-> keys, nonces |-> nonces], contexts.ours,
                               plaintext_of(bytes), k, kind, TRUE, fault, batch)
    PROVE  SealsAs(q, k, kind, bytes, fault)
<1>1. contexts.ours.parameters = SegmentLength /\ plaintext_of(bytes).length = Len(bytes)
  BY DEF contexts, Context, plaintext_of
<1>2. PICK st : st = [keys |-> keys, nonces |-> nonces]
  OBVIOUS
<1>3. st.keys = keys /\ st.nonces = nonces
  BY <1>2
<1>4. PICK ns : ns = next_nonce(nonces, batch, fault)
  OBVIOUS
<1>5. PICK ks : ks = key_cache_after(keys, contexts.ours, k, fault)
  OBVIOUS
<1>6. LabelledCache(ks, contexts.ours)
  BY <1>5, CacheStaysLabelled
<1>7. [st EXCEPT !.nonces = ns] = [keys |-> keys, nonces |-> ns]
  BY <1>2
<1>8. q = IF ~next_nonce_ok(nonces, fault) THEN Failed([keys |-> keys, nonces |-> ns], "RngFailure")
          ELSE IF ~key_for_position_ok(keys, k, fault)
          THEN Failed([keys |-> ks, nonces |-> ns],
                      IF k >= AEAD_MAX_SEGMENTS THEN "SegmentLimit" ELSE "CryptoFailure")
          ELSE IF fault = "aead" THEN Failed([keys |-> ks, nonces |-> ns], "CryptoFailure")
          ELSE [ok |-> TRUE, state |-> [keys |-> ks, nonces |-> ns],
                segment |-> seal(key_of(ks), taken_nonce(ns), k, kind, plaintext_of(bytes))]
  BY <1>1, <1>2, <1>3, <1>4, <1>5, <1>7 DEF encrypt_segment
<1>9. CASE ~next_nonce_ok(nonces, fault)
  <2>1. q = Failed([keys |-> keys, nonces |-> ns], "RngFailure")
    BY <1>8, <1>9
  <2>3. ~q.ok /\ q.ok \in BOOLEAN /\ q.state = [keys |-> keys, nonces |-> ns]
    BY <2>1, FailedFields, ZenonT(60)
  <2>2. fault # "none"
    BY <1>9 DEF next_nonce_ok
  <2> QED BY <2>3, <2>2 DEF SealsAs
<1>10. CASE next_nonce_ok(nonces, fault) /\ ~key_for_position_ok(keys, k, fault)
  <2>1. PICK err : q = Failed([keys |-> ks, nonces |-> ns], err)
    BY <1>8, <1>10
  <2>3. ~q.ok /\ q.ok \in BOOLEAN /\ q.state = [keys |-> ks, nonces |-> ns]
    BY <2>1, FailedFields, ZenonT(60)
  <2>2. fault # "none"
    BY <1>10 DEF key_for_position_ok
  <2> QED BY <1>6, <2>3, <2>2 DEF SealsAs
<1>11. CASE /\ next_nonce_ok(nonces, fault) /\ key_for_position_ok(keys, k, fault)
            /\ fault = "aead"
  <2>1. q = Failed([keys |-> ks, nonces |-> ns], "CryptoFailure")
    BY <1>8, <1>11
  <2>3. ~q.ok /\ q.ok \in BOOLEAN /\ q.state = [keys |-> ks, nonces |-> ns]
    BY <2>1, FailedFields, ZenonT(60)
  <2> QED BY <1>6, <1>11, <2>3 DEF SealsAs
<1>12. CASE /\ next_nonce_ok(nonces, fault) /\ key_for_position_ok(keys, k, fault)
            /\ fault # "aead"
  <2>1. PICK x : x = seal(key_of(ks), taken_nonce(ns), k, kind, plaintext_of(bytes))
    OBVIOUS
  <2>2. key_of(ks) = derive_segment_key(contexts.ours, masked_position(k))
    BY <1>5, <1>12, LookupReturnsKey
  <2>6. PICK yes, st2 : yes = TRUE /\ st2 = [keys |-> ks, nonces |-> ns]
    OBVIOUS
  <2>5. q = [ok |-> yes, state |-> st2, segment |-> x]
    BY <1>8, <1>12, <2>1, <2>6, Zenon
  <2>7. yes = TRUE
    BY <2>6
  <2>8. q.ok = yes /\ q.state = st2 /\ q.segment = x
    BY ONLY <2>5, SealedFields
  <2>3. q.ok /\ q.ok \in BOOLEAN /\ q.state = [keys |-> ks, nonces |-> ns] /\ q.segment = x
    BY <2>6, <2>7, <2>8, Zenon
  <2>4. x = SealOf(taken_nonce(ns), k, kind, bytes)
    BY <2>1, <2>2 DEF SealOf
  <2> QED BY <1>6, <2>3, <2>4 DEF SealsAs
<1> QED BY <1>9, <1>10, <1>11, <1>12

(* encrypt_chunk: without a fault it seals the chunk, and after one that   *)
(* is not final the encryptor is at the next position.                     *)
ChunkSealed(r, k, kind, bytes) ==
    \E nonce, x :
        /\ r.segment = Some(x) /\ x = SealOf(nonce, k, kind, bytes)
        /\ kind = "NonFinal" => \E e : r.encryptor = Some(e) /\ KeyedEncryptor(e, k + 1)

LEMMA ChunkResult ==
    ASSUME NEW k \in Nat, NEW e, KeyedEncryptor(e, k), k < AEAD_MAX_SEGMENTS,
           NEW s, s.kind \in Kinds, s.kind = "NonFinal" => k # AEAD_MAX_SEGMENTS - 1,
           NEW bytes, is_payload_length(SegmentLength, Len(bytes), s.kind), NEW fault,
           NEW r, r = encrypt_chunk(e, s, bytes, fault)
    PROVE  \/ r.segment = None /\ fault # "none"
           \/ ChunkSealed(r, k, s.kind, bytes)
<1>1. PICK keys, nonces : /\ e = EncryptorAt([keys |-> keys, nonces |-> nonces], k)
                          /\ LabelledCache(keys, contexts.ours)
  BY DEF KeyedEncryptor
<1>2. PICK st, counter : /\ st = [keys |-> keys, nonces |-> nonces]
                         /\ counter = [next |-> k, closed |-> FALSE]
  OBVIOUS
<1>3. e = [state |-> st, counter |-> counter]
  BY <1>1, <1>2 DEF EncryptorAt
<1>4. e.state = st /\ e.counter = counter /\ counter.next = k
  BY <1>2, <1>3
<1>5. PICK batch : batch = e.state.nonces.batch + 1
  OBVIOUS
<1>6. PICK kind : kind = s.kind
  OBVIOUS
<1>7. PICK q : q = encrypt_segment(st, contexts.ours, plaintext_of(bytes), k, kind, TRUE, fault, batch)
  OBVIOUS
<1>8. SealsAs(q, k, kind, bytes, fault)
  BY <1>1, <1>2, <1>6, <1>7, SealingForm
<1>9. PICK keys2, nonces2 :
        /\ q.ok \in BOOLEAN /\ q.state = [keys |-> keys2, nonces |-> nonces2]
        /\ LabelledCache(keys2, contexts.ours)
        /\ q.ok => \E nonce : q.segment = SealOf(nonce, k, kind, bytes)
        /\ fault = "none" => q.ok
  BY <1>8 DEF SealsAs
<1>10. CASE kind = "Final"
  <2>1. r = encrypt_final(e, contexts.ours, plaintext_of(bytes), TRUE, fault, batch)
    BY <1>5, <1>6, <1>10 DEF encrypt_chunk
  <2>2. position_for_ok(counter, "Final")
    BY <1>2, CounterSteps
  <2>3. r = IF q.ok
            THEN EncryptorResult(None, Some(q.segment), q.state.nonces.batch = batch)
            ELSE EncryptorResult(Some([e EXCEPT !.state = q.state]), None,
                                 q.state.nonces.batch = batch)
    BY <1>4, <1>7, <1>10, <2>1, <2>2 DEF encrypt_final
  <2>4. CASE q.ok
    <3>1. r.segment = Some(q.segment)
      BY <2>3, <2>4 DEF EncryptorResult
    <3> QED BY <1>6, <1>9, <1>10, <2>4, <3>1 DEF ChunkSealed
  <2>5. CASE ~q.ok
    <3>1. r.segment = None
      BY <2>3, <2>5 DEF EncryptorResult
    <3> QED BY <1>9, <2>5, <3>1
  <2> QED BY <2>4, <2>5
<1>11. CASE kind = "NonFinal"
  <2>1. r = encrypt_non_final(e, contexts.ours, plaintext_of(bytes), TRUE, fault, batch)
    BY <1>5, <1>6, <1>11 DEF encrypt_chunk
  <2>2. position_for_ok(counter, "NonFinal") /\ complete(counter, "NonFinal") = [next |-> k + 1, closed |-> FALSE]
    BY <1>2, <1>6, <1>11, CounterSteps
  <2>3. r = EncryptorResult(
                Some([state |-> q.state, counter |-> counter_after(counter, "NonFinal", q.ok)]),
                IF q.ok THEN Some(q.segment) ELSE None, q.state.nonces.batch = batch)
    BY <1>4, <1>7, <1>11, <2>1, <2>2 DEF encrypt_non_final
  <2>4. CASE q.ok
    <3>1. r.segment = Some(q.segment)
      BY <2>3, <2>4 DEF EncryptorResult
    <3>2. r.encryptor = Some([state |-> q.state, counter |-> counter_after(counter, "NonFinal", q.ok)])
      BY <2>3 DEF EncryptorResult
    <3>3. counter_after(counter, "NonFinal", q.ok) = [next |-> k + 1, closed |-> FALSE]
      BY <2>2, <2>4 DEF counter_after
    <3>4. PICK e2 : e2 = EncryptorAt([keys |-> keys2, nonces |-> nonces2], k + 1)
      OBVIOUS
    <3>5. r.encryptor = Some(e2) /\ KeyedEncryptor(e2, k + 1)
      BY <1>9, <3>2, <3>3, <3>4 DEF EncryptorAt, KeyedEncryptor
    <3> QED BY <1>6, <1>9, <2>4, <3>1, <3>5 DEF ChunkSealed
  <2>5. CASE ~q.ok
    <3>1. r.segment = None
      BY <2>3, <2>5 DEF EncryptorResult
    <3> QED BY <1>9, <2>5, <3>1
  <2> QED BY <2>4, <2>5
<1> QED BY <1>6, <1>10, <1>11 DEF Kinds

(* encrypt, up to the loop. *)
LEMMA EncryptBegins ==
    ASSUME OneShotInv, NEW fault, encrypt(fault)
    PROVE  OneShotInv'
<1>1. /\ phase = "start" /\ body = 0 /\ decryptor = None /\ sealed = <<>> /\ message \in Seq(Nat)
  BY DEF OneShotInv, Encryption, Decryption, Decrypted, encrypt
<1>2. /\ message' = message /\ sealed' = sealed /\ body' = body /\ decryptor' = decryptor
  BY DEF encrypt, decVars
<1>3. HasLayout' <=> HasLayout
  BY <1>2 DEF HasLayout
<1>4. CASE fault = "none" /\ HasLayout
  <2>1. /\ phase' = "encrypting" /\ encryptor' = Some(Encryptor_new(contexts.ours))
        /\ layout' = Some(plaintext_layout(SegmentLength, Len(message)).value)
    BY <1>4 DEF encrypt, HasLayout
  <2>2. IsSeq(sealed') /\ Len(sealed') = 0
    <3>1. <<>> \in Seq({}) /\ Len(<<>>) = 0
      OBVIOUS
    <3> QED BY <1>1, <1>2, <3>1 DEF IsSeq
  <2>3. Count' = Count /\ Count \in Nat \ {0}
    BY <1>1, <1>2, OneShotNumbers DEF Count
  <2>4. SealedSoFar'
    BY <2>2, <2>3 DEF SealedSoFar
  <2>5. PICK e : e = Encryptor_new(contexts.ours)
    OBVIOUS
  <2>6. KeyedEncryptor(e, 0)
    <3>1. e = EncryptorAt([keys |-> KeyCache_new(contexts.ours), nonces |-> NonceGenerator_new], 0)
      BY <2>5 DEF Encryptor_new, EncryptorAt, counter_new
    <3>2. LabelledCache(KeyCache_new(contexts.ours), contexts.ours)
      BY DEF KeyCache_new, LabelledCache, derive, Some
    <3> QED BY <3>1, <3>2 DEF KeyedEncryptor
  <2>7. EncryptorLeft'
    <3>1. encryptor' = Some(e) /\ Len(sealed') < Count'
      BY <2>1, <2>2, <2>3, <2>5
    <3> QED BY <2>2, <2>6, <3>1 DEF EncryptorLeft
  <2>8. Encrypting'
    BY <1>2, <1>3, <1>4, <2>1, <2>4, <2>7 DEF Encrypting
  <2>9. Encryption'
    BY <1>1, <1>2, <2>1, <2>8 DEF Encryption
  <2> QED BY <1>1, <1>2, <2>9 DEF OneShotInv
<1>5. CASE ~(fault = "none" /\ HasLayout)
  <2>1. ~succeeded' /\ phase' = "done" /\ (faulted' <=> fault # "none")
    BY <1>5, Zenon DEF encrypt, HasLayout
  <2>2. faulted' \/ ~HasLayout'
    BY <1>3, <1>5, <2>1
  <2>3. Encryption'
    BY <1>1, <1>2, <2>1, <2>2 DEF Encryption
  <2> QED BY <1>1, <1>2, <2>3 DEF OneShotInv
<1> QED BY <1>4, <1>5

(* One more segment sealed. *)
LEMMA SealedOneMore ==
    ASSUME message \in Seq(Nat), SealedSoFar, NEW k, k = Len(sealed), k < Count,
           NEW nonce, NEW x, x = SealOf(nonce, k, ChunkKind(k + 1, Count), Chunk(k + 1)),
           message' = message, sealed' = Append(sealed, x)
    PROVE  SealedSoFar' /\ Len(sealed') = k + 1 /\ k \in Nat /\ Count' = Count
<1>1. /\ IsSeq(sealed') /\ k \in Nat /\ Len(sealed') = k + 1
      /\ \A i \in 1 .. k : sealed'[i] = sealed[i]
      /\ sealed'[k + 1] = x
  BY AppendToSeq DEF SealedSoFar
<1>2. Count' = Count /\ Count \in Nat
  BY OneShotNumbers DEF Count
<1>3. ASSUME NEW i \in 1 .. k + 1 PROVE SealsChunk(sealed'[i], i, Count)
  <2>1. CASE i = k + 1
    <3>1. i - 1 = k
      BY <1>1, <2>1
    <3> QED BY <1>1, <2>1, <3>1 DEF SealsChunk
  <2>2. CASE i # k + 1
    <3>1. i \in 1 .. k
      BY <1>1, <2>2
    <3> QED BY <1>1, <3>1 DEF SealedSoFar
  <2> QED BY <2>1, <2>2
<1>4. ASSUME NEW i \in 1 .. k + 1 PROVE SealsChunk(sealed[i], i, Count)'
  <2>1. SealsChunk(sealed'[i], i, Count)
    BY <1>3
  <2>2. Chunk(i)' = Chunk(i)
    BY DEF Chunk
  <2> QED BY <1>2, <2>1, <2>2 DEF SealsChunk
<1>5. Len(sealed') <= Count'
  BY <1>1, <1>2
<1> QED BY <1>1, <1>2, <1>4, <1>5 DEF SealedSoFar

(* One round of encrypt_body's loop. *)
LEMMA EncryptStep ==
    ASSUME OneShotInv, NEW fault, encrypt_body_segment(fault)
    PROVE  OneShotInv'
<1>1. /\ phase = "encrypting" /\ body = 0 /\ decryptor = None /\ Encrypting /\ message \in Seq(Nat)
  BY DEF OneShotInv, Encryption, Decryption, Decrypted, encrypt_body_segment
<1>2. /\ message' = message /\ layout' = layout /\ body' = body /\ decryptor' = decryptor
      /\ faulted' = (faulted \/ fault # "none")
  BY DEF encrypt_body_segment, decVars
<1>3. HasLayout /\ SealedSoFar /\ EncryptorLeft
  BY <1>1 DEF Encrypting
<1>4. PICK y : y = plaintext_layout(SegmentLength, Len(message)).value /\ layout = Some(y)
  BY <1>1 DEF Encrypting
<1>5. PICK k : k = Len(sealed)
  OBVIOUS
<1>6. PICK e0 \in encryptor : \E segment \in segment_for_position(y, k) :
        LET chunk == Slice(message, chunk_start(segment), segment.plaintext_length)
            r == encrypt_chunk(e0, segment, chunk, fault)
        IN  /\ succeeded' = (r.segment # None)
            /\ encryptor' = IF segment.kind = "Final" THEN None ELSE r.encryptor
            /\ sealed' = IF succeeded' THEN Append(sealed, CHOOSE s \in r.segment : TRUE) ELSE sealed
  BY <1>4, <1>5 DEF encrypt_body_segment, Some
<1>7. /\ k < Count /\ k \in Nat /\ Count \in Nat \ {0} /\ Count <= AEAD_MAX_SEGMENTS
      /\ AEAD_MAX_SEGMENTS \in Nat
  <2>1. k \in Nat
    BY <1>3, <1>5, AppendToSeq DEF SealedSoFar
  <2>2. k < Count
    BY <1>3, <1>5, <1>6 DEF EncryptorLeft, None
  <2> QED BY <1>1, <1>3, <2>1, <2>2, OneShotNumbers
<1>8. KeyedEncryptor(e0, k)
  BY <1>3, <1>5, <1>6 DEF EncryptorLeft, None, Some
<1>9. PICK s : segment_for_position(y, k) = Some(s) /\ ChunkAt(s, k)
  BY <1>1, <1>3, <1>4, <1>7, ChunkForm
<1>10. PICK bytes, r, kind :
         bytes = Chunk(k + 1) /\ r = encrypt_chunk(e0, s, bytes, fault) /\ kind = s.kind
  OBVIOUS
<1>11. /\ kind = ChunkKind(k + 1, Count) /\ Slice(message, chunk_start(s), s.plaintext_length) = bytes
       /\ is_payload_length(SegmentLength, Len(bytes), s.kind)
  BY <1>9, <1>10 DEF ChunkAt
<1>12. /\ succeeded' = (r.segment # None)
       /\ encryptor' = IF kind = "Final" THEN None ELSE r.encryptor
       /\ sealed' = IF succeeded' THEN Append(sealed, CHOOSE z \in r.segment : TRUE) ELSE sealed
  BY <1>6, <1>9, <1>10, <1>11, Zenon DEF Some
<1>13. /\ s.kind \in Kinds /\ k < AEAD_MAX_SEGMENTS
       /\ s.kind = "NonFinal" => k # AEAD_MAX_SEGMENTS - 1
  BY <1>7, <1>10, <1>11 DEF ChunkKind, Kinds
<1>14. \/ r.segment = None /\ fault # "none"
       \/ ChunkSealed(r, k, kind, bytes)
  BY <1>7, <1>8, <1>10, <1>11, <1>13, ChunkResult
<1>15. CASE r.segment = None /\ fault # "none"
  <2>1. ~succeeded' /\ faulted'
    BY <1>2, <1>12, <1>15, Zenon
  <2>2. phase' = "done"
    BY <2>1 DEF encrypt_body_segment
  <2>3. Encryption'
    BY <1>1, <1>2, <2>1, <2>2 DEF Encryption
  <2> QED BY <1>1, <1>2, <2>3 DEF OneShotInv
<1>16. CASE ChunkSealed(r, k, kind, bytes)
  <2>1. PICK nonce, x :
          /\ r.segment = Some(x) /\ x = SealOf(nonce, k, kind, bytes)
          /\ kind = "NonFinal" => \E e : r.encryptor = Some(e) /\ KeyedEncryptor(e, k + 1)
    BY <1>16 DEF ChunkSealed
  <2>2. r.segment # None /\ (CHOOSE z \in r.segment : TRUE) = x
    BY <2>1, ChooseSome
  <2>3. succeeded'
    BY <1>12, <2>2, Zenon
  <2>4. phase' = "encrypting" /\ sealed' = Append(sealed, x)
    BY <1>1, <1>12, <2>2, <2>3 DEF encrypt_body_segment
  <2>5. SealedSoFar' /\ Len(sealed') = k + 1 /\ Count' = Count
    BY <1>1, <1>2, <1>3, <1>5, <1>7, <1>10, <1>11, <2>1, <2>4, SealedOneMore
  <2>6. EncryptorLeft'
    <3>1. CASE kind = "Final"
      <4>1. k + 1 = Count /\ encryptor' = None
        BY <1>11, <1>12, <3>1 DEF ChunkKind
      <4> QED BY <2>5, <4>1 DEF EncryptorLeft
    <3>2. CASE kind # "Final"
      <4>1. kind = "NonFinal" /\ k + 1 # Count
        BY <1>11, <3>2 DEF ChunkKind
      <4>2. PICK e : r.encryptor = Some(e) /\ KeyedEncryptor(e, k + 1)
        BY <2>1, <4>1
      <4>3. encryptor' = Some(e) /\ Len(sealed') < Count'
        BY <1>7, <1>12, <2>5, <3>2, <4>1, <4>2
      <4> QED BY <2>5, <4>2, <4>3 DEF EncryptorLeft
    <3> QED BY <3>1, <3>2
  <2>7. Encrypting'
    BY <1>1, <1>2, <2>5, <2>6 DEF Encrypting, HasLayout
  <2>8. Encryption'
    BY <1>1, <1>2, <2>4, <2>7 DEF Encryption
  <2> QED BY <1>1, <1>2, <2>8 DEF OneShotInv
<1> QED BY <1>14, <1>15, <1>16

(* The loop ends with the last segment of the layout. *)
LEMMA EncryptReturns ==
    ASSUME OneShotInv, encrypt_returns
    PROVE  OneShotInv'
<1>1. /\ phase = "encrypting" /\ body = 0 /\ decryptor = None /\ Encrypting /\ message \in Seq(Nat)
  BY DEF OneShotInv, Encryption, Decryption, Decrypted, encrypt_returns
<1>2. /\ message' = message /\ sealed' = sealed /\ body' = body /\ decryptor' = decryptor
      /\ phase' = "encrypted"
  BY DEF encrypt_returns, encVars, decVars
<1>3. Len(sealed) = Count
  <2>1. PICK y : y = plaintext_layout(SegmentLength, Len(message)).value /\ layout = Some(y)
    BY <1>1 DEF Encrypting
  <2>2. Len(sealed) = y.segment_count
    BY <2>1 DEF encrypt_returns, Some
  <2>3. y = LayoutRecord(SegmentLength, Len(message),
                         CiphertextLengthFor(SegmentLength, Len(message)), Count)
    BY <1>1, <2>1, OneShotNumbers, PlaintextLayoutIsGood DEF Encrypting, HasLayout, Count
  <2> QED BY <2>2, <2>3, LayoutFields
<1>4. WholeMessage
  BY <1>1, <1>3 DEF Encrypting, WholeMessage
<1>5. WholeMessage'
  BY <1>2, <1>4 DEF WholeMessage, HasLayout, SealedSoFar, SealsChunk, Chunk, Count
<1>6. Encryption'
  BY <1>1, <1>2, <1>5 DEF Encryption
<1> QED BY <1>1, <1>2, <1>6 DEF OneShotInv

(* What encrypt then returns is a message. *)
LEMMA WholeIsMessage ==
    ASSUME message \in Seq(Nat), WholeMessage
    PROVE  /\ IsMessage(encrypted) /\ Len(encrypted.segments) <= AEAD_MAX_SEGMENTS
           /\ encrypted.bytes = message /\ encrypted.segments = sealed
           /\ Len(encrypted.segments) = Count
<1>1. encrypted.bytes = message /\ encrypted.segments = sealed
  BY DEF encrypted
<1>2. /\ Count \in Nat \ {0} /\ capacity \in Nat \ {0} /\ Count <= AEAD_MAX_SEGMENTS
      /\ (Count - 1) * capacity <= Len(message) /\ Len(message) <= Count * capacity
  BY OneShotNumbers DEF WholeMessage
<1>3. Len(sealed) = Count /\ IsSeq(sealed)
  BY DEF WholeMessage, SealedSoFar
<1>4. sealed = [i \in 1 .. Count |-> sealed[i]]
  BY <1>3 DEF IsSeq
<1>5. ASSUME NEW i \in 1 .. Count
      PROVE  \E nonce : sealed[i] = SegmentOf(contexts.ours, encrypted, i, nonce)
  <2>1. PICK nonce : sealed[i] = SealOf(nonce, i - 1, ChunkKind(i, Count), Chunk(i))
    BY <1>3 DEF WholeMessage, SealedSoFar, SealsChunk
  <2>2. PayloadOf(encrypted, i) = Chunk(i)
    BY <1>1 DEF PayloadOf, Chunk
  <2>3. KindOf(encrypted, i) = ChunkKind(i, Count)
    BY <1>1, <1>3 DEF KindOf, ChunkKind
  <2> QED BY <2>1, <2>2, <2>3 DEF SealOf, SegmentOf
<1> QED BY <1>1, <1>2, <1>3, <1>4, <1>5 DEF IsMessage, IsMessageOf

(* The invariant implies that encrypt's result is the whole message. *)
LEMMA InvEncrypts == OneShotInv => EncryptsTheWholeMessage
<1> SUFFICES ASSUME OneShotInv PROVE EncryptsTheWholeMessage
  OBVIOUS
<1>1. message \in Seq(Nat)
  BY DEF OneShotInv
<1>2. ASSUME phase = "encrypting", NEW l \in layout
      PROVE  encryptor = None <=> Len(sealed) = l.segment_count
  <2>1. Encrypting
    BY <1>2 DEF OneShotInv, Encryption, Decryption, Decrypted
  <2>2. l = plaintext_layout(SegmentLength, Len(message)).value
    BY <1>2, <2>1 DEF Encrypting, Some
  <2>3. l = LayoutRecord(SegmentLength, Len(message),
                         CiphertextLengthFor(SegmentLength, Len(message)), Count)
    BY <1>1, <2>1, <2>2, OneShotNumbers, PlaintextLayoutIsGood DEF Encrypting, HasLayout, Count
  <2>4. l.segment_count = Count
    BY <2>3, LayoutFields
  <2>5. Len(sealed) \in Nat /\ Count \in Nat
    BY <1>1, <2>1, OneShotNumbers, AppendToSeq DEF Encrypting, SealedSoFar
  <2> QED BY <2>1, <2>4, <2>5 DEF Encrypting, EncryptorLeft, None, Some
<1>3. ASSUME phase = "encrypted"
      PROVE  Len(intact(encrypted))
               = plaintext_layout(SegmentLength, Len(message)).value.ciphertext_length
  <2>1. WholeMessage
    BY <1>3 DEF OneShotInv, Encryption, Decryption, Decrypted
  <2>2. plaintext_layout(SegmentLength, Len(message)).value.ciphertext_length
          = HEADER_LENGTH + Len(message) + Count * SEGMENT_OVERHEAD
    <3>1. plaintext_layout(SegmentLength, Len(message)).value
            = LayoutRecord(SegmentLength, Len(message),
                           CiphertextLengthFor(SegmentLength, Len(message)), Count)
      BY <1>1, <2>1, OneShotNumbers, PlaintextLayoutIsGood DEF WholeMessage, HasLayout, Count
    <3> QED BY <3>1, LayoutFields DEF CiphertextLengthFor, Count
  <2>3. /\ IsMessage(encrypted) /\ encrypted.bytes = message /\ Len(encrypted.segments) = Count
    BY <1>1, <2>1, WholeIsMessage
  <2>4. Len(intact(encrypted)) = HEADER_LENGTH + (Count - 1) * SegmentLength
                                   + SEGMENT_OVERHEAD + Len(PayloadOf(encrypted, Count))
    BY <2>3, IntactForm
  <2>5. /\ Count \in Nat \ {0} /\ capacity \in Nat \ {0} /\ SEGMENT_OVERHEAD \in Nat
        /\ SegmentLength = SEGMENT_OVERHEAD + capacity /\ HEADER_LENGTH \in Nat /\ Len(message) \in Nat
    BY <1>1, OneShotNumbers
  <2>6. Len(PayloadOf(encrypted, Count)) = Len(message) - (Count - 1) * capacity
    BY <2>3, <2>5, SegmentsForm
  <2>7. (Count - 1) * SegmentLength = (Count - 1) * SEGMENT_OVERHEAD + (Count - 1) * capacity
    BY <2>5
  <2>8. Count * SEGMENT_OVERHEAD = (Count - 1) * SEGMENT_OVERHEAD + SEGMENT_OVERHEAD
    BY <2>5
  <2>9. PICK co \in Int, oo \in Int : /\ co = (Count - 1) * capacity
                                      /\ oo = (Count - 1) * SEGMENT_OVERHEAD
    BY <2>5
  <2> QED BY <2>2, <2>4, <2>5, <2>6, <2>7, <2>8, <2>9
<1>4. ASSUME phase = "encrypted", NEW i \in DOMAIN sealed
      PROVE  /\ sealed[i].plaintext.data =
                   Slice(message, (i - 1) * capacity, sealed[i].plaintext.length)
             /\ sealed[i].position = i - 1
             /\ sealed[i].kind = "Final" <=> i = Len(sealed)
  <2>1. WholeMessage
    BY <1>4 DEF OneShotInv, Encryption, Decryption, Decrypted
  <2>2. /\ IsMessage(encrypted) /\ encrypted.bytes = message /\ encrypted.segments = sealed
        /\ Len(sealed) = Count
    BY <1>1, <2>1, WholeIsMessage
  <2>3. i \in 1 .. Len(encrypted.segments)
    BY <2>1, <2>2 DEF WholeMessage, SealedSoFar, IsSeq
  <2>4. /\ sealed[i].position = i - 1 /\ sealed[i].kind = KindOf(encrypted, i)
        /\ sealed[i].plaintext = plaintext_of(PayloadOf(encrypted, i))
    BY <2>2, <2>3, OurKeys
  <2>5. PayloadOf(encrypted, i) = Slice(message, (i - 1) * capacity, Len(PayloadOf(encrypted, i)))
    BY <2>2, <2>3, PayloadsForm DEF IsMessage
  <2>6. /\ sealed[i].plaintext.data = PayloadOf(encrypted, i)
        /\ sealed[i].plaintext.length = Len(PayloadOf(encrypted, i))
    BY <2>4 DEF plaintext_of
  <2> QED BY <2>2, <2>4, <2>5, <2>6 DEF KindOf
<1>5. ASSUME phase = "done", body = 0, ~succeeded, ~faulted
      PROVE  ~plaintext_layout(SegmentLength, Len(message)).ok
  BY <1>5 DEF OneShotInv, Encryption, Decryption, Decrypted, HasLayout
<1> QED BY <1>2, <1>3, <1>4, <1>5 DEF EncryptsTheWholeMessage

-----------------------------------------------------------------------------
(* decrypt. *)

(* The header of the message opens its context. *)
LEMMA OurHeaderOpens ==
    ASSUME NEW parameters \in {None, Some(SegmentLength)}
    PROVE  opened_context(key, aad, parameters, header_in(header_bytes(headers.ours))) # None
<1>1. PICK h : h = headers.ours
  OBVIOUS
<1>2. h.parameters = SegmentLength /\ h.iv = "iv" /\ h.tag = derive_message(key, SegmentLength, "iv", aad)
  BY <1>1 DEF headers, Header
<1>3. is_header(h)
  BY <1>1 DEF is_header, headers, Header
<1>4. PICK n, bytes : n = HEADER_LENGTH /\ bytes = header_bytes(h)
  OBVIOUS
<1>5. /\ n \in Nat \ {0} /\ Len(bytes) = n
      /\ \A k \in 1 .. n : bytes[k] = [item |-> h, at |-> k, of |-> n]
  <2>1. n \in Nat \ {0}
    BY <1>4, ParametersAssumption
  <2>2. bytes = [k \in 1 .. n |-> [item |-> h, at |-> k, of |-> n]]
    BY <1>4 DEF header_bytes, bytes_of
  <2> QED BY <2>1, <2>2
<1>6. PICK first : first = bytes[1]
  OBVIOUS
<1>7. first = [item |-> h, at |-> 1, of |-> n] /\ first.item = h /\ first.of = n
  BY <1>5, <1>6
<1>8. bytes # <<>>
  BY <1>5
<1>9. ASSUME NEW k \in 1 .. n PROVE bytes[k] = [first EXCEPT !.at = k]
  <2>1. [first EXCEPT !.at = k] = [item |-> h, at |-> k, of |-> n]
    BY <1>7
  <2> QED BY <1>5, <2>1
<1>10. is_whole(bytes)
  BY <1>5, <1>6, <1>7, <1>8, <1>9 DEF is_whole, is_start
<1>11. header_in(bytes) = Some(h)
  BY <1>3, <1>6, <1>7, <1>10 DEF header_in
<1>12. accepts_header(key, aad, h.parameters, h) /\ h.parameters \in VALID_SEGMENT_LENGTHS
  BY <1>2, CiphertextsAssumption DEF accepts_header
<1>13. parameters = None \/ h.parameters \in parameters
  BY <1>2 DEF Some
<1>14. Context(key, h.parameters, h.iv, aad) \in opened_context(key, aad, parameters, header_in(bytes))
  BY <1>11, <1>12, <1>13 DEF opened_context, Some
<1> QED BY <1>1, <1>4, <1>14 DEF None

(* Whose header may be at the start of what decrypt is given: that of the  *)
(* message, or that of the other one before none of its segments.          *)
LEMMA GivenHeader ==
    ASSUME NEW m, IsMessage(m), NEW src, GoodSource(src, 0, m), HEADER_LENGTH <= Len(src),
           NEW bytes, bytes = Slice(src, 0, HEADER_LENGTH), NEW parameters,
           NEW c \in opened_context(key, aad, parameters, header_in(bytes))
    PROVE  \/ c = contexts.ours /\ bytes = header_bytes(headers.ours)
           \/ /\ c = contexts.other /\ src[1].item = headers.other
              /\ src \in Seq(BytesOf(NoForeignSegment(m)) \cup {junk[1]})
<1>1. PICK B : B = BytesOf(Items(m)) \cup {junk[1]}
  OBVIOUS
<1>2. src \in Seq(B) /\ HEADER_LENGTH \in Nat \ {0} /\ 0 + HEADER_LENGTH <= Len(src) /\ Len(src) \in Nat
  BY <1>1, ParametersAssumption DEF GoodSource
<1>3. /\ bytes \in Seq(B) /\ \A i \in 1 .. HEADER_LENGTH : bytes[i] = src[0 + i]
  <2>1. PICK n \in Nat : n = HEADER_LENGTH
    BY <1>2
  <2>2. 0 \in Nat /\ 0 + n <= Len(src) /\ bytes = Slice(src, 0, n)
    BY <1>2, <2>1
  <2>3. Slice(src, 0, n) \in Seq(B) /\ \A i \in 1 .. n : Slice(src, 0, n)[i] = src[0 + i]
    BY <1>2, <2>2, SliceOf
  <2> QED BY <2>1, <2>2, <2>3
<1>4. 1 \in 1 .. HEADER_LENGTH /\ 1 \in 1 .. Len(src) /\ 0 + 1 = 1
  BY <1>2
<1>5. bytes[1] = src[1]
  BY <1>3, <1>4
<1>6. PICK x \in header_in(bytes) :
        accepts_header(key, aad, x.parameters, x) /\ c = Context(key, x.parameters, x.iv, aad)
  BY DEF opened_context
<1>7. x \in Items(m) /\ is_header(x) /\ bytes = header_bytes(x) /\ bytes[1].item = x
  BY <1>1, <1>3, ItemsSized, HeaderFound
<1>8. x \in {headers.ours} \cup ForgedHeaders
  BY <1>7, ItemKinds DEF Items, NoForeignSegment, NoForeignHeader
<1>9. CASE x = headers.ours /\ c = contexts.ours
  BY <1>7, <1>9
<1>10. CASE x = headers.other /\ c = contexts.other
  <2>1. headers.ours # headers.other
    BY DEF headers, Header
  <2>2. src[1].item = headers.other
    BY <1>5, <1>7, <1>10
  <2>3. src \notin Seq(BytesOf(NoForeignHeader(m)) \cup {junk[1]})
    <3> SUFFICES ASSUME src \in Seq(BytesOf(NoForeignHeader(m)) \cup {junk[1]})
                 PROVE  FALSE
      OBVIOUS
    <3>1. PICK b : b = src[1]
      OBVIOUS
    <3>2. b \in BytesOf(NoForeignHeader(m)) \cup {junk[1]} /\ b.item = headers.other
      BY <1>4, <2>2, <3>1, ElementOfSeq
    <3>3. is_header(b.item)
      BY <1>7, <1>10, <3>2
    <3>4. b.item \in NoForeignHeader(m)
      BY <3>2, <3>3, ByteFields
    <3> QED BY <2>1, <3>2, <3>3, <3>4, ItemKinds DEF NoForeignHeader
  <2>4. ~\A k \in 1 .. HEADER_LENGTH : k <= Len(src) => src[k].item = headers.ours
    BY <1>2, <1>4, <2>1, <2>2
  <2> QED BY <1>10, <2>2, <2>3, <2>4 DEF GoodSource
<1> QED BY <1>6, <1>8, <1>9, <1>10, AcceptedHeaders

(* The whole message. *)
LEMMA IntactNumbers ==
    ASSUME NEW m, IsMessage(m)
    PROVE  /\ IsWhole(intact(m), headers.ours, m) /\ IsMessageOf(contexts.ours, m)
           /\ intact(m) \in Seq(BytesOf({headers.ours} \cup OurSegments(m)))
           /\ Len(intact(m)) \in Nat /\ HEADER_LENGTH <= Len(intact(m))
           /\ HEADER_LENGTH \in Nat \ {0} /\ Len(m.segments) \in Nat \ {0}
           /\ Slice(intact(m), 0, HEADER_LENGTH) = header_bytes(headers.ours)
           /\ intact(m)[1].item = headers.ours
<1>1. IsWhole(intact(m), headers.ours, m) /\ IsMessageOf(contexts.ours, m)
  BY IntactIsWhole DEF IsMessage
<1>2. HEADER_LENGTH \in Nat \ {0} /\ Len(m.segments) \in Nat \ {0}
  BY <1>1, ParametersAssumption, MessageNumbers
<1>3. \A k \in 1 .. HEADER_LENGTH : intact(m)[k].item = headers.ours
  BY IntactForm
<1>4. 1 \in 1 .. HEADER_LENGTH
  BY <1>2
<1> QED BY <1>1, <1>2, <1>3, <1>4 DEF IsWhole

(* Once its header is read, decrypt is at the first segment. *)
LEMMA ReadsFromStart ==
    ASSUME NEW m, IsMessage(m), NEW B, NEW src \in Seq(B), HEADER_LENGTH <= Len(src),
           Slice(src, 0, HEADER_LENGTH) = header_bytes(headers.ours), NEW dec,
           dec = Some([context |-> contexts.ours, decryptor |-> Decryptor_new(contexts.ours)])
    PROVE  ReadsOurs(m, src, HEADER_LENGTH, dec, <<>>)
<1>1. PICK W, C, z : /\ W = intact(m) /\ C = BytesOf({headers.ours} \cup OurSegments(m)) /\ z = 0
  OBVIOUS
<1>2. /\ IsMessageOf(contexts.ours, m) /\ W \in Seq(C)
      /\ Len(W) \in Nat /\ HEADER_LENGTH <= Len(W)
      /\ HEADER_LENGTH \in Nat \ {0} /\ Len(m.segments) \in Nat \ {0}
      /\ Slice(W, 0, HEADER_LENGTH) = header_bytes(headers.ours)
  BY <1>1, IntactNumbers
<1>3. PICK keys, d : keys = KeyCache_new(contexts.ours) /\ d = DecryptorAt(keys, z)
  OBVIOUS
<1>4. Decryptor_new(contexts.ours) = d
  BY <1>1, <1>3, Zenon DEF Decryptor_new, DecryptorAt, counter_new
<1>5. LabelledCache(keys, contexts.ours)
  BY <1>3 DEF KeyCache_new, LabelledCache, derive, Some
<1>6. EndOf(m, W, z) = HEADER_LENGTH
  <2>1. z # Len(m.segments) /\ z + 1 = 1
    BY <1>1, <1>2
  <2>2. Offset(1) = HEADER_LENGTH
    <3>1. PICK p \in Nat, y \in Nat : p = SegmentLength /\ y = HEADER_LENGTH
      BY <1>2, MessageNumbers
    <3>2. y + (1 - 1) * p = y
      OBVIOUS
    <3> QED BY <3>1, <3>2 DEF Offset
  <2> QED BY <2>1, <2>2 DEF EndOf
<1>7. SameBytes(src, 0, W, HEADER_LENGTH)
  <2>1. PICK n \in Nat : n = HEADER_LENGTH
    BY <1>2
  <2>2. 0 + n <= Len(src) /\ 0 + n <= Len(W) /\ 0 \in Nat /\ Len(src) \in Nat
    BY <1>2, <2>1
  <2>3. Slice(src, 0, n) = Slice(W, 0, n)
    BY <1>2, <2>1
  <2>4. BytesAgree(src, 0, W, 0, n)
    BY <1>2, <2>1, <2>2, <2>3, EqualSlices
  <2>5. n <= Len(W)
    BY <1>2, <2>1
  <2>6. ASSUME NEW i \in 1 .. n PROVE src[0 + i] = W[i]
    <3>1. 0 + i = i
      OBVIOUS
    <3>2. src[0 + i] = W[0 + i]
      BY <2>4 DEF BytesAgree
    <3> QED BY <3>1, <3>2
  <2> QED BY <2>1, <2>2, <2>5, <2>6 DEF SameBytes
<1>8. Slice(m.bytes, 0, SoFar(m, z)) = <<>>
  <2>1. SoFar(m, z) = 0
    <3>1. z # Len(m.segments)
      BY <1>1, <1>2
    <3>2. PICK p \in Nat : p = capacity
      BY <1>2, MessageNumbers
    <3>3. 0 * p = 0
      OBVIOUS
    <3> QED BY <1>1, <3>1, <3>2, <3>3 DEF SoFar
  <2> QED BY <2>1, EmptySlice
<1>9. z \in 0 .. Len(m.segments) /\ z < Len(m.segments)
  BY <1>1, <1>2
<1> QED BY <1>1, <1>3, <1>4, <1>5, <1>6, <1>7, <1>8, <1>9, Zenon DEF ReadsOurs

(* decrypt, up to the loop. *)
LEMMA DecryptBegins ==
    ASSUME OneShotInv, NEW bytes \in Held(encrypted),
           NEW parameters \in {None, Some(SegmentLength), Some(SegmentLength + 1)}, NEW fault,
           decrypt(bytes, parameters, fault)
    PROVE  OneShotInv'
<1>1. phase = "encrypted" /\ WholeMessage /\ message \in Seq(Nat)
  BY DEF OneShotInv, Encryption, Decryption, Decrypted, decrypt
<1>2. PICK m : m = encrypted
  OBVIOUS
<1>3. IsMessage(m) /\ GoodSource(bytes, 0, m)
  BY <1>1, <1>2, WholeIsMessage, HeldSources
<1>4. PICK start, ctx :
        /\ start = Slice(bytes, 0, HEADER_LENGTH)
        /\ ctx = IF Len(bytes) < HEADER_LENGTH \/ fault # "none" THEN None
                 ELSE opened_context(key, aad, parameters, header_in(start))
  OBVIOUS
<1>5. /\ message' = message /\ sealed' = sealed
      /\ given' = bytes /\ body' = HEADER_LENGTH /\ plaintext' = <<>>
      /\ decryptor' = {[context |-> c, decryptor |-> Decryptor_new(c)] : c \in ctx}
  BY <1>4 DEF decrypt, encVars
<1>6. /\ succeeded' <=> ctx # None
      /\ phase' = IF succeeded' THEN "decrypting" ELSE "done"
      /\ faulted' <=> fault # "none" \/ parameters \notin {None, Some(SegmentLength)}
  BY <1>4, Zenon DEF decrypt
<1>7. encrypted' = m
  BY <1>2, <1>5 DEF encrypted
<1>8. /\ HEADER_LENGTH \in Nat \ {0} /\ Len(bytes) \in Nat
      /\ bytes \in Seq(BytesOf(Items(m)) \cup {junk[1]})
  BY <1>3, ParametersAssumption DEF GoodSource
<1>9. CASE ctx = None
  <2>1. ~succeeded' /\ phase' = "done" /\ decryptor' = None
    BY <1>5, <1>6, <1>9 DEF None
  <2>2. ASSUME ~faulted', bytes = intact(m) PROVE FALSE
    <3>1. fault = "none" /\ parameters \in {None, Some(SegmentLength)}
      BY <1>6, <2>2
    <3>2. start = header_bytes(headers.ours) /\ ~(Len(bytes) < HEADER_LENGTH)
      <4>1. /\ Slice(intact(m), 0, HEADER_LENGTH) = header_bytes(headers.ours)
            /\ HEADER_LENGTH <= Len(intact(m))
        BY <1>3, IntactNumbers
      <4>2. PICK n \in Nat, y \in Nat : n = HEADER_LENGTH /\ y = Len(bytes)
        BY <1>8
      <4>3. n <= y
        BY <2>2, <4>1, <4>2
      <4> QED BY <1>4, <2>2, <4>1, <4>2, <4>3
    <3>3. ctx = opened_context(key, aad, parameters, header_in(header_bytes(headers.ours)))
      BY <1>4, <3>1, <3>2
    <3> QED BY <1>9, <3>1, <3>3, OurHeaderOpens
  <2>3. body' > 0
    BY <1>5, <1>8
  <2>4. Decrypted'
    BY <1>5, <1>7, <2>1, <2>2, <2>3 DEF Decrypted
  <2> QED BY <1>1, <1>5, <2>4 DEF OneShotInv
<1>10. CASE ctx # None
  <2>1. phase' = "decrypting"
    BY <1>6, <1>10
  <2>2. ~(Len(bytes) < HEADER_LENGTH) /\ ctx = opened_context(key, aad, parameters, header_in(start))
    BY <1>4, <1>10
  <2>3. PICK c : c \in ctx
    BY <1>10 DEF None
  <2>4. ctx = Some(c)
    BY <2>2, <2>3, OneContext
  <2>5. PICK dec : dec = Some([context |-> c, decryptor |-> Decryptor_new(c)])
    OBVIOUS
  <2>6. decryptor' = dec
    BY <1>5, <2>4, <2>5 DEF Some
  <2>7. HEADER_LENGTH <= Len(bytes)
    BY <1>8, <2>2
  <2>8. \/ c = contexts.ours /\ start = header_bytes(headers.ours)
        \/ /\ c = contexts.other /\ bytes[1].item = headers.other
           /\ bytes \in Seq(BytesOf(NoForeignSegment(m)) \cup {junk[1]})
    BY <1>3, <1>4, <2>2, <2>3, <2>7, GivenHeader
  <2>9. \/ ReadsOurs(m, bytes, HEADER_LENGTH, dec, <<>>)
        \/ ReadsOther(m, bytes, HEADER_LENGTH, dec, <<>>)
    <3>1. CASE c = contexts.ours /\ start = header_bytes(headers.ours)
      BY <1>3, <1>4, <1>8, <2>5, <2>7, <3>1, ReadsFromStart
    <3>2. CASE /\ c = contexts.other /\ bytes[1].item = headers.other
               /\ bytes \in Seq(BytesOf(NoForeignSegment(m)) \cup {junk[1]})
      <4>1. bytes # intact(m)
        <5>1. headers.ours # headers.other
          BY DEF headers, Header
        <5> QED BY <1>3, <3>2, <5>1, IntactNumbers
      <4>2. PICK keys : keys = KeyCache_new(contexts.other)
        OBVIOUS
      <4>3. LabelledCache(keys, contexts.other)
        BY <4>2 DEF KeyCache_new, LabelledCache, derive, Some
      <4>4. Decryptor_new(contexts.other) = DecryptorAt(keys, 0)
        BY <4>2, Zenon DEF Decryptor_new, DecryptorAt, counter_new
      <4> QED BY <2>5, <2>7, <3>2, <4>1, <4>3, <4>4 DEF ReadsOther
    <3> QED BY <2>8, <3>1, <3>2
  <2>10. WholeMessage'
    BY <1>1, <1>5 DEF WholeMessage, HasLayout, SealedSoFar, SealsChunk, Chunk, Count
  <2>11. Decryption'
    BY <1>5, <1>7, <1>8, <2>1, <2>6, <2>9, <2>10 DEF Decryption
  <2> QED BY <1>1, <1>5, <2>11 DEF OneShotInv
<1> QED BY <1>9, <1>10

-----------------------------------------------------------------------------
(* decrypt_body: one round of its loop. *)

(* The plaintext of the segments that are read is shorter than they are. *)
LEMMA PlaintextIsShorter ==
    ASSUME NEW m, IsMessage(m), NEW k \in Nat, k < Len(m.segments),
           NEW e, e = EndOf(m, intact(m), k), NEW g, g = SoFar(m, k)
    PROVE  /\ e \in Nat /\ g \in Nat /\ HEADER_LENGTH + g <= e
           /\ e < Len(intact(m)) /\ g <= Len(m.bytes)
<1>1. /\ IsWhole(intact(m), headers.ours, m) /\ IsMessageOf(contexts.ours, m)
      /\ Len(m.segments) \in Nat \ {0} /\ HEADER_LENGTH \in Nat /\ Len(intact(m)) \in Nat
  BY IntactNumbers
<1>2. PICK j \in 1 .. Len(m.segments) : j = k + 1
  BY <1>1
<1>3. PICK x : x = m.segments[j]
  OBVIOUS
<1>4. e \in Nat /\ x.length \in Nat \ {0} /\ e + x.length <= Len(intact(m))
  BY <1>1, <1>2, <1>3, NextSegment, SegmentSize
<1>5. PICK p : p = PayloadOf(m, j)
  OBVIOUS
<1>6. g \in Nat /\ Len(p) \in Nat /\ g + Len(p) <= Len(m.bytes) /\ Len(m.bytes) \in Nat
  BY <1>1, <1>2, <1>5, NextPayload, MessageNumbers
<1>7. /\ capacity \in Nat /\ SegmentLength \in Nat /\ SEGMENT_OVERHEAD \in Nat
      /\ SegmentLength = SEGMENT_OVERHEAD + capacity
  BY <1>1, MessageNumbers
<1>8. PICK kc \in Nat, ko \in Nat : kc = k * capacity /\ ko = k * SEGMENT_OVERHEAD
  BY <1>7
<1>9. k * SegmentLength = ko + kc
  BY <1>7, <1>8
<1>10. g = kc
  BY <1>1, <1>8 DEF SoFar
<1>11. e = HEADER_LENGTH + (ko + kc)
  <2>1. (k + 1) - 1 = k
    OBVIOUS
  <2> QED BY <1>1, <1>9, <2>1 DEF EndOf, Offset
<1> QED BY <1>1, <1>4, <1>6, <1>10, <1>11

(* While the next bytes are those of the message its framing is accepted. *)
NextOfIntact(m, k, kind, x, e) ==
    /\ IsThere(contexts.ours, k, x, kind, intact(m), e)
    /\ x.length \in Nat /\ SEGMENT_PREFIX_LENGTH <= x.length
    /\ e \in Nat /\ e + x.length <= Len(intact(m))
    /\ kind = "Final" => e + x.length = Len(intact(m))

LEMMA IntactStep ==
    ASSUME NEW m, IsMessage(m), NEW k \in Nat, NEW j \in 1 .. Len(m.segments), j = k + 1,
           NEW x, x = m.segments[j], NEW e, e = EndOf(m, intact(m), k)
    PROVE  NextOfIntact(m, k, KindOf(m, j), x, e)
<1>1. /\ IsWhole(intact(m), headers.ours, m) /\ IsMessageOf(contexts.ours, m)
      /\ Len(m.segments) \in Nat \ {0} /\ Len(intact(m)) \in Nat
  BY IntactNumbers
<1>2. PICK C : intact(m) \in Seq(C)
  BY <1>1 DEF IsWhole
<1>3. /\ e \in Nat /\ x.length \in Nat /\ EndOf(m, intact(m), j) = e + x.length
      /\ e + x.length <= Len(intact(m)) /\ Slice(intact(m), e, x.length) = segment_bytes(x)
  BY <1>1, NextSegment
<1>4. IsThere(contexts.ours, k, x, KindOf(m, j), intact(m), e)
  BY <1>1, <1>2, <1>3, SegmentDeclares
<1>5. SEGMENT_PREFIX_LENGTH <= x.length
  <2>1. x.length \in SEGMENT_OVERHEAD .. SegmentLength
    BY <1>1, SegmentSize
  <2>2. /\ SEGMENT_PREFIX_LENGTH \in Nat /\ SEGMENT_OVERHEAD \in Nat
        /\ SEGMENT_PREFIX_LENGTH <= SEGMENT_OVERHEAD
    BY ParametersAssumption DEF SEGMENT_OVERHEAD
  <2> QED BY <1>3, <2>1, <2>2, SMTT(30)
<1>6. KindOf(m, j) = "Final" => e + x.length = Len(intact(m))
  BY <1>3 DEF KindOf, EndOf
<1> QED BY <1>3, <1>4, <1>5, <1>6 DEF NextOfIntact

(* The next segment of the message has been opened. *)
NextIsOurs(m, src, from, k, length, q) ==
    \E keys, d, p :
        /\ q = DecryptorResult(d, Some(p)) /\ p.data = PayloadOf(m, k + 1)
        /\ LabelledCache(keys, contexts.ours)
        /\ from + length = EndOf(m, intact(m), k + 1)
        /\ SameBytes(src, 0, intact(m), from + length)
        /\ \/ k + 1 < Len(m.segments) /\ d = DecryptorAt(keys, k + 1)
           \/ k + 1 = Len(m.segments) /\ d = ClosedAt(keys, k) /\ from + length = Len(src)

(* What opens is the next segment of the message, and nothing follows the  *)
(* last one.                                                               *)
LEMMA OpenedIsNext ==
    ASSUME NEW m, IsMessage(m), NEW src \in Seq(BytesOf(Items(m)) \cup {junk[1]}),
           NEW k \in Nat, NEW from, from = EndOf(m, intact(m), k),
           from \in Nat, SameBytes(src, 0, intact(m), from),
           NEW length \in Nat, from + length <= Len(src),
           NEW final, DeclaredBy(Slice(src, from, SEGMENT_PREFIX_LENGTH), length, final),
           final = "Final" => from + length = Len(src),
           NEW x, x = segment_in(Slice(src, from, length)),
           NEW q, Accepts(q, contexts.ours, k, x)
    PROVE  NextIsOurs(m, src, from, k, length, q)
<1>1. /\ IsWhole(intact(m), headers.ours, m) /\ IsMessageOf(contexts.ours, m)
      /\ Len(m.segments) \in Nat \ {0} /\ Len(intact(m)) \in Nat
  BY IntactNumbers
<1>2. PICK B : B = BytesOf(Items(m)) \cup {junk[1]}
  OBVIOUS
<1>3. src \in Seq(B) /\ Len(src) \in Nat
  BY <1>2
<1>4. PICK bytes : bytes = Slice(src, from, length)
  OBVIOUS
<1>5. bytes \in Seq(B) /\ Len(bytes) = length
  BY <1>3, <1>4, SliceOf
<1>6. Found(bytes, Items(m), x) /\ x.length = length
  <2>1. Sized(Items(m)) /\ \A y \in Items(m) : is_segment(y) => ~is_header(y)
    BY ItemsSized, ItemKinds DEF Items, NoForeignSegment, NoForeignHeader
  <2> QED BY <1>2, <1>4, <1>5, <2>1, SegmentFound
<1>7. PICK keys, kind :
        /\ q = DecryptorResult(DecryptorAfter(keys, k, kind), Some(x.plaintext))
        /\ LabelledCache(keys, contexts.ours) /\ kind \in Kinds
        /\ validate_segment(SegmentLength, x, kind)
        /\ opens(derive_segment_key(contexts.ours, masked_position(k)), x, k, kind)
  BY DEF Accepts
<1>8. x \in Items(m) /\ is_segment(x) /\ bytes = segment_bytes(x)
  BY <1>6, <1>7 DEF Found, opens
<1>9. PICK j \in Nat : j = k + 1
  OBVIOUS
<1>10. j \in 1 .. Len(m.segments) /\ x = m.segments[j] /\ kind = KindOf(m, j)
  BY <1>7, <1>8, <1>9, OnlyOursOpens
<1>11. /\ EndOf(m, intact(m), j) = from + length /\ from + length <= Len(intact(m))
       /\ Slice(intact(m), from, length) = segment_bytes(x)
  BY <1>1, <1>6, <1>9, <1>10, NextSegment
<1>12. SameBytes(src, 0, intact(m), from + length)
  <2>1. PICK C : intact(m) \in Seq(C)
    BY <1>1 DEF IsWhole
  <2>2. 0 + from = from /\ 0 \in Nat
    OBVIOUS
  <2>3. 0 + from + length <= Len(src) /\ Slice(src, 0 + from, length) = Slice(intact(m), from, length)
    BY <1>4, <1>8, <1>11, <2>2
  <2> QED BY <1>3, <1>11, <2>1, <2>2, <2>3, SameExtends
<1>13. PICK p : p = x.plaintext
  OBVIOUS
<1>14. p.data = PayloadOf(m, j)
  <2>1. x.plaintext = plaintext_of(PayloadOf(m, j))
    BY <1>1, <1>10, KeysOf
  <2> QED BY <1>13, <2>1 DEF plaintext_of
<1>15. kind = final
  <2>1. IsThere(contexts.ours, k, x, KindOf(m, j), src, from)
    BY <1>1, <1>3, <1>4, <1>6, <1>8, <1>9, <1>10, SegmentDeclares
  <2>2. Framing(x.length, kind) = Framing(length, final)
    BY <1>10, <2>1 DEF IsThere, DeclaredBy
  <2>3. Framing(x.length, kind).kind = kind /\ Framing(length, final).kind = final
    BY DEF Framing
  <2> QED BY <2>2, <2>3
<1>16. CASE j = Len(m.segments)
  <2>1. kind = "Final"
    BY <1>10, <1>16 DEF KindOf
  <2>2. q = DecryptorResult(ClosedAt(keys, k), Some(p))
    BY <1>7, <1>13, <2>1 DEF DecryptorAfter
  <2> QED BY <1>7, <1>9, <1>11, <1>12, <1>14, <1>15, <1>16, <2>1, <2>2 DEF NextIsOurs
<1>17. CASE j # Len(m.segments)
  <2>1. kind = "NonFinal" /\ j < Len(m.segments)
    BY <1>1, <1>10, <1>17 DEF KindOf
  <2>2. q = DecryptorResult(DecryptorAt(keys, j), Some(p))
    BY <1>7, <1>9, <1>13, <2>1 DEF DecryptorAfter
  <2> QED BY <1>7, <1>9, <1>11, <1>12, <1>14, <2>1, <2>2 DEF NextIsOurs
<1> QED BY <1>16, <1>17

(* The framing and the segment of a round, and what opening it gives. *)
Round(d, f, accepted, length, x, q, fault) ==
    /\ f = next_framing(d.context.parameters)
    /\ accepted = (f.ok /\ fits_body(f.value))
    /\ length = IF accepted THEN f.value.ciphertext_length ELSE 0
    /\ x = segment_in(Slice(given, body, least(length, rest)))
    /\ q = decrypt_segment(d.decryptor, d.context, x, TRUE, fault)

(* What the round makes of it. *)
RoundEnds(d, accepted, length, q) ==
    /\ succeeded' = (accepted /\ q.plaintext # None)
    /\ plaintext' = IF ~accepted THEN plaintext
                    ELSE plaintext \o (IF succeeded' THEN (CHOOSE p \in q.plaintext : TRUE).data
                                       ELSE [i \in 1 .. length - SEGMENT_OVERHEAD |-> 0])
    /\ decryptor' = IF accepted THEN Some([d EXCEPT !.decryptor = q.decryptor]) ELSE decryptor
    /\ body' = IF succeeded' THEN body + length ELSE body

LEMMA RoundForm ==
    ASSUME NEW fault, decrypt_body_segment(fault)
    PROVE  \E d, f, accepted, length, x, q :
              /\ d \in decryptor
              /\ Round(d, f, accepted, length, x, q, fault) /\ RoundEnds(d, accepted, length, q)
BY Zenon DEF decrypt_body_segment, Round, RoundEnds

(* A framing that is accepted lies within the body. *)
LEMMA AcceptedFraming ==
    ASSUME given \in Seq(BytesOf(Items(encrypted)) \cup {junk[1]}), body \in Nat, body <= Len(given),
           NEW d, d.context.parameters = SegmentLength,
           NEW f, NEW accepted, NEW length, NEW x, NEW q, NEW fault,
           Round(d, f, accepted, length, x, q, fault)
    PROVE  /\ accepted \in BOOLEAN
           /\ accepted => /\ length \in SEGMENT_OVERHEAD .. SegmentLength
                          /\ length \in Nat /\ body + length <= Len(given)
                          /\ x = segment_in(Slice(given, body, length))
                          /\ \E kind : /\ DeclaredBy(Slice(given, body, SEGMENT_PREFIX_LENGTH), length, kind)
                                       /\ kind = "Final" => body + length = Len(given)
           /\ \A n \in Nat : \A kind :
                 /\ DeclaredBy(Slice(given, body, SEGMENT_PREFIX_LENGTH), n, kind)
                 /\ SEGMENT_PREFIX_LENGTH <= n /\ body + n <= Len(given)
                 /\ kind = "Final" => body + n = Len(given)
                 => accepted /\ length = n
<1>1. accepted = (f.ok /\ fits_body(f.value)) /\ accepted \in BOOLEAN
  BY DEF Round
<1>2. PICK y \in Nat, z \in Nat, p \in Nat : y = Len(given) /\ z = body /\ p = SEGMENT_PREFIX_LENGTH
  BY ParametersAssumption
<1>3. rest = y - z
  BY <1>2 DEF rest
<1>4. PICK g : g = decode_framing(SegmentLength, prefix_in(Slice(given, body, SEGMENT_PREFIX_LENGTH)))
  OBVIOUS
<1>5. f = IF y - z < p THEN Err("InvalidCiphertextLength") ELSE g
  BY <1>2, <1>3, <1>4 DEF Round, next_framing
<1>6. /\ g.ok \in BOOLEAN
      /\ g.ok => \E n \in SEGMENT_OVERHEAD .. SegmentLength, kind \in Kinds : g.value = Framing(n, kind)
  BY <1>4, FramingForm
<1>7. SEGMENT_OVERHEAD \in Nat /\ SegmentLength \in Nat
  BY CiphertextsAssumption, SegmentLengths
<1>8. ASSUME accepted
      PROVE  /\ length \in SEGMENT_OVERHEAD .. SegmentLength
             /\ length \in Nat /\ body + length <= Len(given)
             /\ x = segment_in(Slice(given, body, length))
             /\ \E kind : /\ DeclaredBy(Slice(given, body, SEGMENT_PREFIX_LENGTH), length, kind)
                          /\ kind = "Final" => body + length = Len(given)
  <2>1. f = g
    <3>1. ~Err("InvalidCiphertextLength").ok
      BY DEF Err
    <3> QED BY <1>1, <1>5, <1>8, <3>1
  <2>2. PICK n \in SEGMENT_OVERHEAD .. SegmentLength, kind \in Kinds : g.value = Framing(n, kind)
    BY <1>1, <1>6, <1>8, <2>1
  <2>3. g.value.ciphertext_length = n /\ g.value.kind = kind
    BY <2>2 DEF Framing
  <2>4. length = n /\ n \in Nat
    BY <1>7, <1>8, <2>1, <2>2, <2>3 DEF Round
  <2>5. n <= y - z /\ (kind = "Final" => n = y - z)
    BY <1>1, <1>3, <1>8, <2>1, <2>3 DEF fits_body
  <2>6. least(length, rest) = length
    BY <1>3, <2>4, <2>5 DEF least
  <2>7. x = segment_in(Slice(given, body, length))
    BY <2>6 DEF Round
  <2>8. DeclaredBy(Slice(given, body, SEGMENT_PREFIX_LENGTH), length, kind)
    BY <1>1, <1>4, <1>8, <2>1, <2>2, <2>4 DEF DeclaredBy
  <2>9. z + n <= y /\ (kind = "Final" => z + n = y)
    BY <2>4, <2>5
  <2> QED BY <1>2, <2>2, <2>4, <2>7, <2>8, <2>9
<1>9. ASSUME NEW n \in Nat, NEW kind,
             DeclaredBy(Slice(given, body, SEGMENT_PREFIX_LENGTH), n, kind),
             SEGMENT_PREFIX_LENGTH <= n, body + n <= Len(given),
             kind = "Final" => body + n = Len(given)
      PROVE  accepted /\ length = n
  <2>1. g.ok /\ g.value = Framing(n, kind)
    BY <1>4, <1>9 DEF DeclaredBy
  <2>2. g.value.ciphertext_length = n /\ g.value.kind = kind
    BY <2>1 DEF Framing
  <2>3. p <= n /\ z + n <= y /\ (kind = "Final" => z + n = y)
    BY <1>2, <1>9
  <2>4. f = g
    BY <1>5, <2>3
  <2>5. n <= rest /\ (kind = "Final" => n = rest)
    BY <1>3, <2>3
  <2>6. fits_body(f.value)
    BY <2>2, <2>4, <2>5 DEF fits_body
  <2>7. accepted
    BY <1>1, <2>1, <2>4, <2>6
  <2> QED BY <2>2, <2>4, <2>7 DEF Round
<1> QED BY <1>1, <1>8, <1>9

(* A round that refuses leaves no more than zeros behind, and decrypt an   *)
(* error.                                                                  *)
LEMMA RoundRefused ==
    ASSUME plaintext \in Seq(Nat), body \in Nat, body > 0, HEADER_LENGTH + Len(plaintext) <= body,
           body <= Len(given), Len(given) \in Nat,
           NEW d, NEW accepted \in BOOLEAN, NEW length, NEW q, RoundEnds(d, accepted, length, q),
           accepted => /\ q.plaintext = None /\ length \in Nat /\ SEGMENT_OVERHEAD <= length
                       /\ body + length <= Len(given),
           given' = given, encrypted' = encrypted, phase' = IF succeeded' THEN phase ELSE "done",
           faulted' \/ given # intact(encrypted)
    PROVE  Decrypted'
<1>1. ~succeeded' /\ body' = body
  BY Zenon DEF RoundEnds
<1>2. phase' = "done" /\ body' > 0
  BY <1>1
<1>3. HEADER_LENGTH \in Nat /\ SEGMENT_OVERHEAD \in Nat /\ Len(plaintext) \in Nat
  BY ParametersAssumption DEF SEGMENT_OVERHEAD
<1>4. Len(plaintext') <= Len(given) - HEADER_LENGTH
  <2>1. CASE ~accepted
    <3>1. plaintext' = plaintext
      BY <2>1 DEF RoundEnds
    <3> QED BY <1>3, <3>1
  <2>2. CASE accepted
    <3>1. PICK n \in Nat : n = length - SEGMENT_OVERHEAD /\ n <= length
      BY <1>3, <2>2
    <3>2. PICK zeros : zeros = [i \in 1 .. n |-> 0]
      OBVIOUS
    <3>3. plaintext' = plaintext \o zeros
      BY <1>1, <2>2, <3>1, <3>2 DEF RoundEnds
    <3>4. zeros \in Seq(Nat) /\ Len(zeros) = n
      BY <3>2
    <3>5. Len(plaintext') = Len(plaintext) + n
      BY <3>3, <3>4, ConcatProperties
    <3> QED BY <1>3, <2>2, <3>1, <3>5
  <2> QED BY <2>1, <2>2
<1>5. given' = intact(encrypted)' => faulted'
  OBVIOUS
<1> QED BY <1>1, <1>2, <1>4, <1>5 DEF Decrypted

(* A round that opens a segment has read one more. *)
LEMMA RoundOpened ==
    ASSUME NEW m, IsMessage(m), NEW k \in Nat, k < Len(m.segments),
           plaintext = Slice(m.bytes, 0, SoFar(m, k)),
           NEW d, NEW before, d = [context |-> contexts.ours, decryptor |-> before],
           NEW accepted, NEW length, NEW q, RoundEnds(d, accepted, length, q), accepted,
           NextIsOurs(m, given, body, k, length, q)
    PROVE  succeeded' /\ ReadsOurs(m, given, body', decryptor', plaintext')
<1>1. /\ IsMessageOf(contexts.ours, m) /\ Len(m.segments) \in Nat \ {0} /\ m.bytes \in Seq(Nat)
  BY IntactNumbers, MessageNumbers
<1>2. PICK j \in 1 .. Len(m.segments) : j = k + 1
  BY <1>1
<1>3. PICK keys, after, p :
        /\ q = DecryptorResult(after, Some(p)) /\ p.data = PayloadOf(m, j)
        /\ LabelledCache(keys, contexts.ours)
        /\ body + length = EndOf(m, intact(m), j)
        /\ SameBytes(given, 0, intact(m), body + length)
        /\ \/ j < Len(m.segments) /\ after = DecryptorAt(keys, j)
           \/ j = Len(m.segments) /\ after = ClosedAt(keys, k) /\ body + length = Len(given)
  BY <1>2 DEF NextIsOurs
<1>4. q.decryptor = after /\ q.plaintext = Some(p)
  BY <1>3 DEF DecryptorResult
<1>5. succeeded'
  BY <1>4, Zenon DEF RoundEnds, Some, None
<1>6. (CHOOSE y \in q.plaintext : TRUE) = p
  BY <1>4 DEF Some
<1>7. plaintext' = plaintext \o PayloadOf(m, j) /\ body' = body + length
  BY <1>3, <1>5, <1>6 DEF RoundEnds
<1>8. decryptor' = Some([context |-> contexts.ours, decryptor |-> after])
  <2>1. [d EXCEPT !.decryptor = after] = [context |-> contexts.ours, decryptor |-> after]
    OBVIOUS
  <2> QED BY <1>4, <2>1 DEF RoundEnds
<1>9. plaintext' = Slice(m.bytes, 0, SoFar(m, j))
  <2>1. PICK g, pay, n : g = SoFar(m, k) /\ pay = PayloadOf(m, j) /\ n = Len(pay)
    OBVIOUS
  <2>2. /\ g \in Nat /\ n \in Nat /\ SoFar(m, j) = g + n /\ g + n <= Len(m.bytes)
        /\ pay = Slice(m.bytes, g, n)
    BY <1>1, <1>2, <2>1, NextPayload
  <2>3. PICK z \in Nat, bytes \in Seq(Nat) : z = 0 /\ bytes = m.bytes
    BY <1>1
  <2>4. z + g = g /\ z + g + n <= Len(bytes)
    BY <2>2, <2>3
  <2>5. Slice(bytes, z, g) \o Slice(bytes, z + g, n) = Slice(bytes, z, g + n)
    BY <2>2, <2>4, SliceJoin
  <2> QED BY <1>7, <2>1, <2>2, <2>3, <2>4, <2>5
<1>10. j \in 0 .. Len(m.segments) /\ j - 1 = k
  BY <1>1, <1>2
<1>11. ReadsOurs(m, given, body', decryptor', plaintext')
  BY <1>3, <1>7, <1>8, <1>9, <1>10 DEF ReadsOurs
<1> QED BY <1>5, <1>11

(* What is read so far, and how much of it. *)
LEMMA ReadSoFar ==
    ASSUME NEW m, IsMessage(m), NEW k \in Nat, k < Len(m.segments), NEW out,
           out = Slice(m.bytes, 0, SoFar(m, k)), NEW from, from = EndOf(m, intact(m), k)
    PROVE  /\ out \in Seq(Nat) /\ Len(out) = SoFar(m, k) /\ from \in Nat /\ from > 0
           /\ HEADER_LENGTH + Len(out) <= from /\ from < Len(intact(m))
<1>1. /\ m.bytes \in Seq(Nat) /\ HEADER_LENGTH \in Nat \ {0}
  BY IntactNumbers, MessageNumbers
<1>2. PICK g : g = SoFar(m, k)
  OBVIOUS
<1>3. /\ from \in Nat /\ g \in Nat /\ HEADER_LENGTH + g <= from
      /\ from < Len(intact(m)) /\ g <= Len(m.bytes)
  BY <1>2, PlaintextIsShorter
<1>4. 0 + g <= Len(m.bytes) /\ 0 \in Nat
  BY <1>3
<1>5. out \in Seq(Nat) /\ Len(out) = g
  BY <1>1, <1>2, <1>3, <1>4, SliceOf
<1> QED BY <1>1, <1>2, <1>3, <1>5

(* A round on the message that is ours. *)
LEMMA DecryptOurs ==
    ASSUME message \in Seq(Nat), Decryption, NEW fault, decrypt_body_segment(fault),
           ReadsOurs(encrypted, given, body, decryptor, plaintext)
    PROVE  \/ succeeded' /\ ReadsOurs(encrypted, given, body', decryptor', plaintext')
           \/ Decrypted'
<1>1. PICK m : m = encrypted
  OBVIOUS
<1>2. /\ IsMessage(m) /\ Len(m.segments) <= AEAD_MAX_SEGMENTS
      /\ given \in Seq(BytesOf(Items(m)) \cup {junk[1]}) /\ Len(given) \in Nat
  BY <1>1, WholeIsMessage DEF Decryption
<1>3. PICK k, keys, before :
        /\ k \in 0 .. Len(m.segments) /\ LabelledCache(keys, contexts.ours)
        /\ decryptor = Some([context |-> contexts.ours, decryptor |-> before])
        /\ body = EndOf(m, intact(m), k) /\ SameBytes(given, 0, intact(m), body)
        /\ plaintext = Slice(m.bytes, 0, SoFar(m, k))
        /\ \/ k < Len(m.segments) /\ before = DecryptorAt(keys, k)
           \/ k = Len(m.segments) /\ before = ClosedAt(keys, k - 1) /\ body = Len(given)
  BY <1>1 DEF ReadsOurs
<1>4. rest > 0 /\ rest = Len(given) - body
  BY DEF decrypt_body_segment, rest
<1>5. k < Len(m.segments) /\ before = DecryptorAt(keys, k) /\ k \in Nat
  <2>1. body # Len(given)
    BY <1>2, <1>4
  <2> QED BY <1>3, <2>1
<1>6. /\ plaintext \in Seq(Nat) /\ body \in Nat /\ body > 0 /\ HEADER_LENGTH + Len(plaintext) <= body
      /\ body < Len(intact(m))
  BY <1>2, <1>3, <1>5, ReadSoFar
<1>7. body <= Len(given)
  BY <1>2, <1>4, <1>6
<1>8. PICK d, f, accepted, length, x, q :
        /\ d \in decryptor
        /\ Round(d, f, accepted, length, x, q, fault) /\ RoundEnds(d, accepted, length, q)
  BY RoundForm
<1>9. d = [context |-> contexts.ours, decryptor |-> before]
  BY <1>3, <1>8 DEF Some
<1>10. d.context = contexts.ours /\ d.decryptor = before /\ contexts.ours.parameters = SegmentLength
  BY <1>9 DEF contexts, Context
<1>11. /\ accepted \in BOOLEAN
       /\ accepted => /\ length \in SEGMENT_OVERHEAD .. SegmentLength
                      /\ length \in Nat /\ body + length <= Len(given)
                      /\ x = segment_in(Slice(given, body, length))
                      /\ \E kind : /\ DeclaredBy(Slice(given, body, SEGMENT_PREFIX_LENGTH), length, kind)
                                   /\ kind = "Final" => body + length = Len(given)
       /\ \A n \in Nat : \A kind :
             /\ DeclaredBy(Slice(given, body, SEGMENT_PREFIX_LENGTH), n, kind)
             /\ SEGMENT_PREFIX_LENGTH <= n /\ body + n <= Len(given)
             /\ kind = "Final" => body + n = Len(given)
             => accepted /\ length = n
  BY <1>1, <1>2, <1>6, <1>7, <1>8, <1>10, AcceptedFraming
<1>12. /\ given' = given /\ encrypted' = encrypted /\ phase' = IF succeeded' THEN phase ELSE "done"
       /\ faulted' = (faulted \/ fault # "none")
  BY DEF decrypt_body_segment, encVars, encrypted
<1>13. PICK j \in 1 .. Len(m.segments) : j = k + 1
  BY <1>2, <1>5, IntactNumbers
<1>14. PICK y : y = m.segments[j]
  OBVIOUS
<1>15. /\ IsThere(contexts.ours, k, y, KindOf(m, j), intact(m), body)
       /\ y.length \in Nat /\ SEGMENT_PREFIX_LENGTH <= y.length
       /\ body + y.length <= Len(intact(m))
       /\ KindOf(m, j) = "Final" => body + y.length = Len(intact(m))
  <2>1. body = EndOf(m, intact(m), k) /\ IsMessage(m) /\ k \in Nat
    BY <1>2, <1>3, <1>5
  <2>2. NextOfIntact(m, k, KindOf(m, j), y, body)
    BY <1>13, <1>14, <2>1, IntactStep
  <2> QED BY <2>2 DEF NextOfIntact
<1>16. ASSUME given = intact(m)
       PROVE  accepted /\ length = y.length /\ x = y
  <2>1. /\ DeclaredBy(Slice(given, body, SEGMENT_PREFIX_LENGTH), y.length, KindOf(m, j))
        /\ segment_in(Slice(given, body, y.length)) = y
    BY <1>15, <1>16 DEF IsThere
  <2>2. accepted /\ length = y.length
    BY <1>11, <1>15, <1>16, <2>1
  <2> QED BY <1>11, <2>1, <2>2
<1>17. CASE ~accepted
  <2>1. given # intact(m)
    BY <1>16, <1>17
  <2> QED BY <1>1, <1>2, <1>6, <1>7, <1>8, <1>11, <1>12, <1>17, <2>1, RoundRefused
<1>18. CASE accepted
  <2>1. q = decrypt_segment(DecryptorAt(keys, k), contexts.ours, x, TRUE, fault)
    BY <1>5, <1>8, <1>10 DEF Round
  <2>2. Refuses(q, contexts.ours, k) \/ Accepts(q, contexts.ours, k, x)
    BY <1>3, <1>5, <1>10, <2>1, FramedForm
  <2>3. CASE Accepts(q, contexts.ours, k, x)
    <3>1. PICK kind : /\ DeclaredBy(Slice(given, body, SEGMENT_PREFIX_LENGTH), length, kind)
                      /\ kind = "Final" => body + length = Len(given)
      BY <1>11, <1>18
    <3>2. NextIsOurs(m, given, body, k, length, q)
      BY <1>2, <1>3, <1>5, <1>6, <1>11, <1>18, <2>3, <3>1, OpenedIsNext
    <3> QED BY <1>1, <1>2, <1>3, <1>5, <1>8, <1>9, <1>18, <3>2, RoundOpened
  <2>4. CASE Refuses(q, contexts.ours, k) /\ ~Accepts(q, contexts.ours, k, x)
    <3>1. q.plaintext = None
      BY <2>4 DEF Refuses, DecryptorResult
    <3>2. ASSUME given = intact(m), fault = "none" PROVE FALSE
      <4>1. x = y
        BY <1>16, <3>2
      <4>2. PICK kind \in Kinds : kind = KindOf(m, j)
        BY DEF KindOf, Kinds
      <4>3. /\ validate_segment(SegmentLength, x, kind)
            /\ opens(derive_segment_key(contexts.ours, masked_position(k)), x, k, kind)
        BY <1>15, <4>1, <4>2 DEF IsThere, OpensAs
      <4>4. position_for_ok([next |-> k, closed |-> FALSE], kind) /\ k < AEAD_MAX_SEGMENTS
        BY <1>2, <1>5, <1>13, <4>2, IntactNumbers, PositionGiven
      <4>5. Accepts(q, contexts.ours, k, x)
        BY <1>3, <1>5, <1>10, <2>1, <3>2, <4>3, <4>4, FramedForm
      <4> QED BY <2>4, <4>5
    <3>3. faulted' \/ given # intact(m)
      BY <1>12, <3>2
    <3>4. length \in Nat /\ SEGMENT_OVERHEAD <= length /\ body + length <= Len(given)
      <4>1. SEGMENT_OVERHEAD \in Nat /\ SegmentLength \in Nat
        BY CiphertextsAssumption, SegmentLengths
      <4> QED BY <1>11, <1>18, <4>1
    <3> QED BY <1>1, <1>2, <1>6, <1>7, <1>8, <1>11, <1>12, <3>1, <3>3, <3>4, RoundRefused
  <2> QED BY <2>2, <2>3, <2>4
<1> QED BY <1>11, <1>17, <1>18

(* A round on the other message: nothing of it is there to be opened. *)
LEMMA DecryptOther ==
    ASSUME message \in Seq(Nat), Decryption, NEW fault, decrypt_body_segment(fault),
           ReadsOther(encrypted, given, body, decryptor, plaintext)
    PROVE  Decrypted'
<1>1. PICK m : m = encrypted
  OBVIOUS
<1>2. IsMessage(m) /\ given \in Seq(BytesOf(Items(m)) \cup {junk[1]}) /\ Len(given) \in Nat
  BY <1>1, WholeIsMessage DEF Decryption
<1>3. PICK keys :
        /\ LabelledCache(keys, contexts.other)
        /\ decryptor = Some([context |-> contexts.other, decryptor |-> DecryptorAt(keys, 0)])
        /\ body = HEADER_LENGTH /\ HEADER_LENGTH <= Len(given) /\ plaintext = <<>>
        /\ given \in Seq(BytesOf(NoForeignSegment(m)) \cup {junk[1]}) /\ given # intact(m)
  BY <1>1 DEF ReadsOther
<1>4. /\ plaintext \in Seq(Nat) /\ body \in Nat /\ body > 0 /\ HEADER_LENGTH + Len(plaintext) <= body
      /\ body <= Len(given)
  BY <1>3, ParametersAssumption
<1>5. PICK d, f, accepted, length, x, q :
        /\ d \in decryptor
        /\ Round(d, f, accepted, length, x, q, fault) /\ RoundEnds(d, accepted, length, q)
  BY RoundForm
<1>6. PICK z, before : z = 0 /\ z \in Nat /\ before = DecryptorAt(keys, z)
  OBVIOUS
<1>7. d = [context |-> contexts.other, decryptor |-> before]
  BY <1>3, <1>5, <1>6 DEF Some
<1>8. d.context = contexts.other /\ d.decryptor = before /\ contexts.other.parameters = SegmentLength
  BY <1>7 DEF contexts, Context
<1>9. /\ accepted \in BOOLEAN
      /\ accepted => /\ length \in SEGMENT_OVERHEAD .. SegmentLength
                     /\ length \in Nat /\ body + length <= Len(given)
                     /\ x = segment_in(Slice(given, body, length))
  BY <1>1, <1>2, <1>4, <1>5, <1>8, AcceptedFraming
<1>10. given' = given /\ encrypted' = encrypted /\ phase' = IF succeeded' THEN phase ELSE "done"
  BY DEF decrypt_body_segment, encVars, encrypted
<1>11. ASSUME accepted
       PROVE  /\ q.plaintext = None /\ length \in Nat /\ SEGMENT_OVERHEAD <= length
              /\ body + length <= Len(given)
  <2>1. q = decrypt_segment(DecryptorAt(keys, z), contexts.other, x, TRUE, fault)
    BY <1>5, <1>6, <1>8 DEF Round
  <2>2. Refuses(q, contexts.other, z) \/ Accepts(q, contexts.other, z, x)
    BY <1>3, <1>6, <1>8, <2>1, FramedForm
  <2>3. ASSUME Accepts(q, contexts.other, z, x) PROVE FALSE
    <3>1. PICK B : B = BytesOf(NoForeignSegment(m)) \cup {junk[1]}
      OBVIOUS
    <3>2. PICK bytes : bytes = Slice(given, body, length)
      OBVIOUS
    <3>3. given \in Seq(B)
      BY <1>3, <3>1
    <3>4. bytes \in Seq(B)
      BY <1>4, <1>9, <1>11, <3>2, <3>3, SliceOf
    <3>5. Sized(NoForeignSegment(m)) /\ \A y \in NoForeignSegment(m) : is_segment(y) => ~is_header(y)
      BY <1>2, ItemsSized, ItemKinds DEF NoForeignSegment
    <3>6. Found(bytes, NoForeignSegment(m), x)
      BY <1>9, <1>11, <3>1, <3>2, <3>4, <3>5, SegmentFound
    <3>7. PICK kind : opens(derive_segment_key(contexts.other, masked_position(z)), x, z, kind)
      BY <2>3 DEF Accepts
    <3>8. x \in NoForeignSegment(m) /\ is_segment(x)
      BY <3>6, <3>7 DEF Found, opens
    <3> QED BY <1>2, <3>7, <3>8, NoForeignOpens
  <2>4. q.plaintext = None
    BY <2>2, <2>3 DEF Refuses, DecryptorResult
  <2>5. SEGMENT_OVERHEAD \in Nat /\ SegmentLength \in Nat
    BY CiphertextsAssumption, SegmentLengths
  <2> QED BY <1>9, <1>11, <2>4, <2>5
<1> QED BY <1>1, <1>2, <1>3, <1>4, <1>5, <1>9, <1>10, <1>11, RoundRefused

(* One round of decrypt_body's loop. *)
LEMMA DecryptStep ==
    ASSUME OneShotInv, NEW fault, decrypt_body_segment(fault)
    PROVE  OneShotInv'
<1>1. message \in Seq(Nat) /\ phase = "decrypting" /\ Decryption
  BY DEF OneShotInv, Encryption, Decryption, Decrypted, decrypt_body_segment
<1>2. /\ message' = message /\ sealed' = sealed /\ given' = given
      /\ phase' = IF succeeded' THEN phase ELSE "done"
  BY DEF decrypt_body_segment, encVars
<1>3. encrypted' = encrypted
  BY <1>2 DEF encrypted
<1>4. \/ succeeded' /\ ReadsOurs(encrypted, given, body', decryptor', plaintext')
      \/ Decrypted'
  BY <1>1, DecryptOurs, DecryptOther DEF Decryption
<1>5. CASE succeeded' /\ ReadsOurs(encrypted, given, body', decryptor', plaintext')
  <2>1. WholeMessage'
    BY <1>1, <1>2 DEF Decryption, WholeMessage, HasLayout, SealedSoFar, SealsChunk, Chunk, Count
  <2>2. Decryption'
    BY <1>1, <1>2, <1>3, <1>5, <2>1 DEF Decryption
  <2> QED BY <1>1, <1>2, <2>2 DEF OneShotInv
<1>6. CASE Decrypted'
  BY <1>1, <1>2, <1>6 DEF OneShotInv
<1> QED BY <1>4, <1>5, <1>6

(* All of the message has been read. *)
LEMMA ReadAll ==
    ASSUME NEW m, IsMessage(m), NEW k, k = Len(m.segments), NEW out,
           out = Slice(m.bytes, 0, SoFar(m, k)), NEW from, from = EndOf(m, intact(m), k)
    PROVE  /\ out = m.bytes /\ from = Len(intact(m)) /\ HEADER_LENGTH + Len(out) <= from
<1>1. /\ IsMessageOf(contexts.ours, m) /\ IsWhole(intact(m), headers.ours, m)
      /\ k \in Nat \ {0} /\ m.bytes \in Seq(Nat)
      /\ Len(m.bytes) \in Nat /\ HEADER_LENGTH \in Nat /\ SEGMENT_OVERHEAD \in Nat
  BY IntactNumbers, MessageNumbers
<1>2. from = Len(intact(m)) /\ SoFar(m, k) = Len(m.bytes)
  BY DEF EndOf, SoFar
<1>3. out = m.bytes
  <2>1. PICK n \in Nat, bytes \in Seq(Nat) : bytes = m.bytes /\ n = Len(bytes)
    BY <1>1
  <2>2. 0 \in Nat /\ 0 + n <= Len(bytes)
    BY <2>1
  <2>3. PICK got : got = Slice(bytes, 0, n)
    OBVIOUS
  <2>4. got \in Seq(Nat) /\ Len(got) = n /\ \A i \in 1 .. n : got[i] = bytes[0 + i]
    BY <2>2, <2>3, SliceOf
  <2>5. ASSUME NEW i \in 1 .. Len(got) PROVE got[i] = bytes[i]
    <3>1. 0 + i = i
      OBVIOUS
    <3> QED BY <2>4, <3>1
  <2>6. got = bytes
    BY <2>1, <2>4, <2>5, EqualSeqs
  <2> QED BY <1>2, <2>1, <2>3, <2>6
<1>4. PICK i \in Nat : i + 1 = k
  <2>1. k - 1 \in Nat /\ (k - 1) + 1 = k
    BY <1>1
  <2> QED BY <2>1
<1>5. PICK e, g, x, p : /\ e = EndOf(m, intact(m), i) /\ g = SoFar(m, i)
                        /\ x = m.segments[k] /\ p = PayloadOf(m, k)
  OBVIOUS
<1>6. e \in Nat /\ g \in Nat /\ HEADER_LENGTH + g <= e
  BY <1>1, <1>4, <1>5, PlaintextIsShorter
<1>7. k \in 1 .. Len(m.segments)
  BY <1>1
<1>8. from = e + x.length /\ x.length \in Nat
  BY <1>1, <1>4, <1>5, <1>7, NextSegment
<1>9. Len(m.bytes) = g + Len(p) /\ Len(p) \in Nat
  BY <1>1, <1>2, <1>4, <1>5, <1>7, NextPayload
<1>10. x.length = SEGMENT_OVERHEAD + Len(p)
  <2>1. PICK j \in 1 .. Len(m.segments) : j = k
    BY <1>7
  <2>2. x = m.segments[j] /\ p = PayloadOf(m, j)
    BY <1>5, <2>1
  <2>3. x.length = SEGMENT_OVERHEAD + Len(PayloadOf(m, j))
    BY <2>2, OurKeys, SMTT(30)
  <2> QED BY <2>2, <2>3
<1> QED BY <1>1, <1>2, <1>3, <1>6, <1>8, <1>9, <1>10

(* finish accepts exactly a decryptor that has opened a final segment. *)
LEMMA FinishForm ==
    ASSUME NEW keys, NEW k
    PROVE  finish(DecryptorAt(keys, k)) = "Truncated" /\ finish(ClosedAt(keys, k)) = "Ok"
<1>1. ASSUME NEW closed, NEW d, d = [keys |-> keys, counter |-> [next |-> k, closed |-> closed]]
      PROVE  d.counter.closed = closed
  BY <1>1
<1>2. ~DecryptorAt(keys, k).counter.closed
  BY <1>1 DEF DecryptorAt
<1>3. ClosedAt(keys, k).counter.closed
  BY <1>1 DEF ClosedAt
<1> QED BY <1>2, <1>3 DEF finish

(* The body is empty. *)
LEMMA DecryptReturns ==
    ASSUME OneShotInv, decrypt_returns
    PROVE  OneShotInv'
<1>1. message \in Seq(Nat) /\ phase = "decrypting" /\ Decryption
  BY DEF OneShotInv, Encryption, Decryption, Decrypted, decrypt_returns
<1>2. /\ message' = message /\ sealed' = sealed /\ given' = given /\ plaintext' = plaintext
      /\ body' = body /\ decryptor' = decryptor /\ phase' = "done" /\ faulted' = faulted
      /\ rest = 0
  BY DEF decrypt_returns, encVars, decVars
<1>3. PICK m : m = encrypted
  OBVIOUS
<1>4. encrypted' = m
  BY <1>2, <1>3 DEF encrypted
<1>5. /\ IsMessage(m) /\ m.bytes = message /\ Len(given) \in Nat
      /\ given \in Seq(BytesOf(Items(m)) \cup {junk[1]})
  BY <1>1, <1>3, WholeIsMessage DEF Decryption
<1>6. PICK d : d \in decryptor /\ succeeded' = (finish(d.decryptor) = "Ok")
  BY DEF decrypt_returns, message_ended
<1>7. HEADER_LENGTH \in Nat \ {0}
  BY ParametersAssumption
<1>8. CASE ReadsOurs(m, given, body, decryptor, plaintext)
  <2>1. PICK k, keys, before :
          /\ k \in 0 .. Len(m.segments) /\ LabelledCache(keys, contexts.ours)
          /\ decryptor = Some([context |-> contexts.ours, decryptor |-> before])
          /\ body = EndOf(m, intact(m), k) /\ SameBytes(given, 0, intact(m), body)
          /\ plaintext = Slice(m.bytes, 0, SoFar(m, k))
          /\ \/ k < Len(m.segments) /\ before = DecryptorAt(keys, k)
             \/ k = Len(m.segments) /\ before = ClosedAt(keys, k - 1) /\ body = Len(given)
    BY <1>8 DEF ReadsOurs
  <2>2. d.decryptor = before
    BY <1>6, <2>1 DEF Some
  <2>3. CASE k < Len(m.segments)
    <3>1. /\ plaintext \in Seq(Nat) /\ body \in Nat /\ body > 0
          /\ HEADER_LENGTH + Len(plaintext) <= body /\ body < Len(intact(m))
      BY <1>5, <2>1, <2>3, ReadSoFar
    <3>2. before = DecryptorAt(keys, k)
      BY <2>1, <2>3
    <3>3. ~succeeded'
      BY <1>6, <2>2, <3>2, FinishForm
    <3>4. body = Len(given)
      BY <1>2, <1>5, <3>1 DEF rest
    <3>5. given # intact(m)
      BY <1>5, <3>1, <3>4
    <3>6. Len(plaintext) <= Len(given) - HEADER_LENGTH
      BY <1>5, <1>7, <3>1, <3>4
    <3>7. Decrypted'
      BY <1>2, <1>4, <3>1, <3>3, <3>5, <3>6 DEF Decrypted
    <3> QED BY <1>1, <1>2, <3>7 DEF OneShotInv
  <2>4. CASE k = Len(m.segments)
    <3>1. /\ plaintext = m.bytes /\ body = Len(intact(m)) /\ HEADER_LENGTH + Len(plaintext) <= body
      BY <1>5, <2>1, <2>4, ReadAll
    <3>2. body = Len(given) /\ before = ClosedAt(keys, k - 1)
      <4>1. ~(k < Len(m.segments))
        BY <1>5, <2>4, IntactNumbers
      <4> QED BY <2>1, <4>1
    <3>3. succeeded'
      BY <1>6, <2>2, <3>2, FinishForm
    <3>4. given = intact(m)
      <4>1. PICK C : intact(m) \in Seq(C)
        BY <1>5, IntactNumbers
      <4>2. ASSUME NEW i \in 1 .. Len(given) PROVE given[i] = intact(m)[i]
        <5>1. 0 + i = i
          OBVIOUS
        <5>2. given[0 + i] = intact(m)[i]
          BY <2>1, <3>2 DEF SameBytes
        <5> QED BY <5>1, <5>2
      <4> QED BY <1>5, <3>1, <3>2, <4>1, <4>2, EqualSeqs
    <3>5. Len(plaintext) \in Nat
      BY <1>1, <1>5, <3>1
    <3>6. body > 0 /\ Len(plaintext) <= Len(given) - HEADER_LENGTH
      BY <1>5, <1>7, <3>1, <3>2, <3>5
    <3>7. Decrypted'
      BY <1>2, <1>4, <1>5, <3>1, <3>3, <3>4, <3>6 DEF Decrypted
    <3> QED BY <1>1, <1>2, <3>7 DEF OneShotInv
  <2> QED BY <2>1, <2>3, <2>4
<1>9. CASE ReadsOther(m, given, body, decryptor, plaintext)
  <2>1. PICK keys :
          /\ decryptor = Some([context |-> contexts.other, decryptor |-> DecryptorAt(keys, 0)])
          /\ body = HEADER_LENGTH /\ HEADER_LENGTH <= Len(given) /\ plaintext = <<>>
          /\ given # intact(m)
    BY <1>9 DEF ReadsOther
  <2>2. d.decryptor = DecryptorAt(keys, 0)
    BY <1>6, <2>1 DEF Some
  <2>3. ~succeeded'
    BY <1>6, <2>2, FinishForm
  <2>4. body > 0 /\ Len(plaintext) <= Len(given) - HEADER_LENGTH
    BY <1>5, <1>7, <2>1
  <2>5. Decrypted'
    BY <1>2, <1>4, <2>1, <2>3, <2>4 DEF Decrypted
  <2> QED BY <1>1, <1>2, <2>5 DEF OneShotInv
<1> QED BY <1>1, <1>3, <1>8, <1>9 DEF Decryption

-----------------------------------------------------------------------------
(* The one-shot functions: the theorems. *)

LEMMA OneShotStarts == InitOneShot => OneShotInv
<1> SUFFICES ASSUME InitOneShot PROVE OneShotInv
  OBVIOUS
<1>1. PICK n \in Lengths : message = [i \in 1 .. n |-> i]
  BY DEF InitOneShot
<1>2. n \in Nat
  BY CiphertextsAssumption
<1>3. message \in Seq(Nat)
  BY <1>1, <1>2
<1> QED BY <1>3 DEF InitOneShot, OneShotInv, Encryption

LEMMA OneShotKeeps == OneShotInv /\ [NextOneShot]_oneShotVars => OneShotInv'
<1> SUFFICES ASSUME OneShotInv, [NextOneShot]_oneShotVars PROVE OneShotInv'
  OBVIOUS
<1>1. CASE \E fault \in {"none", "rng", "kdf"} : encrypt(fault)
  BY <1>1, EncryptBegins
<1>2. CASE \E fault \in Faults : encrypt_body_segment(fault)
  BY <1>2, EncryptStep
<1>3. CASE encrypt_returns
  BY <1>3, EncryptReturns
<1>4. CASE \E bytes \in Held(encrypted), fault \in {"none", "kdf"},
              parameters \in {None, Some(SegmentLength), Some(SegmentLength + 1)} :
              decrypt(bytes, parameters, fault)
  BY <1>4, DecryptBegins
<1>5. CASE \E fault \in DecryptFaults : decrypt_body_segment(fault)
  BY <1>5, DecryptStep
<1>6. CASE decrypt_returns
  BY <1>6, DecryptReturns
<1>7. CASE UNCHANGED oneShotVars
  BY <1>7 DEF oneShotVars, OneShotInv, Encryption, Encrypting, EncryptorLeft, WholeMessage,
      HasLayout, SealedSoFar, SealsChunk, Chunk, Count, Decryption, Decrypted, encrypted
<1> QED BY <1>1, <1>2, <1>3, <1>4, <1>5, <1>6, <1>7 DEF NextOneShot

(* Invariant of the one-shot functions, for every format and message: what *)
(* encrypt has sealed are the first chunks of the message, and what        *)
(* decrypt has opened are the first segments of what encrypt returned.     *)
THEOREM OneShotInvariant == SpecOneShot => []OneShotInv
<1>1. InitOneShot => OneShotInv
  BY OneShotStarts
<1>2. OneShotInv /\ [NextOneShot]_oneShotVars => OneShotInv'
  BY OneShotKeeps
<1> QED BY <1>1, <1>2, PTL DEF SpecOneShot

(* encrypt returns all of the message, chunk by chunk and with one final   *)
(* segment at its end, or fails for a cause; it has its encryptor while a  *)
(* segment is left, so that neither expect of encrypt_body can panic.      *)
THEOREM EncryptIsWhole == SpecOneShot => []EncryptsTheWholeMessage
<1>1. OneShotInv => EncryptsTheWholeMessage
  BY InvEncrypts
<1> QED BY <1>1, OneShotInvariant, PTL

(* decrypt returns the message for exactly what encrypt returned, and an   *)
(* error for whatever else storage made of it.                             *)
THEOREM DecryptIsExact == SpecOneShot => []DecryptsExactly
<1>1. OneShotInv => DecryptsExactly
  <2> SUFFICES ASSUME OneShotInv, phase = "done", body > 0 PROVE Decrypted
    BY DEF Decrypted, DecryptsExactly
  <2>1. ~(body = 0)
    OBVIOUS
  <2> QED BY <2>1 DEF OneShotInv, Encryption, Decryption
<1> QED BY <1>1, OneShotInvariant, PTL

(* The vector of decrypt_body never grows beyond what was reserved for it. *)
THEOREM ReservationSuffices == SpecOneShot => []NeverReallocates
<1>1. OneShotInv => NeverReallocates
  <2> SUFFICES ASSUME OneShotInv, decryptor # None
               PROVE  Len(plaintext) <= Len(given) - HEADER_LENGTH
    BY DEF NeverReallocates
  <2>1. HEADER_LENGTH \in Nat
    BY ParametersAssumption
  <2>2. PICK m : m = encrypted
    OBVIOUS
  <2>3. CASE Decrypted
    BY <2>3 DEF Decrypted
  <2>4. CASE Decryption
    <3>1. IsMessage(m) /\ Len(given) \in Nat
      BY <2>2, <2>4, WholeIsMessage DEF Decryption, OneShotInv
    <3>2. CASE ReadsOurs(m, given, body, decryptor, plaintext)
      <4>1. PICK k : /\ k \in 0 .. Len(m.segments)
                     /\ body = EndOf(m, intact(m), k) /\ SameBytes(given, 0, intact(m), body)
                     /\ plaintext = Slice(m.bytes, 0, SoFar(m, k))
        BY <3>2 DEF ReadsOurs
      <4>2. Len(m.segments) \in Nat /\ Len(intact(m)) \in Nat /\ m.bytes \in Seq(Nat)
        BY <3>1, IntactNumbers, MessageNumbers
      <4>3. body \in Nat /\ Len(plaintext) \in Nat /\ HEADER_LENGTH + Len(plaintext) <= body
        <5>1. CASE k < Len(m.segments)
          BY <3>1, <4>1, <4>2, <5>1, ReadSoFar
        <5>2. CASE k = Len(m.segments)
          BY <3>1, <4>1, <4>2, <5>2, ReadAll
        <5> QED BY <4>1, <4>2, <5>1, <5>2
      <4>4. body <= Len(given)
        <5>1. 0 + body <= Len(given)
          BY <4>1 DEF SameBytes
        <5> QED BY <4>3, <5>1
      <4> QED BY <2>1, <3>1, <4>3, <4>4
    <3>3. CASE ReadsOther(m, given, body, decryptor, plaintext)
      <4>1. HEADER_LENGTH <= Len(given) /\ plaintext = <<>>
        BY <3>3 DEF ReadsOther
      <4> QED BY <2>1, <3>1, <4>1
    <3> QED BY <2>2, <2>4, <3>2, <3>3 DEF Decryption
  <2> QED BY <2>3, <2>4 DEF OneShotInv, Encryption
<1> QED BY <1>1, OneShotInvariant, PTL

=============================================================================
