----------------------- MODULE RandomAccessReaderProofs -----------------------
(***************************************************************************)
(* Proofs about RandomAccessReader, for every format and every message,    *)
(* whatever was made of its ciphertext and whatever failed.                *)
(***************************************************************************)
EXTENDS RandomAccessReader, CiphertextProofs

-----------------------------------------------------------------------------
(* The source. *)

(* A reader starts at the message, in a source made of its items. *)
LEMMA InitialSource ==
    ASSUME Init
    PROVE  IsMessage(sent) /\ at \in Nat /\ GoodSource(source, at, sent)
<1>1. IsMessage(sent)
  BY MessagesForm, RandomAccessReaderAssumption DEF Init
<1>2. PICK start \in Starts :
        /\ at = start
        /\ \/ start = 0 /\ source \in Held(sent)
           \/ source \in {padding(start) \o intact(sent), padding(start) \o intact(sent) \o junk}
  BY DEF Init
<1>3. start \in Nat
  BY RandomAccessReaderAssumption
<1>4. CASE start = 0 /\ source \in Held(sent)
  BY <1>1, <1>2, <1>4, HeldSources
<1>5. CASE source \in {padding(start) \o intact(sent), padding(start) \o intact(sent) \o junk}
  <2> DEFINE I == {headers.ours} \cup OurSegments(sent)
             B == BytesOf(NoForeignHeader(sent)) \cup {junk[1]}
  <2>1. I \subseteq NoForeignHeader(sent) /\ intact(sent) \in Seq(BytesOf(I))
    BY <1>1, MoreItems, IntactForm
  <2>2. intact(sent) \in Seq(B)
    <3> HIDE DEF I
    <3> QED BY <2>1, MoreBytes
  <2>3. junk \in Seq(B)
    BY JunkForm, SeqMonotonic
  <2>4. padding(start) \in Seq(B)
    <3>1. PICK x : x = junk[1]
      OBVIOUS
    <3>2. [i \in 1 .. start |-> x] \in Seq({x})
      BY <1>3
    <3>3. padding(start) \in Seq({x})
      BY <3>1, <3>2 DEF padding
    <3> QED BY <3>1, <3>3, SeqMonotonic
  <2> HIDE DEF B
  <2>5. padding(start) \o intact(sent) \in Seq(B)
    BY <2>2, <2>4, ConcatProperties
  <2>6. padding(start) \o intact(sent) \o junk \in Seq(B)
    BY <2>3, <2>5, ConcatProperties
  <2>7. source \in Seq(B)
    BY <1>5, <2>5, <2>6
  <2> QED BY <1>1, <1>2, <1>3, <2>7, HonestHeader DEF B
<1> QED BY <1>1, <1>2, <1>3, <1>4, <1>5
-----------------------------------------------------------------------------
(* Reaching a segment. *)

(* read_exact_segment finds the segment in the next bytes, or fails. *)
ReadsExactly(g, src, pos, length, budget) ==
    /\ g.at \in Nat
    /\ g.ok => /\ pos + length <= Len(src) /\ g.at = pos + length
               /\ g.segment = segment_in(Slice(src, pos, length))
    /\ pos + length <= Len(src) /\ budget >= length => g.ok

(* read_exact_segment returns the bytes it was asked for, or fails. *)
LEMMA ReadExact ==
    ASSUME NEW src, Len(src) \in Nat, NEW pos \in Nat, NEW length \in Nat \ {0},
           NEW budget \in Nat, NEW g, g = read_exact_segment(src, pos, length, budget)
    PROVE  ReadsExactly(g, src, pos, length, budget)
<1> DEFINE available == IF pos < Len(src) THEN Len(src) - pos ELSE 0
<1>1. PICK r : r = read_fully(src, pos, length, budget)
  OBVIOUS
<1>2. /\ g.ok <=> r.ok /\ r.got = length
      /\ g.at = pos + r.got /\ g.segment = segment_in(Slice(src, pos, r.got))
  <2>1. g = [ok |-> r.ok /\ r.got = length, at |-> pos + r.got,
             segment |-> segment_in(Slice(src, pos, r.got))]
    BY <1>1 DEF read_exact_segment
  <2>2. g.at = pos + r.got /\ g.segment = segment_in(Slice(src, pos, r.got))
    BY <2>1
  <2>3. PICK e, a, x : /\ e = (r.ok /\ r.got = length) /\ a = pos + r.got
                       /\ x = segment_in(Slice(src, pos, r.got))
    OBVIOUS
  <2>4. g = [ok |-> e, at |-> a, segment |-> x]
    BY <2>1, <2>3, Zenon
  <2>5. g.ok = e
    BY <2>4
  <2> QED BY <2>2, <2>3, <2>5, Zenon
<1>3. available \in Nat
  OBVIOUS
<1>4. CASE budget < length /\ budget <= available
  <2>1. r = [ok |-> FALSE, got |-> budget]
    BY <1>1, <1>4 DEF read_fully
  <2>2. ~r.ok /\ r.got = budget
    BY <2>1
  <2>3. ~g.ok /\ g.at = pos + budget
    BY <1>2, <2>2
  <2> QED BY <1>4, <2>3 DEF ReadsExactly
<1>5. CASE ~(budget < length /\ budget <= available)
  <2>1. r = [ok |-> TRUE, got |-> least(length, available)]
    BY <1>1, <1>5 DEF read_fully
  <2>2. PICK n \in Nat : n = least(length, available)
    BY <1>3 DEF least
  <2>3. r.ok /\ r.got = n
    BY <2>1, <2>2
  <2>4. /\ g.ok <=> n = length
        /\ g.at = pos + n /\ g.segment = segment_in(Slice(src, pos, n))
    BY <1>2, <2>3
  <2>5. n = length <=> pos + length <= Len(src)
    BY <2>2 DEF least
  <2> QED BY <2>4, <2>5 DEF ReadsExactly
<1> QED BY <1>4, <1>5

ReaderRecord(c, k, y, s, b, p, cached, inner) ==
    [context |-> c, keys |-> k, layout |-> y, message_start |-> s, scratch |-> b,
     plaintext_position |-> p, cached_position |-> cached, inner_position |-> inner]

(* The fields of a Reader. *)
LEMMA ReaderFields ==
    ASSUME NEW c, NEW k, NEW y, NEW s, NEW b, NEW p, NEW cached, NEW inner, NEW r,
           r = ReaderRecord(c, k, y, s, b, p, cached, inner)
    PROVE  /\ r.context = c /\ r.keys = k /\ r.layout = y /\ r.message_start = s
           /\ r.scratch = b /\ r.plaintext_position = p /\ r.cached_position = cached
           /\ r.inner_position = inner
BY DEF ReaderRecord

(* Setting a field of a Reader. *)
LEMMA ReaderUpdates ==
    ASSUME NEW c, NEW k, NEW y, NEW s, NEW b, NEW p, NEW cached, NEW inner, NEW x, NEW r,
           r = ReaderRecord(c, k, y, s, b, p, cached, inner)
    PROVE  /\ [r EXCEPT !.inner_position = x] = ReaderRecord(c, k, y, s, b, p, cached, x)
           /\ [r EXCEPT !.cached_position = x] = ReaderRecord(c, k, y, s, b, p, x, inner)
           /\ [r EXCEPT !.plaintext_position = x] = ReaderRecord(c, k, y, s, b, x, cached, inner)
           /\ [r EXCEPT !.keys = x] = ReaderRecord(c, x, y, s, b, p, cached, inner)
<1>1. [r EXCEPT !.inner_position = x] = ReaderRecord(c, k, y, s, b, p, cached, x)
  BY DEF ReaderRecord
<1>2. [r EXCEPT !.cached_position = x] = ReaderRecord(c, k, y, s, b, p, x, inner)
  BY DEF ReaderRecord
<1>3. [r EXCEPT !.plaintext_position = x] = ReaderRecord(c, k, y, s, b, x, cached, inner)
  BY DEF ReaderRecord
<1>4. [r EXCEPT !.keys = x] = ReaderRecord(c, x, y, s, b, p, cached, inner)
  BY DEF ReaderRecord
<1> QED BY <1>1, <1>2, <1>3, <1>4

(* Where a seek leaves the wrapped reader, and what the Reader believes. *)
Sought(q, c, k, y, s, b, p, offset) ==
    \E inner : /\ q.reader = ReaderRecord(c, k, y, s, b, p, None, inner)
               /\ q.at \in Nat /\ inner \in {None, Some(q.at)}
               /\ q.ok => q.at = s + offset /\ inner = Some(q.at) /\ fits_u64(s + offset)

(* seek_to_segment ends where it says, or tracks no position. *)
LEMMA SeekForm ==
    ASSUME NEW c, NEW k, NEW y, NEW s \in Nat, NEW b, NEW p, NEW inner, at \in Nat,
           inner \in {None, Some(at)}, NEW r, r = ReaderRecord(c, k, y, s, b, p, None, inner),
           NEW segment, NEW offset \in Nat, segment.ciphertext_offset = offset,
           NEW outcome, NEW q, q = seek_to_segment(r, segment, outcome)
    PROVE  /\ Sought(q, c, k, y, s, b, p, offset)
           /\ outcome = "ok" /\ fits_u64(s + offset) => q.ok
<1>1. r.message_start = s /\ r.inner_position = inner
  BY DEF ReaderRecord
<1>2. checked_add(r.message_start, segment.ciphertext_offset)
        = IF fits_u64(s + offset) THEN Some(s + offset) ELSE None
  BY <1>1 DEF checked_add
<1>3. PICK o \in Nat : o = s + offset
  OBVIOUS
<1>4. CASE ~fits_u64(s + offset)
  <2>1. q = Reached(r, at, FALSE, <<>>)
    BY <1>2, <1>4 DEF seek_to_segment
  <2>2. q.reader = r /\ q.at = at /\ ~q.ok
    BY <2>1 DEF Reached
  <2> QED BY <1>4, <2>2 DEF Sought
<1>5. CASE fits_u64(s + offset)
  <2>1. q = seek_inner_to(r, o, outcome)
    <3>1. checked_add(r.message_start, segment.ciphertext_offset) = Some(o)
      BY <1>2, <1>3, <1>5
    <3>2. PICK w : w = checked_add(r.message_start, segment.ciphertext_offset)
      OBVIOUS
    <3>3. (CHOOSE z \in w : TRUE) = o /\ w # None
      BY <3>1, <3>2, ChooseSome
    <3> QED BY <3>2, <3>3 DEF seek_to_segment
  <2>2. CASE inner = Some(o)
    <3>1. q = Reached(r, at, TRUE, <<>>)
      BY <1>1, <2>1, <2>2 DEF seek_inner_to
    <3>2. q.reader = r /\ q.at = at /\ q.ok
      BY <3>1 DEF Reached
    <3>3. at = o
      BY <2>2 DEF Some, None
    <3> QED BY <1>3, <1>5, <2>2, <3>2, <3>3 DEF Sought
  <2>3. CASE inner # Some(o) /\ outcome = "ok"
    <3>1. q = Reached([r EXCEPT !.inner_position = Some(o)], o, TRUE, <<>>)
      BY <1>1, <2>1, <2>3 DEF seek_inner_to
    <3>2. [r EXCEPT !.inner_position = Some(o)] = ReaderRecord(c, k, y, s, b, p, None, Some(o))
      <4>1. PICK w, none : w = Some(o) /\ none = None
        OBVIOUS
      <4>2. [r EXCEPT !.inner_position = w] = ReaderRecord(c, k, y, s, b, p, none, w)
        BY <4>1, ReaderUpdates
      <4> QED BY <4>1, <4>2, Zenon
    <3>3. q.reader = ReaderRecord(c, k, y, s, b, p, None, Some(o)) /\ q.at = o /\ q.ok
      BY <3>1, <3>2 DEF Reached
    <3> QED BY <1>3, <1>5, <3>3 DEF Sought
  <2>4. CASE inner # Some(o) /\ outcome # "ok"
    <3>1. PICK t : t = IF outcome = "stays" THEN at ELSE o
      OBVIOUS
    <3>2. q = Reached([r EXCEPT !.inner_position = None], t, FALSE, <<>>)
      BY <1>1, <2>1, <2>4, <3>1 DEF seek_inner_to
    <3>3. [r EXCEPT !.inner_position = None] = ReaderRecord(c, k, y, s, b, p, None, None)
      <4>1. PICK none : none = None
        OBVIOUS
      <4>2. [r EXCEPT !.inner_position = none] = ReaderRecord(c, k, y, s, b, p, none, none)
        BY <4>1, ReaderUpdates
      <4> QED BY <4>1, <4>2, Zenon
    <3>4. q.reader = ReaderRecord(c, k, y, s, b, p, None, None) /\ q.at = t /\ ~q.ok
      BY <3>2, <3>3 DEF Reached
    <3>5. t \in Nat
      BY <3>1
    <3> QED BY <2>4, <3>4, <3>5 DEF Sought
  <2> QED BY <2>2, <2>3, <2>4
<1> QED BY <1>4, <1>5

(* What the segment's bytes were read into, and where that leaves both. *)
Fetched(f, c, k, y, s, b, p, offset, length) ==
    \E b2, inner :
        /\ f.reader = ReaderRecord(c, k, y, s, b2, p, None, inner)
        /\ IsBuffer(b2) /\ b2.parameters = b.parameters
        /\ f.at \in Nat /\ inner \in {None, Some(f.at)}
        /\ f.ok => /\ fits_u64(s + offset) /\ s + offset + length <= Len(source)
                   /\ b2.segment = Some(FilledSegment(Slice(source, s + offset, length)))

(* The tracked position after a read is the true one, or none. *)
LEMMA PositionAfterRead ==
    ASSUME NEW pos \in Nat, NEW length \in Nat, NEW ok, NEW to, ok => to = pos + length
    PROVE  position_after_read(Some(pos), length, ok) \in {None, Some(to)}
<1>1. UNION {checked_add(p, length) : p \in Some(pos)} = checked_add(pos, length)
  BY DEF Some
<1> QED BY <1>1 DEF position_after_read, checked_add

(* fetch_segment_ciphertext leaves no cached segment behind. *)
LEMMA FetchForm ==
    ASSUME NEW S, source \in Seq(S), at \in Nat,
           NEW c, NEW k, NEW y, NEW s \in Nat, NEW b, IsBuffer(b), NEW p, NEW cached, NEW inner,
           inner \in {None, Some(at)}, NEW r, r = ReaderRecord(c, k, y, s, b, p, cached, inner),
           NEW segment, NEW offset \in Nat, segment.ciphertext_offset = offset,
           NEW length \in Nat \ {0}, segment.ciphertext_length = length,
           NEW trouble, trouble.budget \in Nat,
           NEW f, f = fetch_segment_ciphertext(r, segment, trouble)
    PROVE  /\ Fetched(f, c, k, y, s, b, p, offset, length)
           /\ /\ trouble.seek = "ok" /\ fits_u64(s + offset)
              /\ s + offset + length <= Len(source) /\ trouble.budget >= length
              => f.ok
<1>1. PICK u : u = uncached(r)
  OBVIOUS
<1>2. u = ReaderRecord(c, k, y, s, b, p, None, inner)
  <2>1. PICK none : none = None
    OBVIOUS
  <2>2. [r EXCEPT !.cached_position = none] = ReaderRecord(c, k, y, s, b, p, none, inner)
    BY DEF ReaderRecord
  <2> QED BY <1>1, <2>1, <2>2, Zenon DEF uncached
<1>3. PICK q : q = seek_to_segment(u, segment, trouble.seek)
  OBVIOUS
<1>4. /\ Sought(q, c, k, y, s, b, p, offset)
      /\ trouble.seek = "ok" /\ fits_u64(s + offset) => q.ok
  BY <1>2, <1>3, SeekForm
<1>5. PICK i1 : /\ q.reader = ReaderRecord(c, k, y, s, b, p, None, i1)
                /\ q.at \in Nat /\ i1 \in {None, Some(q.at)}
                /\ q.ok => q.at = s + offset /\ i1 = Some(q.at) /\ fits_u64(s + offset)
  BY <1>4 DEF Sought
<1>6. CASE ~q.ok
  <2>1. f = q
    BY <1>1, <1>3, <1>6 DEF fetch_segment_ciphertext
  <2> QED BY <1>4, <1>5, <1>6, <2>1 DEF Fetched
<1>7. CASE q.ok
  <2>1. PICK g : g = read_exact_segment(source, q.at, length, trouble.budget)
    OBVIOUS
  <2>2. PICK pos \in Nat : pos = q.at
    BY <1>5
  <2>3. ReadsExactly(g, source, pos, length, trouble.budget)
    BY <2>1, <2>2, ReadExact, LenProperties
  <2>4. PICK x : x = [g.segment EXCEPT !.length = length]
    OBVIOUS
  <2>5. PICK i2 : i2 = position_after_read(i1, length, g.ok)
    OBVIOUS
  <2>6. PICK b2 : b2 = prepare_ciphertext(b, x)
    OBVIOUS
  <2>7. f = Reached([q.reader EXCEPT
                       !.inner_position = position_after_read(@, length, g.ok),
                       !.scratch = prepare_ciphertext(@, x)], g.at, g.ok, <<>>)
    BY <1>1, <1>3, <1>7, <2>1, <2>4, Zenon DEF fetch_segment_ciphertext
  <2>8. [q.reader EXCEPT !.inner_position = position_after_read(@, length, g.ok),
                         !.scratch = prepare_ciphertext(@, x)]
          = ReaderRecord(c, k, y, s, b2, p, None, i2)
    <3>1. PICK none : none = None
      OBVIOUS
    <3>2. q.reader = ReaderRecord(c, k, y, s, b, p, none, i1)
      BY <1>5, <3>1
    <3>3. PICK w : w = q.reader
      OBVIOUS
    <3>4. w.inner_position = i1 /\ w.scratch = b
      BY <3>2, <3>3, ReaderFields
    <3>5. [w EXCEPT !.inner_position = i2, !.scratch = b2]
            = ReaderRecord(c, k, y, s, b2, p, none, i2)
      <4>1. [w EXCEPT !.inner_position = i2] = ReaderRecord(c, k, y, s, b, p, none, i2)
        BY <3>2, <3>3, ReaderUpdates
      <4>2. [ReaderRecord(c, k, y, s, b, p, none, i2) EXCEPT !.scratch = b2]
              = ReaderRecord(c, k, y, s, b2, p, none, i2)
        BY DEF ReaderRecord
      <4>3. [w EXCEPT !.inner_position = i2, !.scratch = b2]
              = [[w EXCEPT !.inner_position = i2] EXCEPT !.scratch = b2]
        OBVIOUS
      <4> QED BY <4>1, <4>2, <4>3
    <3>6. [w EXCEPT !.inner_position = position_after_read(@, length, g.ok),
                    !.scratch = prepare_ciphertext(@, x)]
            = [w EXCEPT !.inner_position = i2, !.scratch = b2]
      BY <2>5, <2>6, <3>4
    <3> QED BY <3>1, <3>3, <3>5, <3>6
  <2>9. f.reader = ReaderRecord(c, k, y, s, b2, p, None, i2) /\ f.at = g.at /\ f.ok = g.ok
    BY <2>7, <2>8 DEF Reached
  <2>10. f.ok <=> g.ok
    BY <2>9, Zenon
  <2>11. b2 = Buffer(b.parameters, "Ciphertext", <<>>, Some(x))
    BY <2>6, BufferOperations
  <2>12. IsBuffer(b2) /\ b2.parameters = b.parameters /\ b2.segment = Some(x)
    BY <2>11, BufferFields
  <2>13. i2 \in {None, Some(f.at)}
    <3>1. g.ok => g.at = pos + length
      BY <2>3 DEF ReadsExactly
    <3>2. PICK to : to = g.at
      OBVIOUS
    <3>3. position_after_read(Some(pos), length, g.ok) \in {None, Some(to)}
      BY <3>1, <3>2, PositionAfterRead
    <3>4. i1 = Some(pos)
      BY <1>5, <1>7, <2>2
    <3> QED BY <2>5, <2>9, <3>2, <3>3, <3>4
  <2>14. pos = s + offset /\ fits_u64(s + offset)
    BY <1>5, <1>7, <2>2
  <2>15. ASSUME g.ok
         PROVE  /\ s + offset + length <= Len(source)
                /\ x = FilledSegment(Slice(source, s + offset, length))
    <3>1. pos + length <= Len(source) /\ g.segment = segment_in(Slice(source, pos, length))
      BY <2>3, <2>15 DEF ReadsExactly
    <3>2. Len(Slice(source, pos, length)) = length
      BY <3>1, SliceOf
    <3>3. x = FilledSegment(Slice(source, pos, length))
      BY <2>4, <3>1, <3>2, Zenon DEF FilledSegment
    <3> QED BY <2>14, <3>1, <3>3
  <2>16. f.at \in Nat
    BY <2>3, <2>9 DEF ReadsExactly
  <2>17. Fetched(f, c, k, y, s, b, p, offset, length)
    BY <2>9, <2>10, <2>12, <2>13, <2>14, <2>15, <2>16 DEF Fetched
  <2>18. s + offset + length <= Len(source) /\ trouble.budget >= length => f.ok
    BY <2>3, <2>10, <2>14 DEF ReadsExactly
  <2> QED BY <2>17, <2>18
<1> QED BY <1>6, <1>7

-----------------------------------------------------------------------------
(* Opening a segment. *)

(* What is opened at a place of the source. *)
OpeningAt(k, c, place, length, i, kind, fault) ==
    decrypt_segment_at(k, c, FilledSegment(Slice(source, place, length)), i, kind, TRUE, fault)

(* The step found its segment in the source and opened it. *)
OpenedThere(o, k, c, place, length, i, kind, fault) ==
    /\ o = OpeningAt(k, c, place, length, i, kind, fault) /\ o.ok
    /\ fits_u64(place) /\ place + length <= Len(source)

(* load_segment leaves the opened segment in the scratch buffer, or        *)
(* nothing in the cache.                                                   *)
Loaded(l, c, k, y, s, b, p, i, kind, offset, length, fault) ==
    \E k2, b2, cached, inner :
        /\ l.reader = ReaderRecord(c, k2, y, s, b2, p, cached, inner)
        /\ LabelledCache(k2, c) /\ IsBuffer(b2) /\ b2.parameters = b.parameters
        /\ l.at \in Nat /\ inner \in {None, Some(l.at)}
        /\ ~l.ok => cached = None
        /\ l.ok => /\ cached = Some(i)
                   /\ \E o : /\ OpenedThere(o, k, c, s + offset, length, i, kind, fault)
                             /\ holds_plaintext(b2) /\ b2.payload = o.plaintext.data

(* decrypt_segment_direct returns it and leaves nothing in the cache. *)
Direct(l, c, k, y, s, b, p, i, kind, offset, length, fault) ==
    \E k2, b2, inner :
        /\ l.reader = ReaderRecord(c, k2, y, s, b2, p, None, inner)
        /\ LabelledCache(k2, c) /\ IsBuffer(b2) /\ b2.parameters = b.parameters
        /\ l.at \in Nat /\ inner \in {None, Some(l.at)}
        /\ l.ok => \E o : /\ OpenedThere(o, k, c, s + offset, length, i, kind, fault)
                          /\ l.bytes = o.plaintext.data

(* Nothing is in the way. *)
Untroubled(trouble, s, offset, length, o) ==
    /\ trouble.seek = "ok" /\ fits_u64(s + offset)
    /\ s + offset + length <= Len(source) /\ trouble.budget >= length
    /\ o.ok

(* load_segment: only what opened is in the scratch buffer and named. *)
LEMMA LoadForm ==
    ASSUME NEW S, source \in Seq(S), at \in Nat,
           NEW c, NEW k, LabelledCache(k, c), NEW y, NEW s \in Nat, NEW b, IsBuffer(b), NEW p,
           NEW cached, NEW inner, inner \in {None, Some(at)},
           NEW r, r = ReaderRecord(c, k, y, s, b, p, cached, inner),
           NEW segment, NEW offset \in Nat, segment.ciphertext_offset = offset,
           NEW length \in Nat \ {0}, segment.ciphertext_length = length,
           NEW i \in Nat, segment.position = i, NEW kind, segment.kind = kind,
           NEW trouble, trouble.budget \in Nat, NEW fault, trouble.fault = fault,
           NEW l, l = load_segment(r, segment, trouble)
    PROVE  /\ Loaded(l, c, k, y, s, b, p, i, kind, offset, length, fault)
           /\ Untroubled(trouble, s, offset, length,
                         OpeningAt(k, c, s + offset, length, i, kind, fault)) => l.ok
<1>1. PICK f : f = fetch_segment_ciphertext(r, segment, trouble)
  OBVIOUS
<1>2. /\ Fetched(f, c, k, y, s, b, p, offset, length)
      /\ /\ trouble.seek = "ok" /\ fits_u64(s + offset)
         /\ s + offset + length <= Len(source) /\ trouble.budget >= length
         => f.ok
  BY <1>1, FetchForm
<1>3. PICK b1, i1 :
        /\ f.reader = ReaderRecord(c, k, y, s, b1, p, None, i1)
        /\ IsBuffer(b1) /\ b1.parameters = b.parameters
        /\ f.at \in Nat /\ i1 \in {None, Some(f.at)}
        /\ f.ok => /\ fits_u64(s + offset) /\ s + offset + length <= Len(source)
                   /\ b1.segment = Some(FilledSegment(Slice(source, s + offset, length)))
  BY <1>2 DEF Fetched
<1>4. CASE ~f.ok
  <2>1. l = f
    BY <1>1, <1>4 DEF load_segment
  <2> QED BY <1>2, <1>3, <1>4, <2>1 DEF Loaded, Untroubled
<1>5. CASE f.ok
  <2>1. PICK o : o = opening(f.reader, segment, fault)
    OBVIOUS
  <2>2. f.reader.keys = k /\ f.reader.context = c /\ f.reader.scratch = b1
    BY <1>3, ReaderFields
  <2>3. o = OpeningAt(k, c, s + offset, length, i, kind, fault)
    <3>1. PICK x : x = FilledSegment(Slice(source, s + offset, length))
      OBVIOUS
    <3>2. b1.segment = Some(x)
      BY <1>3, <1>5, <3>1
    <3>3. (CHOOSE z \in b1.segment : TRUE) = x
      BY <3>2, ChooseSome
    <3>4. o = decrypt_segment_at(k, c, CHOOSE z \in b1.segment : TRUE, i, kind, TRUE, fault)
      BY <2>1, <2>2 DEF opening
    <3> QED BY <3>1, <3>3, <3>4 DEF OpeningAt
  <2>4. LabelledCache(o.state, c) /\ o.ok \in BOOLEAN
    BY <2>3, OpenedSegment DEF OpeningAt
  <2>5. PICK pt : pt = IF o.ok THEN Some(o.plaintext) ELSE None
    OBVIOUS
  <2>6. PICK k2, b2, c2, none : /\ k2 = o.state /\ b2 = decrypt_with(b1, pt) /\ none = None
                                /\ c2 = IF o.ok THEN Some(i) ELSE None
    OBVIOUS
  <2>7. l = Reached([f.reader EXCEPT
                       !.keys = o.state, !.scratch = decrypt_with(@, pt),
                       !.cached_position = IF o.ok THEN Some(i) ELSE @], f.at, o.ok, <<>>)
    BY <1>1, <1>5, <2>1, <2>5 DEF load_segment
  <2>8. [f.reader EXCEPT !.keys = o.state, !.scratch = decrypt_with(@, pt),
                         !.cached_position = IF o.ok THEN Some(i) ELSE @]
          = ReaderRecord(c, k2, y, s, b2, p, c2, i1)
    <3>1. PICK w : w = f.reader
      OBVIOUS
    <3>2. w = ReaderRecord(c, k, y, s, b1, p, none, i1)
      BY <1>3, <2>6, <3>1
    <3>3. w.scratch = b1 /\ w.cached_position = none
      BY <3>2, ReaderFields
    <3>4. [w EXCEPT !.keys = o.state, !.scratch = decrypt_with(@, pt),
                    !.cached_position = IF o.ok THEN Some(i) ELSE @]
            = [w EXCEPT !.keys = k2, !.scratch = b2, !.cached_position = c2]
      BY <2>6, <3>3
    <3>5. [w EXCEPT !.keys = k2] = ReaderRecord(c, k2, y, s, b1, p, none, i1)
      BY <3>2 DEF ReaderRecord
    <3>6. [ReaderRecord(c, k2, y, s, b1, p, none, i1) EXCEPT !.scratch = b2]
            = ReaderRecord(c, k2, y, s, b2, p, none, i1)
      BY DEF ReaderRecord
    <3>7. [ReaderRecord(c, k2, y, s, b2, p, none, i1) EXCEPT !.cached_position = c2]
            = ReaderRecord(c, k2, y, s, b2, p, c2, i1)
      BY DEF ReaderRecord
    <3>8. [w EXCEPT !.keys = k2, !.scratch = b2, !.cached_position = c2]
            = [[[w EXCEPT !.keys = k2] EXCEPT !.scratch = b2] EXCEPT !.cached_position = c2]
      OBVIOUS
    <3> QED BY <3>1, <3>4, <3>5, <3>6, <3>7, <3>8
  <2>9. l.reader = ReaderRecord(c, k2, y, s, b2, p, c2, i1) /\ l.at = f.at /\ l.ok = o.ok
    BY <2>7, <2>8 DEF Reached
  <2>10. l.ok <=> o.ok
    BY <2>9, Zenon
  <2>11. CASE o.ok
    <3>1. PICK plain : plain = o.plaintext
      OBVIOUS
    <3>2. pt = Some(plain) /\ c2 = Some(i)
      BY <2>5, <2>6, <2>11, <3>1
    <3>3. (CHOOSE z \in pt : TRUE) = plain /\ pt # None
      BY <3>2, ChooseSome
    <3>4. b2 = prepare_plaintext(b1, plain.data)
      BY <2>6, <3>3 DEF decrypt_with
    <3>5. PICK data : data = plain.data
      OBVIOUS
    <3>6. b2 = Buffer(b1.parameters, "Plaintext", data, None)
      BY <1>3, <3>4, <3>5, BufferOperations
    <3>7. IsBuffer(b2) /\ b2.parameters = b.parameters /\ b2.payload = data /\ holds_plaintext(b2)
      BY <1>3, <3>6, BufferFields
    <3>8. OpenedThere(o, k, c, s + offset, length, i, kind, fault)
      BY <1>3, <1>5, <2>3, <2>11 DEF OpenedThere
    <3> QED BY <1>3, <2>4, <2>6, <2>9, <2>10, <2>11, <3>1, <3>2, <3>5, <3>7, <3>8 DEF Loaded
  <2>12. CASE ~o.ok
    <3>1. pt = None /\ c2 = None
      BY <2>5, <2>6, <2>12
    <3>2. b2 = clear(b1)
      BY <2>6, <3>1 DEF decrypt_with
    <3>3. b2 = Buffer(b1.parameters, "Empty", <<>>, None)
      BY <1>3, <3>2, BufferOperations
    <3>4. IsBuffer(b2) /\ b2.parameters = b.parameters
      BY <1>3, <3>3, BufferFields
    <3>5. Loaded(l, c, k, y, s, b, p, i, kind, offset, length, fault)
      BY <1>3, <2>4, <2>6, <2>9, <2>10, <2>12, <3>1, <3>4 DEF Loaded
    <3> QED BY <2>3, <2>12, <3>5 DEF Untroubled
  <2> QED BY <2>11, <2>12
<1> QED BY <1>4, <1>5

(* decrypt_segment_direct: only what opened is returned. *)
LEMMA DirectForm ==
    ASSUME NEW S, source \in Seq(S), at \in Nat,
           NEW c, NEW k, LabelledCache(k, c), NEW y, NEW s \in Nat, NEW b, IsBuffer(b), NEW p,
           NEW cached, NEW inner, inner \in {None, Some(at)},
           NEW r, r = ReaderRecord(c, k, y, s, b, p, cached, inner),
           NEW segment, NEW offset \in Nat, segment.ciphertext_offset = offset,
           NEW length \in Nat \ {0}, segment.ciphertext_length = length,
           NEW i \in Nat, segment.position = i, NEW kind, segment.kind = kind,
           NEW trouble, trouble.budget \in Nat, NEW fault, trouble.fault = fault,
           NEW l, l = decrypt_segment_direct(r, segment, trouble)
    PROVE  /\ Direct(l, c, k, y, s, b, p, i, kind, offset, length, fault)
           /\ Untroubled(trouble, s, offset, length,
                         OpeningAt(k, c, s + offset, length, i, kind, fault)) => l.ok
<1>1. PICK f : f = fetch_segment_ciphertext(r, segment, trouble)
  OBVIOUS
<1>2. /\ Fetched(f, c, k, y, s, b, p, offset, length)
      /\ /\ trouble.seek = "ok" /\ fits_u64(s + offset)
         /\ s + offset + length <= Len(source) /\ trouble.budget >= length
         => f.ok
  BY <1>1, FetchForm
<1>3. PICK b1, i1 :
        /\ f.reader = ReaderRecord(c, k, y, s, b1, p, None, i1)
        /\ IsBuffer(b1) /\ b1.parameters = b.parameters
        /\ f.at \in Nat /\ i1 \in {None, Some(f.at)}
        /\ f.ok => /\ fits_u64(s + offset) /\ s + offset + length <= Len(source)
                   /\ b1.segment = Some(FilledSegment(Slice(source, s + offset, length)))
  BY <1>2 DEF Fetched
<1>4. CASE ~f.ok
  <2>1. l = f
    BY <1>1, <1>4 DEF decrypt_segment_direct
  <2> QED BY <1>2, <1>3, <1>4, <2>1 DEF Direct, Untroubled
<1>5. CASE f.ok
  <2>1. PICK o : o = opening(f.reader, segment, fault)
    OBVIOUS
  <2>2. f.reader.keys = k /\ f.reader.context = c /\ f.reader.scratch = b1
    BY <1>3, ReaderFields
  <2>3. o = OpeningAt(k, c, s + offset, length, i, kind, fault)
    <3>1. PICK x : x = FilledSegment(Slice(source, s + offset, length))
      OBVIOUS
    <3>2. b1.segment = Some(x)
      BY <1>3, <1>5, <3>1
    <3>3. (CHOOSE z \in b1.segment : TRUE) = x
      BY <3>2, ChooseSome
    <3>4. o = decrypt_segment_at(k, c, CHOOSE z \in b1.segment : TRUE, i, kind, TRUE, fault)
      BY <2>1, <2>2 DEF opening
    <3> QED BY <3>1, <3>3, <3>4 DEF OpeningAt
  <2>4. LabelledCache(o.state, c) /\ o.ok \in BOOLEAN
    BY <2>3, OpenedSegment DEF OpeningAt
  <2>5. PICK k2, none, data : /\ k2 = o.state /\ none = None
                              /\ data = IF o.ok THEN o.plaintext.data ELSE <<>>
    OBVIOUS
  <2>6. l = Reached([f.reader EXCEPT !.keys = k2], f.at, o.ok, data)
    BY <1>1, <1>5, <2>1, <2>5 DEF decrypt_segment_direct
  <2>7. [f.reader EXCEPT !.keys = k2] = ReaderRecord(c, k2, y, s, b1, p, none, i1)
    <3>1. PICK w : w = f.reader
      OBVIOUS
    <3>2. w = ReaderRecord(c, k, y, s, b1, p, none, i1)
      BY <1>3, <2>5, <3>1
    <3>3. [w EXCEPT !.keys = k2] = ReaderRecord(c, k2, y, s, b1, p, none, i1)
      BY <3>2 DEF ReaderRecord
    <3> QED BY <3>1, <3>3
  <2>8. /\ l.reader = ReaderRecord(c, k2, y, s, b1, p, None, i1) /\ l.at = f.at /\ l.ok = o.ok
        /\ l.bytes = data
    BY <2>5, <2>6, <2>7 DEF Reached
  <2>9. l.ok <=> o.ok
    BY <2>8, Zenon
  <2>10. o.ok => OpenedThere(o, k, c, s + offset, length, i, kind, fault)
    BY <1>3, <1>5, <2>3 DEF OpenedThere
  <2>11. o.ok => l.bytes = o.plaintext.data
    BY <2>5, <2>8
  <2>12. Direct(l, c, k, y, s, b, p, i, kind, offset, length, fault)
    BY <1>3, <2>4, <2>5, <2>8, <2>9, <2>10, <2>11 DEF Direct
  <2> QED BY <2>3, <2>9, <2>12 DEF Untroubled
<1> QED BY <1>4, <1>5

-----------------------------------------------------------------------------
(* The layout of the message. *)

LayoutOf(m) == LayoutRecord(SegmentLength, Len(m.bytes), Len(intact(m)), Len(m.segments))

(* A layout whose final segment is the message's is the message's. *)
LEMMA LayoutMatches ==
    ASSUME NEW m, IsMessage(m), NEW y, GoodLayout(y), y.parameters = SegmentLength,
           NEW i \in Nat, i + 1 = y.segment_count, i + 1 = Len(m.segments),
           SEGMENT_OVERHEAD + PayloadAt(y, i) = m.segments[i + 1].length
    PROVE  y.plaintext_length = Len(m.bytes) /\ y.ciphertext_length = Len(intact(m))
<1>1. PICK j \in 1 .. Len(m.segments) : j = i + 1
  BY DEF IsMessage, IsMessageOf
<1>2. PICK n \in Nat : n = Len(m.bytes)
  BY LenProperties DEF IsMessage, IsMessageOf
<1>3. PICK w \in Nat : w = Len(PayloadOf(m, j))
  BY SegmentsForm
<1>4. m.segments[j].length = SEGMENT_OVERHEAD + w
  BY <1>3, OurKeys
<1>5. w = n - i * capacity
  <2>1. Len(PayloadOf(m, j)) = Len(m.bytes) - (j - 1) * capacity
    BY <1>1, SegmentsForm
  <2>2. j - 1 = i
    BY <1>1
  <2> QED BY <1>2, <1>3, <2>1, <2>2
<1>6. /\ capacity \in Nat \ {0} /\ SEGMENT_OVERHEAD \in Nat
      /\ SegmentLength = SEGMENT_OVERHEAD + capacity /\ HEADER_LENGTH \in Nat
      /\ capacity = plaintext_segment_length(SegmentLength)
  BY CiphertextsAssumption, SegmentLengths, ParametersAssumption DEF capacity
<1>7. PICK z \in Nat : z = y.plaintext_length
  BY DEF GoodLayout
<1>8. PayloadAt(y, i) = z - i * capacity
  BY <1>6, <1>7 DEF PayloadAt
<1>9. y.ciphertext_length = HEADER_LENGTH + z + (i + 1) * SEGMENT_OVERHEAD
  BY <1>7 DEF GoodLayout
<1>10. PICK ic \in Nat : ic = i * capacity
  BY <1>6
<1>11. z = n
  <2>1. SEGMENT_OVERHEAD + (z - ic) = SEGMENT_OVERHEAD + w
    BY <1>1, <1>4, <1>8, <1>10
  <2>2. w = n - ic
    BY <1>5, <1>10
  <2> QED BY <1>6, <2>1, <2>2
<1>12. Len(intact(m)) = HEADER_LENGTH + i * SegmentLength + SEGMENT_OVERHEAD + w
  <2>1. Len(intact(m)) = HEADER_LENGTH + (Len(m.segments) - 1) * SegmentLength
                           + SEGMENT_OVERHEAD + Len(PayloadOf(m, Len(m.segments)))
    BY IntactForm
  <2>2. Len(m.segments) = j /\ Len(m.segments) - 1 = i
    BY <1>1
  <2> QED BY <1>3, <2>1, <2>2
<1>13. i * SegmentLength = i * SEGMENT_OVERHEAD + ic
  BY <1>6, <1>10
<1>14. PICK io \in Nat : io = i * SEGMENT_OVERHEAD
  BY <1>6
<1>15. (i + 1) * SEGMENT_OVERHEAD = io + SEGMENT_OVERHEAD
  BY <1>6, <1>14
<1>16. y.ciphertext_length = Len(intact(m))
  BY <1>5, <1>6, <1>9, <1>10, <1>11, <1>12, <1>13, <1>14, <1>15
<1> QED BY <1>2, <1>7, <1>11, <1>16

(* The segment that the layout has at a position is the message's. *)
LaidOut(segment, m, i) ==
    /\ segment.position = i /\ segment.kind = KindOf(m, i + 1)
    /\ segment.plaintext_offset = i * capacity
    /\ segment.plaintext_length = Len(PayloadOf(m, i + 1))
    /\ segment.ciphertext_offset = HEADER_LENGTH + i * SegmentLength
    /\ segment.ciphertext_offset \in Nat
    /\ segment.ciphertext_length = m.segments[i + 1].length
    /\ segment.ciphertext_length \in Nat \ {0}
    /\ segment.ciphertext_length <= SegmentLength

(* Where the layout of a message has its segments. *)
LEMMA SegmentOfLayout ==
    ASSUME NEW m, IsMessage(m), NEW y, y = LayoutOf(m), GoodLayout(y),
           NEW i \in 0 .. Len(m.segments) - 1
    PROVE  /\ segment_for_position(y, i) = Some(SegmentAt(y, i))
           /\ LaidOut(SegmentAt(y, i), m, i)
<1>1. /\ y.parameters = SegmentLength /\ y.plaintext_length = Len(m.bytes)
      /\ y.ciphertext_length = Len(intact(m)) /\ y.segment_count = Len(m.segments)
  BY LayoutFields DEF LayoutOf
<1>2. PICK count \in Nat \ {0} : count = Len(m.segments)
  BY DEF IsMessage, IsMessageOf
<1>3. i \in Nat /\ i \in 0 .. y.segment_count - 1 /\ i + 1 \in 1 .. count
  BY <1>1, <1>2
<1>4. segment_for_position(y, i) = Some(SegmentAt(y, i))
  BY <1>3, SegmentForPosition
<1>5. PICK j \in 1 .. Len(m.segments) : j = i + 1
  BY <1>2, <1>3
<1>6. /\ capacity \in Nat \ {0} /\ SEGMENT_OVERHEAD \in Nat \ {0} /\ SegmentLength \in Nat
      /\ SegmentLength = SEGMENT_OVERHEAD + capacity /\ HEADER_LENGTH \in Nat
      /\ capacity = plaintext_segment_length(SegmentLength)
  BY CiphertextsAssumption, SegmentLengths, ParametersAssumption DEF capacity
<1>7. PayloadAt(y, i) = Len(PayloadOf(m, j)) /\ PayloadAt(y, i) \in 0 .. capacity
  <2>1. /\ Len(PayloadOf(m, j)) \in 0 .. capacity
        /\ j # Len(m.segments) => Len(PayloadOf(m, j)) = capacity
        /\ j = Len(m.segments) => Len(PayloadOf(m, j)) = Len(m.bytes) - (j - 1) * capacity
    BY SegmentsForm
  <2>2. j - 1 = i
    BY <1>5
  <2>3. PayloadAt(y, i) = IF j = Len(m.segments) THEN Len(m.bytes) - i * capacity ELSE capacity
    BY <1>1, <1>5, <1>6 DEF PayloadAt
  <2> QED BY <2>1, <2>2, <2>3
<1>8. m.segments[j].length = SEGMENT_OVERHEAD + Len(PayloadOf(m, j))
  BY OurKeys
<1>9. KindAt(y, i) = KindOf(m, j)
  BY <1>1, <1>5 DEF KindAt, KindOf
<1>10. ciphertext_offset(SegmentLength, i) = HEADER_LENGTH + i * SegmentLength
       /\ HEADER_LENGTH + i * SegmentLength \in Nat
  BY <1>3, <1>6, SMTT(30) DEF ciphertext_offset
<1>11. /\ SegmentAt(y, i).position = i /\ SegmentAt(y, i).kind = KindAt(y, i)
       /\ SegmentAt(y, i).plaintext_offset = i * plaintext_segment_length(y.parameters)
       /\ SegmentAt(y, i).plaintext_length = PayloadAt(y, i)
       /\ SegmentAt(y, i).ciphertext_offset = ciphertext_offset(y.parameters, i)
       /\ SegmentAt(y, i).ciphertext_length = SEGMENT_OVERHEAD + PayloadAt(y, i)
  BY DEF SegmentAt
<1>12. SEGMENT_OVERHEAD + PayloadAt(y, i) \in Nat \ {0}
       /\ SEGMENT_OVERHEAD + PayloadAt(y, i) <= SegmentLength
  BY <1>6, <1>7
<1> HIDE DEF SegmentAt
<1>13. LaidOut(SegmentAt(y, i), m, i)
  BY <1>1, <1>5, <1>6, <1>7, <1>8, <1>9, <1>10, <1>11, <1>12 DEF LaidOut
<1> QED BY <1>4, <1>13

-----------------------------------------------------------------------------
(* The constructors. *)

(* Who a constructor believes to read from: our message, or the other one  *)
(* in a source that has none of its segments.                              *)
LEMMA HeaderRead ==
    ASSUME IsMessage(sent), at \in Nat, GoodSource(source, at, sent), NEW parameters,
           NEW h, h = read_header(source, at, HEADER_LENGTH), h.ok,
           NEW c \in opened_context(key, aad, parameters, h.header)
    PROVE  \/ /\ c = contexts.ours
              /\ Slice(source, at, HEADER_LENGTH) = header_bytes(headers.ours)
              /\ at + HEADER_LENGTH <= Len(source)
           \/ /\ c = contexts.other
              /\ source \in Seq(BytesOf(NoForeignSegment(sent)) \cup {junk[1]})
<1> DEFINE B == BytesOf(Items(sent)) \cup {junk[1]}
<1>1. source \in Seq(B) /\ Len(source) \in Nat /\ HEADER_LENGTH \in Nat \ {0}
  BY LenProperties, ParametersAssumption DEF GoodSource
<1>2. PICK g : g = read_fully(source, at, HEADER_LENGTH, HEADER_LENGTH)
  OBVIOUS
<1>3. /\ h.ok <=> g.ok /\ g.got = HEADER_LENGTH
      /\ h.header = header_in(Slice(source, at, g.got))
  <2>1. PICK e, a, x : /\ e = (g.ok /\ g.got = HEADER_LENGTH) /\ a = at + g.got
                       /\ x = header_in(Slice(source, at, g.got))
    OBVIOUS
  <2>2. h = [ok |-> e, at |-> a, header |-> x]
    BY <1>2, <2>1, Zenon DEF read_header
  <2>3. h.ok = e /\ h.header = x
    BY <2>2
  <2> QED BY <2>1, <2>3, Zenon
<1>4. g.got = HEADER_LENGTH
  BY <1>3
<1>5. at + HEADER_LENGTH <= Len(source)
  <2>1. g = [ok |-> TRUE, got |-> least(HEADER_LENGTH, IF at < Len(source) THEN Len(source) - at
                                                       ELSE 0)]
    BY <1>1, <1>2 DEF read_fully
  <2>2. least(HEADER_LENGTH, IF at < Len(source) THEN Len(source) - at ELSE 0) = HEADER_LENGTH
    BY <1>4, <2>1
  <2> QED BY <1>1, <2>2 DEF least
<1>6. PICK bytes : bytes = Slice(source, at, HEADER_LENGTH)
  OBVIOUS
<1> HIDE DEF B
<1>7. bytes \in Seq(B) /\ Len(bytes) = HEADER_LENGTH
      /\ \A i \in 1 .. HEADER_LENGTH : bytes[i] = source[at + i]
  BY <1>1, <1>5, <1>6, SliceOf, ZenonT(60)
<1>8. PICK x \in header_in(bytes) :
        accepts_header(key, aad, x.parameters, x) /\ c = Context(key, x.parameters, x.iv, aad)
  BY <1>3, <1>4, <1>6 DEF opened_context
<1>9. x \in Items(sent) /\ is_header(x) /\ bytes = header_bytes(x) /\ bytes[1].item = x
  BY <1>7, ItemsSized, HeaderFound DEF B
<1>10. x \in {headers.ours} \cup ForgedHeaders
  BY <1>9, ItemKinds DEF Items, NoForeignSegment, NoForeignHeader
<1>11. CASE x = headers.ours /\ c = contexts.ours
  BY <1>5, <1>6, <1>9, <1>11
<1>12. CASE x = headers.other /\ c = contexts.other
  <2>1. headers.ours # headers.other
    BY DEF headers, Header
  <2>2. source[at + 1].item = headers.other /\ at + 1 \in 1 .. Len(source)
    <3>1. 1 \in 1 .. HEADER_LENGTH /\ at + 1 \in 1 .. Len(source)
      BY <1>1, <1>5
    <3>2. bytes[1] = source[at + 1]
      BY <1>7, <3>1
    <3> QED BY <1>9, <1>12, <3>1, <3>2
  <2>3. source \notin Seq(BytesOf(NoForeignHeader(sent)) \cup {junk[1]})
    <3> SUFFICES ASSUME source \in Seq(BytesOf(NoForeignHeader(sent)) \cup {junk[1]})
                 PROVE  FALSE
      OBVIOUS
    <3>1. PICK b : b = source[at + 1]
      OBVIOUS
    <3>2. b \in BytesOf(NoForeignHeader(sent)) \cup {junk[1]} /\ b.item = headers.other
      BY <2>2, <3>1, ElementOfSeq
    <3>3. is_header(b.item)
      BY <1>9, <1>12, <3>2
    <3>4. b.item \in NoForeignHeader(sent)
      BY <3>2, <3>3, ByteFields
    <3> QED BY <2>1, <3>2, <3>3, <3>4, ItemKinds DEF NoForeignHeader
  <2>4. ~(at = 0 /\ \A k \in 1 .. HEADER_LENGTH : k <= Len(source) => source[k].item = headers.ours)
    <3>1. 1 \in 1 .. HEADER_LENGTH
      BY <1>1
    <3> QED BY <2>1, <2>2, <3>1
  <2> QED BY <1>12, <2>3, <2>4 DEF GoodSource
<1> QED BY <1>8, <1>10, <1>11, <1>12, AcceptedHeaders

(* Where the final segment is if a message starts at s. *)
FinalOffset == HEADER_LENGTH + (Len(sent.segments) - 1) * SegmentLength

(* The message's header and final segment are in their places, and every   *)
(* place is a u64.                                                         *)
Anchored(s) ==
    LET x == sent.segments[Len(sent.segments)]
    IN  /\ s \in Nat
        /\ Slice(source, s, HEADER_LENGTH) = header_bytes(headers.ours)
        /\ s + Len(intact(sent)) <= Len(source)
        /\ Slice(source, s + FinalOffset, x.length) = segment_bytes(x)
        /\ fits_u64(s + FinalOffset)

(* The layout is the one a reader computes from the message's length. *)
Laid == GoodLayout(LayoutOf(sent)) /\ ciphertext_layout(SegmentLength, Len(intact(sent))) = Ok(LayoutOf(sent))

(* What from_parts makes. *)
Made(r) ==
    \E k, b, inner :
        /\ r = ReaderRecord(contexts.ours, k, LayoutOf(sent), at, b, 0, None, inner)
        /\ LabelledCache(k, contexts.ours) /\ IsBuffer(b) /\ Anchored(at) /\ Laid

(* What a trouble leaves of the budget. *)
LEMMA TroubleFields ==
    ASSUME NEW trouble \in Troubles
    PROVE  trouble.budget \in Nat
<1>1. SegmentLength \in Nat
  BY CiphertextsAssumption, SegmentLengths
<1> QED BY <1>1 DEF Troubles

(* The layout, from any length, under which the final segment opens. *)
LEMMA FinalSegmentFixesLayout ==
    ASSUME NEW m, IsMessage(m), NEW l \in Nat, ciphertext_layout(SegmentLength, l).ok,
           NEW y, y = ciphertext_layout(SegmentLength, l).value, NEW i, i = y.segment_count - 1,
           NEW bytes, Len(bytes) = SEGMENT_OVERHEAD + PayloadAt(y, i), NEW o, o.ok,
           OpenedAs(o, m, i, "Final", bytes)
    PROVE  /\ y = LayoutOf(m) /\ GoodLayout(y)
           /\ ciphertext_layout(SegmentLength, Len(intact(m))) = Ok(LayoutOf(m))
           /\ i + 1 = Len(m.segments)
<1>1. SegmentLength \in VALID_SEGMENT_LENGTHS
  BY CiphertextsAssumption
<1>2. GoodLayout(y) /\ y.parameters = SegmentLength /\ y.ciphertext_length = l
  BY <1>1, CiphertextLayoutIsGood
<1>3. y.segment_count \in Nat \ {0} /\ i \in Nat /\ i + 1 = y.segment_count
  BY <1>2, ParametersAssumption DEF GoodLayout
<1>4. i + 1 \in 1 .. Len(m.segments) /\ "Final" = KindOf(m, i + 1)
      /\ bytes = segment_bytes(m.segments[i + 1])
  BY DEF OpenedAs
<1>5. i + 1 = Len(m.segments)
  BY <1>4 DEF KindOf
<1>6. PICK j \in 1 .. Len(m.segments) : j = i + 1
  BY <1>4
<1>7. Len(bytes) = m.segments[j].length
  <2>1. m.segments[j].length \in Nat
    <3>1. m.segments[j] \in OurSegments(m)
      BY DEF OurSegments
    <3> QED BY <3>1, ItemKinds
  <2>2. PICK n \in Nat : n = m.segments[j].length
    BY <2>1
  <2>3. bytes = [k \in 1 .. n |-> [item |-> m.segments[j], at |-> k, of |-> n]]
    BY <1>4, <1>6, <2>2 DEF segment_bytes, bytes_of
  <2>4. PICK x : x = m.segments[j]
    OBVIOUS
  <2>5. Len([k \in 1 .. n |-> [item |-> x, at |-> k, of |-> n]]) = n
    OBVIOUS
  <2> QED BY <2>2, <2>3, <2>4, <2>5
<1>8. y.plaintext_length = Len(m.bytes) /\ y.ciphertext_length = Len(intact(m))
  BY <1>2, <1>3, <1>5, <1>6, <1>7, LayoutMatches, ZenonT(60)
<1>9. y = LayoutOf(m)
  BY <1>2, <1>3, <1>5, <1>8 DEF LayoutOf, GoodLayout
<1>10. ciphertext_layout(SegmentLength, l) = Ok(y)
  <2>1. PICK z : ciphertext_layout(SegmentLength, l) = Ok(z)
    BY <1>1, CiphertextLayoutForm
  <2> QED BY <2>1 DEF Ok
<1> QED BY <1>2, <1>5, <1>8, <1>9, <1>10

(* The Reader that from_parts starts with. *)
LEMMA FreshReader ==
    ASSUME NEW ctx, NEW y, NEW start, NEW fresh,
           fresh = [context |-> ctx, keys |-> KeyCache_new(ctx), layout |-> y,
                    message_start |-> start, scratch |-> buffer_new(ctx.parameters),
                    plaintext_position |-> 0, cached_position |-> None, inner_position |-> None]
    PROVE  \E k, b : /\ fresh = ReaderRecord(ctx, k, y, start, b, 0, None, None)
                     /\ LabelledCache(k, ctx) /\ IsBuffer(b)
<1>1. PICK k, b : k = KeyCache_new(ctx) /\ b = buffer_new(ctx.parameters)
  OBVIOUS
<1>2. fresh = ReaderRecord(ctx, k, y, start, b, 0, None, None)
  BY <1>1, Zenon DEF ReaderRecord
<1>3. LabelledCache(k, ctx)
  <2>1. \A c \in k : c = derive(ctx, 0)
    BY <1>1 DEF KeyCache_new, Some
  <2>2. derive(ctx, 0).masked_position = 0
    BY DEF derive
  <2> QED BY <2>1, <2>2 DEF LabelledCache
<1>4. b = Buffer(ctx.parameters, "Empty", <<>>, None)
  BY <1>1 DEF buffer_new, Buffer
<1>5. IsBuffer(b)
  BY <1>4, BufferFields
<1> QED BY <1>2, <1>3, <1>5

(* A constructor makes a Reader only on our message, and only with its     *)
(* length.                                                                 *)
LEMMA OnlyOursIsMade ==
    ASSUME IsMessage(sent), at \in Nat, GoodSource(source, at, sent), NEW parameters,
           NEW h, h = read_header(source, at, HEADER_LENGTH), h.ok,
           NEW c \in opened_context(key, aad, parameters, h.header),
           NEW length \in Nat, NEW trouble \in Troubles, NEW r \in from_parts(c, at, length, trouble)
    PROVE  Made(r)
<1>1. \/ /\ c = contexts.ours
         /\ Slice(source, at, HEADER_LENGTH) = header_bytes(headers.ours)
         /\ at + HEADER_LENGTH <= Len(source)
      \/ /\ c = contexts.other
         /\ source \in Seq(BytesOf(NoForeignSegment(sent)) \cup {junk[1]})
  BY HeaderRead
<1>2. c.parameters = SegmentLength
  <2>1. contexts.ours.parameters = SegmentLength /\ contexts.other.parameters = SegmentLength
    BY DEF contexts, Context
  <2> QED BY <1>1, <2>1
<1> DEFINE layout == ciphertext_layout(c.parameters, length)
           y == layout.value
           fresh == [context |-> c, keys |-> KeyCache_new(c), layout |-> y,
                     message_start |-> at, scratch |-> buffer_new(c.parameters),
                     plaintext_position |-> 0, cached_position |-> None, inner_position |-> None]
           segment == CHOOSE s \in final_segment(y) : TRUE
           l == load_segment(fresh, segment, trouble)
<1>3. layout = ciphertext_layout(SegmentLength, length)
  BY <1>2
<1>4. from_parts(c, at, length, trouble)
        = IF ~layout.ok \/ ~final_is_authentic(l) THEN None
          ELSE Some([l.reader EXCEPT !.scratch = clear(@), !.cached_position = None])
  BY DEF from_parts
<1>5. PICK k, b : /\ fresh = ReaderRecord(c, k, y, at, b, 0, None, None)
                   /\ LabelledCache(k, c) /\ IsBuffer(b)
  <2>1. PICK f : f = fresh
    OBVIOUS
  <2>2. PICK z : z = y
    OBVIOUS
  <2>3. f = [context |-> c, keys |-> KeyCache_new(c), layout |-> z,
             message_start |-> at, scratch |-> buffer_new(c.parameters),
             plaintext_position |-> 0, cached_position |-> None, inner_position |-> None]
    BY <2>1, <2>2
  <2>4. \E k, b : /\ f = ReaderRecord(c, k, z, at, b, 0, None, None)
                  /\ LabelledCache(k, c) /\ IsBuffer(b)
    BY <2>3, FreshReader
  <2> HIDE DEF fresh, y
  <2> QED BY <2>1, <2>2, <2>4
<1>6. y = layout.value
  OBVIOUS
<1>7. segment = CHOOSE s \in final_segment(y) : TRUE
  OBVIOUS
<1>8. l = load_segment(fresh, segment, trouble)
  OBVIOUS
<1> HIDE DEF layout, y, fresh, segment, l
<1>9. layout.ok /\ l.ok /\ r = [l.reader EXCEPT !.scratch = clear(@), !.cached_position = None]
  BY <1>4 DEF final_is_authentic, Some, None
<1>10. SegmentLength \in VALID_SEGMENT_LENGTHS
  BY CiphertextsAssumption
<1>11. GoodLayout(y) /\ y.parameters = SegmentLength
  BY <1>3, <1>6, <1>9, <1>10, CiphertextLayoutIsGood
<1>12. PICK i \in Nat : i = y.segment_count - 1 /\ i + 1 = y.segment_count
  BY <1>11, ParametersAssumption DEF GoodLayout
<1>13. segment = SegmentAt(y, i) /\ PayloadAt(y, i) \in Nat /\ ciphertext_offset(y.parameters, i) \in Nat
  <2>1. i \in 0 .. y.segment_count - 1
    BY <1>12
  <2>2. segment_for_position(y, i) = Some(SegmentAt(y, i))
    BY <1>11, <2>1, SegmentForPosition
  <2>3. PICK z : z = SegmentAt(y, i)
    OBVIOUS
  <2>4. segment = CHOOSE s \in Some(z) : TRUE
    BY <1>7, <1>12, <2>2, <2>3 DEF final_segment
  <2>5. segment = SegmentAt(y, i)
    BY <2>3, <2>4, ChooseSome
  <2>6. PayloadAt(y, i) \in 0 .. plaintext_segment_length(y.parameters)
        /\ ciphertext_offset(y.parameters, i) \in Nat
    BY <1>11, <2>1, SegmentBounds
  <2> QED BY <2>5, <2>6
<1>14. PICK offset \in Nat : offset = HEADER_LENGTH + i * SegmentLength
  BY <1>11, <1>13 DEF ciphertext_offset
<1>15. PICK len \in Nat \ {0} : len = SEGMENT_OVERHEAD + PayloadAt(y, i)
  BY <1>10, <1>13, SegmentLengths
<1>16. /\ segment.ciphertext_offset = offset /\ segment.ciphertext_length = len
       /\ segment.position = i /\ segment.kind = "Final"
  BY <1>11, <1>12, <1>13, <1>14, <1>15 DEF SegmentAt, KindAt, ciphertext_offset
<1> DEFINE B == BytesOf(Items(sent)) \cup {junk[1]}
<1>17. source \in Seq(B) /\ Len(source) \in Nat
  BY LenProperties DEF GoodSource
<1> HIDE DEF B
<1>18. PICK fault, zero, none : fault = trouble.fault /\ zero = 0 /\ none = None
  OBVIOUS
<1>19. Loaded(l, c, k, y, at, b, zero, i, "Final", offset, len, fault)
  <2>1. PICK kind : kind = "Final"
    OBVIOUS
  <2>2. fresh = ReaderRecord(c, k, y, at, b, zero, none, none) /\ none \in {None, Some(at)}
    BY <1>5, <1>18
  <2>3. trouble.budget \in Nat
    BY TroubleFields
  <2>4. Loaded(l, c, k, y, at, b, zero, i, kind, offset, len, fault)
    BY <1>8, <1>16, <1>5, <1>17, <1>18, <2>1, <2>2, <2>3, LoadForm
  <2> QED BY <2>1, <2>4
<1>20. PICK k2, b2, cached, inner :
         /\ l.reader = ReaderRecord(c, k2, y, at, b2, zero, cached, inner)
         /\ LabelledCache(k2, c) /\ IsBuffer(b2)
         /\ \E o : OpenedThere(o, k, c, at + offset, len, i, "Final", fault)
  BY <1>9, <1>19 DEF Loaded
<1>21. PICK o : OpenedThere(o, k, c, at + offset, len, i, "Final", fault)
  BY <1>20
<1>22. PICK place \in Nat : place = at + offset
  OBVIOUS
<1>23. PICK bytes : bytes = Slice(source, place, len)
  OBVIOUS
<1>24. /\ o = decrypt_segment_at(k, c, FilledSegment(bytes), i, "Final", TRUE, fault)
       /\ o.ok /\ fits_u64(place) /\ place + len <= Len(source)
  BY <1>21, <1>22, <1>23 DEF OpenedThere, OpeningAt
<1>25. c = contexts.ours
  <2> SUFFICES ASSUME c # contexts.ours
               PROVE  FALSE
    OBVIOUS
  <2>1. c = contexts.other /\ source \in Seq(BytesOf(NoForeignSegment(sent)) \cup {junk[1]})
    BY <1>1
  <2>2. PICK F : F = BytesOf(NoForeignSegment(sent)) \cup {junk[1]}
    OBVIOUS
  <2>3. bytes \in Seq(F)
    BY <1>23, <1>24, <2>1, <2>2, SliceOf
  <2>4. bytes \in Seq(BytesOf(NoForeignSegment(sent)) \cup {junk[1]})
    BY <2>2, <2>3
  <2>5. PICK kind : kind = "Final"
    OBVIOUS
  <2> QED BY <1>5, <1>24, <2>1, <2>4, <2>5, OtherOpensNothing
<1>26. bytes \in Seq(B) /\ Len(bytes) = len
  BY <1>17, <1>23, <1>24, SliceOf
<1>27. OpenedAs(o, sent, i, "Final", bytes)
  <2>1. PICK kind : kind = "Final"
    OBVIOUS
  <2>2. bytes \in Seq(BytesOf(Items(sent)) \cup {junk[1]})
    BY <1>26 DEF B
  <2>3. OpenedAs(o, sent, i, kind, bytes)
    BY <1>5, <1>24, <1>25, <2>1, <2>2, OpensAtPosition
  <2> QED BY <2>1, <2>3
<1>28. /\ y = LayoutOf(sent) /\ GoodLayout(y)
       /\ ciphertext_layout(SegmentLength, Len(intact(sent))) = Ok(LayoutOf(sent))
       /\ i + 1 = Len(sent.segments)
  <2>1. /\ ciphertext_layout(SegmentLength, length).ok
        /\ y = ciphertext_layout(SegmentLength, length).value
    BY <1>3, <1>6, <1>9
  <2>2. Len(bytes) = SEGMENT_OVERHEAD + PayloadAt(y, i) /\ o.ok
    BY <1>15, <1>24, <1>26
  <2> QED BY <1>12, <1>27, <2>1, <2>2, FinalSegmentFixesLayout, ZenonT(60)
<1>29. Laid
  BY <1>28 DEF Laid
<1>30. Anchored(at)
  <2>1. PICK x : x = sent.segments[Len(sent.segments)]
    OBVIOUS
  <2>2. bytes = segment_bytes(x)
    BY <1>24, <1>27, <1>28, <2>1 DEF OpenedAs
  <2>3. FinalOffset = offset
    BY <1>12, <1>14, <1>28 DEF FinalOffset
  <2>4. LaidOut(SegmentAt(y, i), sent, i)
    BY <1>12, <1>28, SegmentOfLayout
  <2>5. x.length = len
    BY <1>13, <1>16, <1>28, <2>1, <2>4 DEF LaidOut
  <2>6. Slice(source, at + FinalOffset, x.length) = segment_bytes(x) /\ fits_u64(at + FinalOffset)
    BY <1>22, <1>23, <1>24, <2>2, <2>3, <2>5
  <2>7. at + Len(intact(sent)) <= Len(source)
    <3>1. ciphertext_offset(y.parameters, i) + SEGMENT_OVERHEAD + PayloadAt(y, i)
            = y.ciphertext_length
      <4>1. i \in 0 .. y.segment_count - 1
        BY <1>12
      <4> QED BY <1>12, <1>28, <4>1, SegmentBounds
    <3>2. y.ciphertext_length = Len(intact(sent))
      BY <1>28, LayoutFields DEF LayoutOf
    <3>3. ciphertext_offset(y.parameters, i) = offset
      BY <1>11, <1>14 DEF ciphertext_offset
    <3>4. PICK w, pay : w = Len(intact(sent)) /\ pay = PayloadAt(y, i)
      OBVIOUS
    <3>5. w = offset + SEGMENT_OVERHEAD + pay /\ len = SEGMENT_OVERHEAD + pay /\ pay \in Nat
          /\ SEGMENT_OVERHEAD \in Nat
      BY <1>10, <1>13, <1>15, <3>1, <3>2, <3>3, <3>4, SegmentLengths
    <3>6. at + w <= Len(source)
      BY <1>17, <1>22, <1>24, <3>5
    <3> QED BY <3>4, <3>6
  <2>8. Slice(source, at, HEADER_LENGTH) = header_bytes(headers.ours)
    <3>1. contexts.ours # contexts.other
      <4>1. contexts.ours.message[3] = "iv" /\ contexts.other.message[3] = "other iv"
        BY DEF contexts, Context, derive_message
      <4> QED BY <4>1
    <3> QED BY <1>1, <1>25, <3>1
  <2> QED BY <2>1, <2>6, <2>7, <2>8 DEF Anchored
<1>31. PICK b3 : b3 = clear(b2)
  OBVIOUS
<1>32. IsBuffer(b3)
  BY <1>20, <1>31, BufferOperations, BufferFields
<1>33. r = ReaderRecord(c, k2, y, at, b3, 0, None, inner)
  <2>1. PICK w : w = l.reader
    OBVIOUS
  <2>2. w = ReaderRecord(c, k2, y, at, b2, zero, cached, inner)
    BY <1>20, <2>1
  <2>3. w.scratch = b2
    BY <2>2, ReaderFields
  <2>4. r = [w EXCEPT !.scratch = b3, !.cached_position = none]
    BY <1>9, <1>18, <1>31, <2>1, <2>3
  <2>5. [w EXCEPT !.scratch = b3] = ReaderRecord(c, k2, y, at, b3, zero, cached, inner)
    BY <2>2 DEF ReaderRecord
  <2>6. [ReaderRecord(c, k2, y, at, b3, zero, cached, inner) EXCEPT !.cached_position = none]
          = ReaderRecord(c, k2, y, at, b3, zero, none, inner)
    BY DEF ReaderRecord
  <2>7. [w EXCEPT !.scratch = b3, !.cached_position = none]
          = [[w EXCEPT !.scratch = b3] EXCEPT !.cached_position = none]
    OBVIOUS
  <2> QED BY <1>18, <2>4, <2>5, <2>6, <2>7
<1> QED BY <1>20, <1>25, <1>28, <1>29, <1>30, <1>32, <1>33 DEF Made

-----------------------------------------------------------------------------
(* A Reader and its steps. *)

(* The cache, if it claims a segment, has its payload. *)
Fresh(cached, b) ==
    \A i \in cached : /\ i \in 0 .. Len(sent.segments) - 1
                      /\ holds_plaintext(b) /\ b.payload = PayloadOf(sent, i + 1)

GoodReader(r, pos) ==
    \E k, s, b, p, cached, inner :
        /\ r = ReaderRecord(contexts.ours, k, LayoutOf(sent), s, b, p, cached, inner)
        /\ LabelledCache(k, contexts.ours) /\ Anchored(s) /\ IsBuffer(b) /\ p \in Nat
        /\ inner \in {None, Some(pos)} /\ Fresh(cached, b)

(* The message the Reader is on, and the state of the source. *)
Setting ==
    /\ IsMessage(sent) /\ at \in Nat /\ Laid
    /\ source \in Seq(BytesOf(Items(sent)) \cup {junk[1]})

(* A step keeps the Reader good and its position. *)
GoodStep(l, r) ==
    /\ GoodReader(l.reader, l.at) /\ l.at \in Nat
    /\ l.reader.plaintext_position = r.plaintext_position

(* What the segment at a position of the layout tells the step. *)
LEMMA SegmentNumbers ==
    ASSUME Setting, NEW i \in 0 .. Len(sent.segments) - 1, NEW segment,
           segment = SegmentAt(LayoutOf(sent), i)
    PROVE  /\ i \in Nat /\ segment.position = i /\ segment.kind = KindOf(sent, i + 1)
           /\ segment.ciphertext_offset \in Nat /\ segment.ciphertext_length \in Nat \ {0}
           /\ segment.ciphertext_length = sent.segments[i + 1].length
           /\ segment.ciphertext_length <= SegmentLength
           /\ segment.ciphertext_offset <= FinalOffset
           /\ segment.ciphertext_offset + segment.ciphertext_length <= Len(intact(sent))
           /\ FinalOffset \in Nat /\ Len(intact(sent)) \in Nat
           /\ i < AEAD_MAX_SEGMENTS
           /\ segment_for_position(LayoutOf(sent), i) = Some(segment)
<1>1. PICK y : y = LayoutOf(sent)
  OBVIOUS
<1>2. IsMessage(sent) /\ GoodLayout(y)
  BY <1>1 DEF Setting, Laid
<1>3. segment_for_position(y, i) = Some(segment) /\ LaidOut(segment, sent, i)
  BY <1>1, <1>2, SegmentOfLayout
<1>4. /\ y.parameters = SegmentLength /\ y.ciphertext_length = Len(intact(sent))
      /\ y.segment_count = Len(sent.segments)
  BY <1>1, LayoutFields DEF LayoutOf
<1>5. PICK count \in Nat \ {0} : count = Len(sent.segments)
  BY <1>2 DEF IsMessage, IsMessageOf
<1>6. i \in Nat /\ i <= count - 1 /\ i \in 0 .. y.segment_count - 1
  BY <1>4, <1>5
<1>7. count <= AEAD_MAX_SEGMENTS /\ AEAD_MAX_SEGMENTS \in Nat
  BY <1>2, <1>4, <1>5, ParametersAssumption DEF GoodLayout
<1>8. SegmentLength \in Nat /\ HEADER_LENGTH \in Nat /\ SEGMENT_OVERHEAD \in Nat
  BY CiphertextsAssumption, SegmentLengths, ParametersAssumption
<1>9. PICK last \in Nat : last = count - 1
  BY <1>5, SMTT(30)
<1>10. PICK a \in Nat, z \in Nat : a = i * SegmentLength /\ z = last * SegmentLength
  BY <1>6, <1>8
<1>11. a <= z
  BY <1>6, <1>8, <1>9, <1>10
<1>12. FinalOffset = HEADER_LENGTH + z
  BY <1>5, <1>9, <1>10 DEF FinalOffset
<1>13. segment.ciphertext_offset = HEADER_LENGTH + a
  BY <1>3, <1>10 DEF LaidOut
<1>14. segment.ciphertext_offset + segment.ciphertext_length <= Len(intact(sent))
       /\ Len(intact(sent)) \in Nat
  <2>1. PICK len \in Nat, w \in Nat : /\ len = segment.ciphertext_length /\ w = Len(intact(sent))
                                      /\ segment.ciphertext_length = SEGMENT_OVERHEAD + PayloadAt(y, i)
    BY <1>1, <1>2, <1>3, IntactForm DEF LaidOut, SegmentAt
  <2>2. PICK pay \in Nat : pay = PayloadAt(y, i)
    BY <1>2, <1>6, SegmentBounds
  <2>3. CASE i = last
    <3>1. ciphertext_offset(SegmentLength, i) + SEGMENT_OVERHEAD + PayloadAt(y, i) = w
      <4>1. i + 1 = y.segment_count
        BY <1>4, <1>5, <1>9, <2>3
      <4> QED BY <1>2, <1>4, <1>6, <2>1, <4>1, SegmentBounds
    <3>2. ciphertext_offset(SegmentLength, i) = HEADER_LENGTH + a
      BY <1>10 DEF ciphertext_offset
    <3> QED BY <1>8, <1>13, <2>1, <2>2, <3>1, <3>2
  <2>4. CASE i # last
    <3>1. PICK n \in 0 .. y.segment_count - 1 : n = i + 1
      BY <1>4, <1>5, <1>6, <1>9, <2>4
    <3>2. i + 1 # y.segment_count
      BY <1>4, <1>5, <1>9, <2>4
    <3>3. ciphertext_offset(SegmentLength, i) + SEGMENT_OVERHEAD + PayloadAt(y, i)
            = ciphertext_offset(SegmentLength, i + 1)
      BY <1>2, <1>4, <1>6, <3>2, SegmentBounds
    <3>4. ciphertext_offset(SegmentLength, n) \in Nat /\ ciphertext_offset(SegmentLength, n) <= w
      BY <1>2, <1>4, <2>1, <3>1, SegmentBounds
    <3>5. ciphertext_offset(SegmentLength, i) = HEADER_LENGTH + a
      BY <1>10 DEF ciphertext_offset
    <3> QED BY <1>8, <1>13, <2>1, <2>2, <3>1, <3>3, <3>4, <3>5
  <2> QED BY <2>3, <2>4
<1>15. i < AEAD_MAX_SEGMENTS
  BY <1>6, <1>7
<1> QED BY <1>1, <1>3, <1>6, <1>8, <1>10, <1>11, <1>12, <1>13, <1>14, <1>15,
       SMTT(30) DEF LaidOut

(* What was opened in the segment's place is the segment. *)
LEMMA OpenedPayload ==
    ASSUME Setting, NEW k, LabelledCache(k, contexts.ours), NEW place \in Nat, NEW length \in Nat,
           NEW i \in Nat, NEW kind, NEW fault, NEW o,
           OpenedThere(o, k, contexts.ours, place, length, i, kind, fault)
    PROVE  i + 1 \in 1 .. Len(sent.segments) /\ o.plaintext.data = PayloadOf(sent, i + 1)
<1>1. PICK bytes : bytes = Slice(source, place, length)
  OBVIOUS
<1>2. /\ o = decrypt_segment_at(k, contexts.ours, FilledSegment(bytes), i, kind, TRUE, fault)
      /\ o.ok /\ place + length <= Len(source)
  BY <1>1 DEF OpenedThere, OpeningAt
<1>3. PICK B : B = BytesOf(Items(sent)) \cup {junk[1]}
  OBVIOUS
<1>4. bytes \in Seq(B)
  BY <1>1, <1>2, <1>3, SliceOf DEF Setting
<1>5. OpenedAs(o, sent, i, kind, bytes)
  BY <1>2, <1>3, <1>4, OpensAtPosition DEF Setting
<1>6. i + 1 \in 1 .. Len(sent.segments) /\ o.plaintext = sent.segments[i + 1].plaintext
  BY <1>2, <1>5 DEF OpenedAs
<1>7. PICK j \in 1 .. Len(sent.segments) : j = i + 1
  BY <1>6
<1>8. sent.segments[j].plaintext = plaintext_of(PayloadOf(sent, j))
  BY OurKeys DEF Setting
<1>9. plaintext_of(PayloadOf(sent, j)).data = PayloadOf(sent, j)
  BY DEF plaintext_of
<1> QED BY <1>6, <1>7, <1>8, <1>9

(* Loading a segment keeps a Reader good and loads its payload. *)
LEMMA LoadKeeps ==
    ASSUME Setting, NEW r, GoodReader(r, at), NEW i \in 0 .. Len(sent.segments) - 1, NEW segment,
           segment = SegmentAt(LayoutOf(sent), i), NEW trouble \in Troubles,
           NEW l, l = load_segment(r, segment, trouble)
    PROVE  GoodStep(l, r) /\ (l.ok => l.reader.scratch.payload = PayloadOf(sent, i + 1))
<1>1. PICK k, s, b, p, cached, inner :
        /\ r = ReaderRecord(contexts.ours, k, LayoutOf(sent), s, b, p, cached, inner)
        /\ LabelledCache(k, contexts.ours) /\ Anchored(s) /\ IsBuffer(b) /\ p \in Nat
        /\ inner \in {None, Some(at)} /\ Fresh(cached, b)
  BY DEF GoodReader
<1>2. PICK c, y : c = contexts.ours /\ y = LayoutOf(sent)
  OBVIOUS
<1>3. i \in Nat /\ segment.position = i
  BY SegmentNumbers
<1>4. PICK offset \in Nat : offset = segment.ciphertext_offset
  BY SegmentNumbers
<1>5. PICK length \in Nat \ {0} : length = segment.ciphertext_length
  BY SegmentNumbers
<1>6. PICK kind, fault : kind = segment.kind /\ fault = trouble.fault
  OBVIOUS
<1>7. s \in Nat /\ at \in Nat /\ trouble.budget \in Nat
  BY <1>1, TroubleFields DEF Anchored, Setting
<1>8. PICK B : source \in Seq(B)
  BY DEF Setting
<1>9. Loaded(l, c, k, y, s, b, p, i, kind, offset, length, fault)
  BY <1>1, <1>2, <1>3, <1>4, <1>5, <1>6, <1>7, <1>8, LoadForm, ZenonT(60)
<1>10. PICK k2, b2, c2, i2 :
        /\ l.reader = ReaderRecord(c, k2, y, s, b2, p, c2, i2)
        /\ LabelledCache(k2, c) /\ IsBuffer(b2)
        /\ l.at \in Nat /\ i2 \in {None, Some(l.at)}
        /\ ~l.ok => c2 = None
        /\ l.ok => /\ c2 = Some(i)
                   /\ \E o : /\ OpenedThere(o, k, c, s + offset, length, i, kind, fault)
                             /\ holds_plaintext(b2) /\ b2.payload = o.plaintext.data
  BY <1>9 DEF Loaded
<1>11. l.ok => holds_plaintext(b2) /\ b2.payload = PayloadOf(sent, i + 1)
  <2> SUFFICES ASSUME l.ok
               PROVE  holds_plaintext(b2) /\ b2.payload = PayloadOf(sent, i + 1)
    OBVIOUS
  <2>1. PICK o : /\ OpenedThere(o, k, c, s + offset, length, i, kind, fault)
                 /\ holds_plaintext(b2) /\ b2.payload = o.plaintext.data
    BY <1>10
  <2>2. PICK place \in Nat : place = s + offset
    BY <1>7
  <2>3. o.plaintext.data = PayloadOf(sent, i + 1)
    BY <1>1, <1>2, <1>3, <2>1, <2>2, OpenedPayload
  <2> QED BY <2>1, <2>3
<1>12. Fresh(c2, b2)
  <2>1. CASE l.ok
    <3>1. c2 = {i}
      BY <1>10, <2>1 DEF Some
    <3> QED BY <1>11, <2>1, <3>1 DEF Fresh
  <2>2. CASE ~l.ok
    <3>1. c2 = {}
      BY <1>10, <2>2 DEF None
    <3> QED BY <3>1 DEF Fresh
  <2> QED BY <2>1, <2>2
<1>13. GoodReader(l.reader, l.at)
  BY <1>1, <1>2, <1>10, <1>12 DEF GoodReader
<1>14. l.reader.scratch = b2 /\ l.reader.plaintext_position = p /\ r.plaintext_position = p
  BY <1>1, <1>10, ReaderFields
<1> QED BY <1>10, <1>11, <1>13, <1>14 DEF GoodStep

(* So does decrypting it into the slice of the caller. *)
LEMMA DirectKeeps ==
    ASSUME Setting, NEW r, GoodReader(r, at), NEW i \in 0 .. Len(sent.segments) - 1, NEW segment,
           segment = SegmentAt(LayoutOf(sent), i), NEW trouble \in Troubles,
           NEW l, l = decrypt_segment_direct(r, segment, trouble)
    PROVE  GoodStep(l, r) /\ (l.ok => l.bytes = PayloadOf(sent, i + 1))
<1>1. PICK k, s, b, p, cached, inner :
        /\ r = ReaderRecord(contexts.ours, k, LayoutOf(sent), s, b, p, cached, inner)
        /\ LabelledCache(k, contexts.ours) /\ Anchored(s) /\ IsBuffer(b) /\ p \in Nat
        /\ inner \in {None, Some(at)} /\ Fresh(cached, b)
  BY DEF GoodReader
<1>2. PICK c, y : c = contexts.ours /\ y = LayoutOf(sent)
  OBVIOUS
<1>3. i \in Nat /\ segment.position = i
  BY SegmentNumbers
<1>4. PICK offset \in Nat : offset = segment.ciphertext_offset
  BY SegmentNumbers
<1>5. PICK length \in Nat \ {0} : length = segment.ciphertext_length
  BY SegmentNumbers
<1>6. PICK kind, fault : kind = segment.kind /\ fault = trouble.fault
  OBVIOUS
<1>7. s \in Nat /\ at \in Nat /\ trouble.budget \in Nat
  BY <1>1, TroubleFields DEF Anchored, Setting
<1>8. PICK B : source \in Seq(B)
  BY DEF Setting
<1>9. Direct(l, c, k, y, s, b, p, i, kind, offset, length, fault)
  BY <1>1, <1>2, <1>3, <1>4, <1>5, <1>6, <1>7, <1>8, DirectForm, ZenonT(60)
<1>10. PICK k2, b2, i2 :
        /\ l.reader = ReaderRecord(c, k2, y, s, b2, p, None, i2)
        /\ LabelledCache(k2, c) /\ IsBuffer(b2)
        /\ l.at \in Nat /\ i2 \in {None, Some(l.at)}
        /\ l.ok => \E o : /\ OpenedThere(o, k, c, s + offset, length, i, kind, fault)
                          /\ l.bytes = o.plaintext.data
  BY <1>9 DEF Direct
<1>11. l.ok => l.bytes = PayloadOf(sent, i + 1)
  <2> SUFFICES ASSUME l.ok
               PROVE  l.bytes = PayloadOf(sent, i + 1)
    OBVIOUS
  <2>1. PICK o : /\ OpenedThere(o, k, c, s + offset, length, i, kind, fault)
                 /\ l.bytes = o.plaintext.data
    BY <1>10
  <2>2. PICK place \in Nat : place = s + offset
    BY <1>7
  <2>3. o.plaintext.data = PayloadOf(sent, i + 1)
    BY <1>1, <1>2, <1>3, <2>1, <2>2, OpenedPayload
  <2> QED BY <2>1, <2>3
<1>12. Fresh(None, b2)
  BY DEF Fresh, None
<1>13. GoodReader(l.reader, l.at)
  BY <1>1, <1>2, <1>10, <1>12 DEF GoodReader
<1>14. l.reader.plaintext_position = p /\ r.plaintext_position = p
  BY <1>1, <1>10, ReaderFields
<1> QED BY <1>10, <1>11, <1>13, <1>14 DEF GoodStep

(* So does reusing the cached one. *)
LEMMA CachedKeeps ==
    ASSUME Setting, NEW r, GoodReader(r, at), NEW i \in 0 .. Len(sent.segments) - 1, NEW segment,
           segment = SegmentAt(LayoutOf(sent), i), NEW trouble \in Troubles,
           NEW l, l = load_cached_segment(r, segment, trouble)
    PROVE  GoodStep(l, r) /\ (l.ok => l.reader.scratch.payload = PayloadOf(sent, i + 1))
<1>1. segment.position = i
  BY SegmentNumbers
<1>2. CASE r.cached_position = Some(i)
  <2>1. l = Reached(r, at, TRUE, <<>>)
    BY <1>1, <1>2 DEF load_cached_segment
  <2>2. l.reader = r /\ l.at = at
    BY <2>1 DEF Reached
  <2>3. PICK k, s, b, p, cached, inner :
          /\ r = ReaderRecord(contexts.ours, k, LayoutOf(sent), s, b, p, cached, inner)
          /\ Fresh(cached, b)
    BY DEF GoodReader
  <2>4. r.scratch = b /\ i \in cached
    BY <1>2, <2>3, ReaderFields DEF Some
  <2>5. b.payload = PayloadOf(sent, i + 1)
    BY <2>3, <2>4 DEF Fresh
  <2> QED BY <2>2, <2>4, <2>5 DEF GoodStep, Setting
<1>3. CASE r.cached_position # Some(i)
  <2>1. l = load_segment(r, segment, trouble)
    BY <1>1, <1>3 DEF load_cached_segment
  <2> QED BY <2>1, LoadKeeps
<1> QED BY <1>2, <1>3

-----------------------------------------------------------------------------
(* Bytes of the plaintext. *)

(* The slice that is the range of a File's answer. *)
LEMMA SliceIsRange ==
    ASSUME NEW s, NEW a \in Nat, NEW n \in Nat, NEW to, to = a + n
    PROVE  Slice(s, a, n) = SubSeq(s, a + 1, to)
BY DEF Slice

-----------------------------------------------------------------------------
(* The invariant. *)

(* A range read under way: it has written its bytes up to the segment it   *)
(* is at, which the range meets (read_resolved_range_into).                *)
CallRecord(start, end, written, next) ==
    [range |-> [start |-> start, end |-> end], written |-> written, next |-> next]

WrittenBefore(start, next) ==
    Slice(sent.bytes, start, IF next * capacity <= start THEN 0 ELSE next * capacity - start)

GoodCall(call) ==
    \E start, end, next \in Nat :
        /\ call = CallRecord(start, end, WrittenBefore(start, next), next)
        /\ start < end /\ end <= Len(sent.bytes)
        /\ next * capacity < end /\ start < (next + 1) * capacity

GoodCalls ==
    \/ ranging = None
    \/ answer = no_answer /\ \E call : ranging = Some(call) /\ GoodCall(call)

(* Before a Reader is made, its source is still at the message; then it is *)
(* a Reader of this message, as far as it got.                             *)
Unopened ==
    /\ reader = None /\ ranging = None
    /\ answer = no_answer => GoodSource(source, at, sent)

Opened ==
    /\ \E r, pos : reader = Some(r) /\ pos = at /\ GoodReader(r, pos)
    /\ Laid /\ GoodCalls

ReaderInv ==
    /\ IsMessage(sent) /\ at \in Nat
    /\ source \in Seq(BytesOf(Items(sent)) \cup {junk[1]})
    /\ Unopened \/ Opened

(* The invariant holds at first. *)
LEMMA InitInv == Init => ReaderInv
<1> SUFFICES ASSUME Init PROVE ReaderInv
  OBVIOUS
<1>1. IsMessage(sent) /\ at \in Nat /\ GoodSource(source, at, sent)
  BY InitialSource
<1>2. source \in Seq(BytesOf(Items(sent)) \cup {junk[1]})
  BY <1>1 DEF GoodSource
<1>3. Unopened
  BY <1>1 DEF Init, Unopened
<1> QED BY <1>1, <1>2, <1>3 DEF ReaderInv

(* What is said of the message and its source stays true. *)
LEMMA SameMessage ==
    ASSUME sent' = sent, source' = source
    PROVE  /\ IsMessage(sent) => IsMessage(sent)'
           /\ (source \in Seq(BytesOf(Items(sent)) \cup {junk[1]}))
                => (source \in Seq(BytesOf(Items(sent)) \cup {junk[1]}))'
           /\ Laid => Laid'
<1>1. IsMessage(sent)' <=> IsMessage(sent)
  BY DEF IsMessage, IsMessageOf, SegmentOf, KindOf, PayloadOf
<1>2. (source \in Seq(BytesOf(Items(sent)) \cup {junk[1]}))'
        <=> source \in Seq(BytesOf(Items(sent)) \cup {junk[1]})
  BY DEF Items, BytesOf
<1>3. Laid' <=> Laid
  BY DEF Laid, LayoutOf
<1> QED BY <1>1, <1>2, <1>3

(* A Reader stays good while the message and its source stay. *)
LEMMA SameReader ==
    ASSUME sent' = sent, source' = source, NEW r, NEW pos, GoodReader(r, pos)
    PROVE  GoodReader(r, pos)'
BY DEF GoodReader, Anchored, FinalOffset, Fresh, LayoutOf

(* So does a range read under way. *)
LEMMA SameCall ==
    ASSUME sent' = sent, NEW call, GoodCall(call)
    PROVE  GoodCall(call)'
BY DEF GoodCall, WrittenBefore

(* A step that leaves a good Reader keeps the invariant. *)
LEMMA StaysOpen ==
    ASSUME ReaderInv, Laid, sent' = sent, source' = source, NEW r, NEW pos \in Nat,
           GoodReader(r, pos), reader' = Some(r), at' = pos,
           \/ ranging' = None
           \/ answer' = no_answer /\ \E call : ranging' = Some(call) /\ GoodCall(call)
    PROVE  ReaderInv'
<1>1. /\ IsMessage(sent)' /\ (at \in Nat)' /\ Laid'
      /\ (source \in Seq(BytesOf(Items(sent)) \cup {junk[1]}))'
  BY SameMessage DEF ReaderInv
<1>2. GoodReader(r, pos)'
  BY SameReader
<1>3. GoodCalls'
  BY SameCall DEF GoodCalls
<1>4. Opened'
  BY <1>1, <1>2, <1>3 DEF Opened
<1> QED BY <1>1, <1>4 DEF ReaderInv

-----------------------------------------------------------------------------
(* The steps of SeekableFile, in terms of the Reader. *)

FileStep == File!Next \/ UNCHANGED File!vars

(* The position of the file is that of the Reader. *)
LEMMA MappedPosition ==
    ASSUME NEW r
    PROVE  /\ reader = Some(r) => /\ reader # None
                                  /\ (CHOOSE x \in reader : TRUE).plaintext_position
                                       = r.plaintext_position
           /\ reader' = Some(r) => /\ reader' # None
                                   /\ (CHOOSE x \in reader' : TRUE).plaintext_position
                                        = r.plaintext_position
<1>1. PICK z : z = Some(r)
  OBVIOUS
<1>2. z # None /\ (CHOOSE x \in z : TRUE) = r
  BY <1>1, SMT DEF Some, None
<1>3. (CHOOSE x \in z : TRUE).plaintext_position = r.plaintext_position
  BY <1>2, Zenon
<1>4. ASSUME reader = Some(r)
      PROVE  reader # None /\ (CHOOSE x \in reader : TRUE).plaintext_position = r.plaintext_position
  BY <1>1, <1>2, <1>3, <1>4, Zenon
<1>5. ASSUME reader' = Some(r)
      PROVE  reader' # None /\ (CHOOSE x \in reader' : TRUE).plaintext_position = r.plaintext_position
  BY <1>1, <1>2, <1>3, <1>5, Zenon
<1> QED BY <1>4, <1>5

(* A sequential read of the file. *)
LEMMA FileReads ==
    ASSUME sent' = sent, NEW r, NEW r2, reader = Some(r), reader' = Some(r2),
           NEW p \in Nat, r.plaintext_position = p, NEW n \in Nat, r2.plaintext_position = p + n,
           Len(sent.bytes) \in Nat, p + n <= Len(sent.bytes) \/ n = 0,
           n = 0 <=> p >= Len(sent.bytes),
           Answers("read", TRUE, p, p + n, SubSeq(sent.bytes, p + 1, p + n))
    PROVE  FileStep
<1>1. n \in 0 .. Len(sent.bytes)
  OBVIOUS
<1>2. File!Read
  <2>1. PICK q : q = p + n
    OBVIOUS
  <2>2. /\ (reader # None) /\ (reader' # None)
        /\ (IF reader = None THEN 0 ELSE (CHOOSE x \in reader : TRUE).plaintext_position) = p
        /\ (IF reader' = None THEN 0 ELSE (CHOOSE x \in reader' : TRUE).plaintext_position) = q
    BY <2>1, MappedPosition
  <2>3. File!Answered("read", TRUE, p, p + n)
    BY DEF File!Answered, Answers
  <2> QED BY <1>1, <2>1, <2>2, <2>3 DEF File!Read
<1> QED BY <1>2 DEF FileStep, File!Next

(* A positioned read of the file. *)
LEMMA FileReadsAt ==
    ASSUME sent' = sent, NEW r, NEW r2, reader = Some(r), reader' = Some(r2),
           r2.plaintext_position = r.plaintext_position,
           NEW from \in Nat, NEW to \in Nat, from <= to, to <= Len(sent.bytes),
           Len(sent.bytes) \in Nat,
           Answers("read_at", TRUE, from, to, SubSeq(sent.bytes, from + 1, to))
    PROVE  FileStep
<1>1. from \in 0 .. Len(sent.bytes) /\ to \in from .. Len(sent.bytes)
  OBVIOUS
<1>2. File!ReadAt
  <2>1. PICK p : p = r.plaintext_position
    OBVIOUS
  <2>2. /\ (reader # None) /\ (reader' # None)
        /\ (IF reader = None THEN 0 ELSE (CHOOSE x \in reader : TRUE).plaintext_position) = p
        /\ (IF reader' = None THEN 0 ELSE (CHOOSE x \in reader' : TRUE).plaintext_position) = p
    BY <2>1, MappedPosition
  <2>3. File!Answered("read_at", TRUE, from, to)
    BY DEF File!Answered, Answers
  <2> QED BY <1>1, <2>1, <2>2, <2>3 DEF File!ReadAt
<1> QED BY <1>2 DEF FileStep, File!Next

(* A call that fails and moves no position. *)
LEMMA FileFails ==
    ASSUME sent' = sent, NEW r, NEW r2, reader = Some(r), reader' = Some(r2),
           r2.plaintext_position = r.plaintext_position, NEW op \in {"read", "read_at", "seek"},
           Answers(op, FALSE, 0, 0, <<>>)
    PROVE  FileStep
<1>1. File!Fail
  <2>1. PICK p : p = r.plaintext_position
    OBVIOUS
  <2>2. /\ (reader # None) /\ (reader' # None)
        /\ (IF reader = None THEN 0 ELSE (CHOOSE x \in reader : TRUE).plaintext_position) = p
        /\ (IF reader' = None THEN 0 ELSE (CHOOSE x \in reader' : TRUE).plaintext_position) = p
    BY <2>1, MappedPosition
  <2>3. File!Answered(op, FALSE, 0, 0)
    BY DEF File!Answered, Answers
  <2> QED BY <2>1, <2>2, <2>3 DEF File!Fail
<1> QED BY <1>1 DEF FileStep, File!Next

(* A call without bytes. *)
LEMMA FileDoesOther ==
    ASSUME sent' = sent, NEW r, NEW r2, reader = Some(r), reader' = Some(r2),
           r2.plaintext_position = r.plaintext_position, NEW op \in {"read_empty", "get_mut"},
           Answers(op, TRUE, 0, 0, <<>>)
    PROVE  FileStep
<1>1. File!Other
  <2>1. PICK p : p = r.plaintext_position
    OBVIOUS
  <2>2. /\ (reader # None) /\ (reader' # None)
        /\ (IF reader = None THEN 0 ELSE (CHOOSE x \in reader : TRUE).plaintext_position) = p
        /\ (IF reader' = None THEN 0 ELSE (CHOOSE x \in reader' : TRUE).plaintext_position) = p
    BY <2>1, MappedPosition
  <2>3. File!Answered(op, TRUE, 0, 0)
    BY EmptySlice DEF File!Answered, Answers
  <2> QED BY <2>1, <2>2, <2>3 DEF File!Other
<1> QED BY <1>1 DEF FileStep, File!Next

(* A seek in the file. *)
LEMMA FileSeeks ==
    ASSUME sent' = sent, NEW r, NEW r2, reader = Some(r), reader' = Some(r2),
           NEW p \in 0 .. U64_MAX, r2.plaintext_position = p,
           Answers("seek", TRUE, p, p, <<>>), U64_MAX \in Nat
    PROVE  FileStep
<1>1. File!Seek
  <2>2. /\ (reader # None) /\ (reader' # None)
        /\ (IF reader' = None THEN 0 ELSE (CHOOSE x \in reader' : TRUE).plaintext_position) = p
    BY MappedPosition
  <2>3. SubSeq(sent.bytes, p + 1, p) = <<>>
    BY EmptySlice
  <2>4. File!Answered("seek", TRUE, p, p)
    BY <2>3 DEF File!Answered, Answers
  <2>5. File!Answered("seek", TRUE, p, p)
          <=> File!Answered("seek", TRUE, 
                IF reader' = None THEN 0 ELSE (CHOOSE x \in reader' : TRUE).plaintext_position,
                IF reader' = None THEN 0 ELSE (CHOOSE x \in reader' : TRUE).plaintext_position)
    BY <2>2
  <2> QED BY <2>2, <2>4, <2>5 DEF File!Seek
<1> QED BY <1>1 DEF FileStep, File!Next

-----------------------------------------------------------------------------
(* The operations. *)

(* What the invariant says of a Reader there is. *)
LEMMA OpenReader ==
    ASSUME ReaderInv, NEW r \in reader
    PROVE  /\ reader = Some(r) /\ Setting /\ Laid /\ GoodReader(r, at) /\ GoodCalls
           /\ reader # None /\ at \in Nat
<1>1. reader # None
  BY DEF None
<1>2. Opened
  BY <1>1 DEF ReaderInv, Unopened
<1>3. PICK x, pos : reader = Some(x) /\ pos = at /\ GoodReader(x, pos)
  BY <1>2 DEF Opened
<1>4. r = x
  BY <1>3 DEF Some
<1>5. GoodReader(r, at)
  BY <1>3, <1>4
<1> QED BY <1>1, <1>2, <1>3, <1>4, <1>5 DEF Opened, Setting, ReaderInv

(* The numbers of a message. *)
LEMMA MessageShape ==
    ASSUME IsMessage(sent)
    PROVE  /\ capacity \in Nat \ {0} /\ sent.bytes \in Seq(Nat) /\ Len(sent.bytes) \in Nat
           /\ Len(sent.segments) \in Nat \ {0}
           /\ (Len(sent.segments) - 1) * capacity <= Len(sent.bytes)
           /\ Len(sent.bytes) <= Len(sent.segments) * capacity
BY CiphertextsAssumption, SegmentLengths, LenProperties DEF capacity, IsMessage, IsMessageOf

(* A good Reader has the layout of the message. *)
LEMMA ReaderShape ==
    ASSUME NEW r, NEW pos, GoodReader(r, pos)
    PROVE  /\ r.layout = LayoutOf(sent) /\ r.plaintext_position \in Nat
           /\ r.layout.plaintext_length = Len(sent.bytes)
           /\ r.layout.segment_count = Len(sent.segments)
           /\ r.layout.parameters = SegmentLength
<1>1. r.layout = LayoutOf(sent) /\ r.plaintext_position \in Nat
  BY ReaderFields DEF GoodReader
<1>2. PICK y : y = LayoutOf(sent)
  OBVIOUS
<1>3. /\ y.plaintext_length = Len(sent.bytes) /\ y.segment_count = Len(sent.segments)
      /\ y.parameters = SegmentLength
  BY <1>2 DEF LayoutOf, LayoutRecord
<1> QED BY <1>1, <1>2, <1>3

(* Moving the plaintext position keeps a Reader good. *)
LEMMA MovedReader ==
    ASSUME NEW r, NEW pos, GoodReader(r, pos), NEW q \in Nat, NEW r2,
           r2 = [r EXCEPT !.plaintext_position = q]
    PROVE  GoodReader(r2, pos) /\ r2.plaintext_position = q
<1>1. PICK k, s, b, p, cached, inner :
        /\ r = ReaderRecord(contexts.ours, k, LayoutOf(sent), s, b, p, cached, inner)
        /\ LabelledCache(k, contexts.ours) /\ Anchored(s) /\ IsBuffer(b) /\ p \in Nat
        /\ inner \in {None, Some(pos)} /\ Fresh(cached, b)
  BY DEF GoodReader
<1>2. r2 = ReaderRecord(contexts.ours, k, LayoutOf(sent), s, b, q, cached, inner)
  BY <1>1 DEF ReaderRecord
<1>3. r2.plaintext_position = q
  BY <1>2, ReaderFields
<1> QED BY <1>1, <1>2, <1>3 DEF GoodReader

(* A Reader that tracks no position is good wherever the wrapped one is. *)
LEMMA UntrackedReader ==
    ASSUME NEW r, NEW pos, GoodReader(r, pos), NEW to, NEW r2, r2 = after_get_mut(r)
    PROVE  GoodReader(r2, to) /\ r2.plaintext_position = r.plaintext_position
<1>1. PICK k, s, b, p, cached, inner :
        /\ r = ReaderRecord(contexts.ours, k, LayoutOf(sent), s, b, p, cached, inner)
        /\ LabelledCache(k, contexts.ours) /\ Anchored(s) /\ IsBuffer(b) /\ p \in Nat
        /\ inner \in {None, Some(pos)} /\ Fresh(cached, b)
  BY DEF GoodReader
<1>2. r2 = ReaderRecord(contexts.ours, k, LayoutOf(sent), s, b, p, cached, None)
  <2>1. PICK none : none = None
    OBVIOUS
  <2>2. r2 = [r EXCEPT !.inner_position = none]
    BY <2>1 DEF after_get_mut
  <2> QED BY <1>1, <2>1, <2>2 DEF ReaderRecord
<1>3. r2.plaintext_position = p /\ r.plaintext_position = p
  BY <1>1, <1>2, ReaderFields
<1> QED BY <1>1, <1>2, <1>3 DEF GoodReader

(* read, of an empty slice or at the end. *)
LEMMA ReadNothingStep ==
    ASSUME ReaderInv, idle, NEW r \in reader, NEW n \in Nat, read_nothing(r, n)
    PROVE  ReaderInv' /\ FileStep
<1>1. /\ reader = Some(r) /\ Laid /\ GoodReader(r, at) /\ at \in Nat /\ IsMessage(sent)
  BY OpenReader DEF ReaderInv
<1>2. /\ sent' = sent /\ source' = source /\ at' = at /\ reader' = Some(r) /\ ranging' = None
  BY <1>1 DEF read_nothing, idle
<1>3. ReaderInv'
  BY <1>1, <1>2, StaysOpen
<1>4. PICK p \in Nat : p = r.plaintext_position
  BY <1>1, ReaderShape
<1>5. Len(sent.bytes) \in Nat /\ r.layout.plaintext_length = Len(sent.bytes)
  BY <1>1, ReaderShape, MessageShape
<1>6. CASE n = 0
  <2>1. Answers("read_empty", TRUE, 0, 0, <<>>)
    BY <1>6 DEF read_nothing
  <2> QED BY <1>1, <1>2, <1>3, <2>1, FileDoesOther
<1>7. CASE n # 0
  <2>1. Answers("read", TRUE, p, p, <<>>) /\ p >= Len(sent.bytes)
    BY <1>4, <1>5, <1>7 DEF read_nothing
  <2>2. PICK z \in Nat : z = 0 /\ p + z = p
    OBVIOUS
  <2>3. SubSeq(sent.bytes, p + 1, p + z) = <<>>
    BY <2>2, EmptySlice
  <2>4. Answers("read", TRUE, p, p + z, SubSeq(sent.bytes, p + 1, p + z))
    BY <2>1, <2>2, <2>3
  <2>5. z = 0 <=> p >= Len(sent.bytes)
    BY <2>1, <2>2
  <2>6. r.plaintext_position = p + z
    BY <1>4, <2>2
  <2>7. FileStep
    BY <1>1, <1>2, <1>4, <1>5, <2>2, <2>4, <2>5, <2>6, FileReads
  <2> QED BY <1>3, <2>7
<1> QED BY <1>6, <1>7

(* get_mut. *)
LEMMA GetMutStep ==
    ASSUME ReaderInv, idle, NEW r \in reader, NEW position \in Nat, get_mut(r, position)
    PROVE  ReaderInv' /\ FileStep
<1>1. /\ reader = Some(r) /\ Laid /\ GoodReader(r, at)
  BY OpenReader
<1>2. PICK r2 : r2 = after_get_mut(r)
  OBVIOUS
<1>3. GoodReader(r2, position) /\ r2.plaintext_position = r.plaintext_position
  BY <1>1, <1>2, UntrackedReader
<1>4. /\ sent' = sent /\ source' = source /\ at' = position /\ reader' = Some(r2)
      /\ ranging' = None /\ Answers("get_mut", TRUE, 0, 0, <<>>)
  BY <1>2 DEF get_mut, idle
<1>5. ReaderInv'
  BY <1>1, <1>3, <1>4, StaysOpen
<1> QED BY <1>1, <1>3, <1>4, <1>5, FileDoesOther

(* The caller goes on. *)
LEMMA TakeAnswerStep ==
    ASSUME ReaderInv, take_answer
    PROVE  ReaderInv' /\ FileStep
<1>1. PICK r : r \in reader
  BY DEF take_answer, None
<1>2. reader = Some(r) /\ Laid /\ GoodReader(r, at) /\ GoodCalls /\ at \in Nat
  BY <1>1, OpenReader
<1>3. /\ sent' = sent /\ source' = source /\ at' = at /\ reader' = Some(r) /\ ranging' = None
      /\ answer' = no_answer /\ reader' = reader
  BY <1>2 DEF take_answer, GoodCalls
<1>4. ReaderInv'
  BY <1>2, <1>3, StaysOpen
<1>5. File!Take
  BY <1>2, <1>3, MappedPosition DEF File!Take, no_answer
<1> QED BY <1>4, <1>5 DEF FileStep, File!Next

(* into_inner. *)
LEMMA IntoInnerStep ==
    ASSUME ReaderInv, into_inner
    PROVE  ReaderInv' /\ FileStep
<1>1. /\ sent' = sent /\ source' = source /\ at' = at /\ reader' = None /\ ranging' = None
      /\ Answers("into_inner", TRUE, 0, 0, <<>>) /\ reader # None
  BY DEF into_inner, idle
<1>2. answer' # no_answer
  BY <1>1 DEF Answers, no_answer
<1>3. /\ IsMessage(sent)' /\ (at \in Nat)'
      /\ (source \in Seq(BytesOf(Items(sent)) \cup {junk[1]}))'
  BY <1>1, SameMessage DEF ReaderInv
<1>4. ReaderInv'
  BY <1>1, <1>2, <1>3 DEF ReaderInv, Unopened
<1>5. File!Answered("into_inner", TRUE, 0, 0)
  BY <1>1, EmptySlice DEF File!Answered, Answers
<1>6. File!Close
  BY <1>1, <1>5 DEF File!Close
<1> QED BY <1>4, <1>6 DEF FileStep, File!Next

(* seek, from the start, the end or the current position. *)
LEMMA SeekStep ==
    ASSUME ReaderInv, idle, NEW r \in reader, NEW whence, NEW offset, seek(r, whence, offset)
    PROVE  ReaderInv' /\ FileStep
<1>1. /\ reader = Some(r) /\ Laid /\ GoodReader(r, at) /\ at \in Nat
  BY OpenReader
<1>2. sent' = sent /\ source' = source /\ at' = at /\ ranging' = None
  BY DEF seek, idle
<1>3. PICK base : base = CASE whence = "Start" -> 0
                           [] whence = "End" -> r.layout.plaintext_length
                           [] whence = "Current" -> r.plaintext_position
  OBVIOUS
<1>4. PICK resolved : resolved = checked_add_signed(base, offset)
  OBVIOUS
<1>5. /\ reader' = IF resolved = None THEN reader
                   ELSE {[r EXCEPT !.plaintext_position = p] : p \in resolved}
      /\ IF resolved = None THEN Answers("seek", FALSE, 0, 0, <<>>)
         ELSE \E p \in resolved : Answers("seek", TRUE, base + offset, p, <<>>)
  BY <1>3, <1>4, Zenon DEF seek
<1>6. CASE resolved = None
  <2>1. reader' = Some(r) /\ Answers("seek", FALSE, 0, 0, <<>>)
    BY <1>1, <1>5, <1>6
  <2>2. ReaderInv'
    BY <1>1, <1>2, <2>1, StaysOpen
  <2> QED BY <1>1, <1>2, <2>1, <2>2, FileFails
<1>7. CASE resolved # None
  <2>1. PICK q : q = base + offset
    OBVIOUS
  <2>2. q \in 0 .. U64_MAX /\ resolved = Some(q)
    BY <1>4, <1>7, <2>1 DEF checked_add_signed
  <2>3. Answers("seek", TRUE, q, q, <<>>)
    BY <1>5, <1>7, <2>1, <2>2 DEF Some
  <2>4. PICK r2 : r2 = [r EXCEPT !.plaintext_position = q]
    OBVIOUS
  <2>5. reader' = Some(r2)
    BY <1>5, <1>7, <2>2, <2>4 DEF Some
  <2>6. U64_MAX \in Nat /\ q \in Nat
    BY <2>2, ParametersAssumption
  <2>7. GoodReader(r2, at) /\ r2.plaintext_position = q
    BY <1>1, <2>4, <2>6, MovedReader
  <2>8. ReaderInv'
    BY <1>1, <1>2, <2>5, <2>7, StaysOpen
  <2> QED BY <1>1, <1>2, <2>2, <2>3, <2>5, <2>6, <2>7, <2>8, FileSeeks
<1> QED BY <1>6, <1>7

(* A call that opened a segment and failed, or ended without moving the    *)
(* plaintext position.                                                     *)
LEMMA EndsKeeps ==
    ASSUME ReaderInv, NEW r \in reader, NEW l, GoodStep(l, r), NEW op, NEW from, NEW to, NEW bytes,
           Ends(op, l, from, to, bytes), ranging' = None
    PROVE  /\ ReaderInv' /\ sent' = sent /\ reader = Some(r) /\ reader' = Some(l.reader)
           /\ l.reader.plaintext_position = r.plaintext_position
           /\ ~l.ok /\ op \in {"read", "read_at"} => FileStep
<1>1. reader = Some(r) /\ Laid
  BY OpenReader
<1>2. PICK r2, pos : r2 = l.reader /\ pos = l.at
  OBVIOUS
<1>3. GoodReader(r2, pos) /\ pos \in Nat /\ r2.plaintext_position = r.plaintext_position
  BY <1>2 DEF GoodStep
<1>4. sent' = sent /\ source' = source /\ reader' = Some(r2) /\ at' = pos
  BY <1>2 DEF Ends
<1>5. ReaderInv'
  BY <1>1, <1>3, <1>4, StaysOpen
<1>6. ASSUME ~l.ok, op \in {"read", "read_at"} PROVE FileStep
  <2>1. Answers(op, FALSE, 0, 0, <<>>)
    BY <1>6 DEF Ends
  <2>2. op \in {"read", "read_at", "seek"}
    BY <1>6
  <2> QED BY <1>1, <1>3, <1>4, <2>1, <2>2, FileFails
<1> QED BY <1>1, <1>2, <1>3, <1>4, <1>5, <1>6

(* A call that is refused before it reaches the source. *)
LEMMA RefusedStep ==
    ASSUME ReaderInv, idle, NEW r \in reader, Refused("read_at")
    PROVE  ReaderInv' /\ FileStep
<1>1. /\ reader = Some(r) /\ Laid /\ GoodReader(r, at) /\ at \in Nat
  BY OpenReader
<1>2. /\ sent' = sent /\ source' = source /\ at' = at /\ ranging' = None /\ reader' = Some(r)
      /\ Answers("read_at", FALSE, 0, 0, <<>>)
  BY <1>1 DEF Refused, idle
<1>3. ReaderInv'
  BY <1>1, <1>2, StaysOpen
<1> QED BY <1>1, <1>2, <1>3, FileFails

(* Where a segment of the message lies in its plaintext. *)
LEMMA SegmentPlaintext ==
    ASSUME IsMessage(sent), Laid, NEW i \in 0 .. Len(sent.segments) - 1, NEW segment,
           segment = SegmentAt(LayoutOf(sent), i), NEW payload, payload = PayloadOf(sent, i + 1)
    PROVE  /\ segment_for_position(LayoutOf(sent), i) = Some(segment)
           /\ i * capacity \in Nat /\ segment.plaintext_offset = i * capacity
           /\ segment.plaintext_length = Len(payload)
           /\ payload \in Seq(Nat) /\ Len(payload) \in 0 .. capacity
           /\ i # Len(sent.segments) - 1 => Len(payload) = capacity
           /\ i = Len(sent.segments) - 1 => i * capacity + Len(payload) = Len(sent.bytes)
           /\ i * capacity + Len(payload) <= Len(sent.bytes)
           /\ payload = Slice(sent.bytes, i * capacity, Len(payload))
<1>1. /\ segment_for_position(LayoutOf(sent), i) = Some(segment) /\ LaidOut(segment, sent, i)
  BY SegmentOfLayout DEF Laid
<1>2. /\ capacity \in Nat \ {0} /\ Len(sent.segments) \in Nat \ {0} /\ Len(sent.bytes) \in Nat
  BY MessageShape
<1>3. PICK j \in 1 .. Len(sent.segments) : j = i + 1
  BY <1>2
<1>4. PICK start \in Nat : start = i * capacity
  BY <1>2
<1>5. j - 1 = i /\ (j - 1) * capacity = start
  BY <1>3, <1>4
<1>6. /\ payload = PayloadOf(sent, j) /\ payload \in Seq(Nat) /\ Len(payload) \in 0 .. capacity
      /\ j # Len(sent.segments) => Len(payload) = capacity
      /\ j = Len(sent.segments) => Len(payload) = Len(sent.bytes) - (j - 1) * capacity
      /\ (j - 1) * capacity + Len(payload) <= Len(sent.bytes)
  BY <1>3, SegmentsForm
<1>7. PICK m : m = least(capacity, Len(sent.bytes) - start)
  OBVIOUS
<1>8. payload = Slice(sent.bytes, start, m)
  BY <1>5, <1>6, <1>7 DEF PayloadOf
<1>9. m = Len(payload)
  <2>1. m \in Nat /\ start + m <= Len(sent.bytes)
    BY <1>2, <1>5, <1>6, <1>7 DEF least
  <2>2. sent.bytes \in Seq(Nat)
    BY MessageShape
  <2>3. PICK b \in Seq(Nat), a \in Nat : b = sent.bytes /\ a = start
    BY <1>5, <2>2
  <2>4. Len(Slice(b, a, m)) = m
    BY <2>1, <2>3, SliceOf
  <2> QED BY <1>8, <2>3, <2>4
<1>10. segment.plaintext_offset = i * capacity /\ segment.plaintext_length = Len(payload)
  BY <1>1 DEF LaidOut
<1>11. /\ i # Len(sent.segments) - 1 => Len(payload) = capacity
       /\ i = Len(sent.segments) - 1 => start + Len(payload) = Len(sent.bytes)
       /\ start + Len(payload) <= Len(sent.bytes)
  BY <1>2, <1>3, <1>5, <1>6, SMTT(30)
<1> QED BY <1>1, <1>4, <1>6, <1>8, <1>9, <1>10, <1>11

(* read_segment and read_segment_into. *)
LEMMA ReadSegmentStep ==
    ASSUME ReaderInv, idle, NEW r \in reader, NEW position \in Nat, NEW room,
           NEW trouble \in Troubles, read_segment(r, position, room, trouble)
    PROVE  ReaderInv' /\ FileStep
<1>1. /\ reader = Some(r) /\ Setting /\ Laid /\ GoodReader(r, at) /\ IsMessage(sent)
  BY OpenReader DEF ReaderInv
<1>2. PICK found : found = segment_for_position(r.layout, position)
  OBVIOUS
<1>3. CASE found = None \/ ~room
  BY <1>2, <1>3, RefusedStep DEF read_segment
<1>4. CASE ~(found = None \/ ~room)
  <2>1. r.layout = LayoutOf(sent) /\ r.layout.segment_count = Len(sent.segments)
    BY <1>1, ReaderShape
  <2>2. Len(sent.segments) \in Nat \ {0} /\ Len(sent.bytes) \in Nat
    BY <1>1, MessageShape
  <2>3. position \in 0 .. Len(sent.segments) - 1
    BY <1>2, <1>4, <2>1, <2>2 DEF segment_for_position
  <2>4. PICK segment, payload : /\ segment = SegmentAt(LayoutOf(sent), position)
                                /\ payload = PayloadOf(sent, position + 1)
    OBVIOUS
  <2>5. PICK start, m, to : start = position * capacity /\ m = Len(payload) /\ to = start + m
    OBVIOUS
  <2>6. /\ start \in Nat /\ m \in 0 .. capacity /\ start + m <= Len(sent.bytes)
         /\ found = Some(segment) /\ segment.plaintext_offset = start
         /\ segment.plaintext_length = m /\ payload = Slice(sent.bytes, start, m)
    BY <1>1, <1>2, <2>1, <2>3, <2>4, <2>5, SegmentPlaintext
  <2>7. capacity \in Nat
    BY <1>1, MessageShape
  <2>8. m \in Nat
    BY <2>6, <2>7
  <2>9. start \in Nat /\ to \in Nat /\ start <= to /\ to <= Len(sent.bytes)
    BY <2>2, <2>5, <2>6, <2>8
  <2>10. (CHOOSE x \in found : TRUE) = segment
    BY <2>6, ChooseSome
  <2>11. PICK l : l = decrypt_segment_direct(r, segment, trouble)
    OBVIOUS
  <2>12. Ends("read_at", l, start, to, l.bytes) /\ ranging' = None
    BY <1>2, <1>4, <2>5, <2>10, <2>11, <2>6 DEF read_segment, idle
  <2>13. GoodStep(l, r) /\ (l.ok => l.bytes = payload)
    BY <1>1, <2>3, <2>4, <2>11, DirectKeeps
  <2>14. /\ ReaderInv' /\ sent' = sent /\ reader' = Some(l.reader)
         /\ l.reader.plaintext_position = r.plaintext_position
         /\ ~l.ok => FileStep
    BY <2>12, <2>13, EndsKeeps
  <2>15. CASE l.ok
    <3>1. payload = SubSeq(sent.bytes, start + 1, to)
      BY <2>5, <2>6, Zenon DEF Slice
    <3>2. Answers("read_at", TRUE, start, to, SubSeq(sent.bytes, start + 1, to))
      BY <2>12, <2>13, <2>15, <3>1 DEF Ends
    <3>3. PICK r2 : r2 = l.reader
      OBVIOUS
    <3>4. FileStep
      BY <1>1, <2>2, <2>9, <2>14, <3>2, <3>3, FileReadsAt
    <3> QED BY <2>14, <3>4
  <2> QED BY <2>14, <2>15
<1> QED BY <1>3, <1>4

(* Every step is a record of its fields. *)
IsReached(l) == \E r, pos, ok, bytes : l = Reached(r, pos, ok, bytes)

(* Loading a segment ends with a step of this form. *)
LEMMA CachedIsReached ==
    ASSUME NEW r, NEW segment, NEW trouble
    PROVE  IsReached(load_cached_segment(r, segment, trouble))
<1>1. ASSUME NEW x, NEW offset, NEW outcome PROVE IsReached(seek_inner_to(x, offset, outcome))
  BY DEF seek_inner_to, IsReached
<1>2. ASSUME NEW x PROVE IsReached(seek_to_segment(x, segment, trouble.seek))
  <2>1. PICK offset, o : /\ offset = checked_add(x.message_start, segment.ciphertext_offset)
                         /\ o = CHOOSE z \in offset : TRUE
    OBVIOUS
  <2>2. IsReached(seek_inner_to(x, o, trouble.seek))
    BY <1>1
  <2>3. IsReached(Reached(x, at, FALSE, <<>>))
    BY DEF IsReached
  <2>4. seek_to_segment(x, segment, trouble.seek)
          = IF offset = None THEN Reached(x, at, FALSE, <<>>)
            ELSE seek_inner_to(x, o, trouble.seek)
    BY <2>1 DEF seek_to_segment
  <2> QED BY <2>2, <2>3, <2>4
<1>3. ASSUME NEW x PROVE IsReached(fetch_segment_ciphertext(x, segment, trouble))
  BY <1>2 DEF fetch_segment_ciphertext, IsReached
<1>4. IsReached(load_segment(r, segment, trouble))
  BY <1>3 DEF load_segment, IsReached
<1> QED BY <1>4 DEF load_cached_segment, IsReached

(* The step of a read moves the plaintext position only. *)
LEMMA MovedStep ==
    ASSUME NEW l, IsReached(l), NEW q, NEW l2, l2 = [l EXCEPT !.reader.plaintext_position = q]
    PROVE  /\ l2.reader = [l.reader EXCEPT !.plaintext_position = q]
           /\ l2.at = l.at /\ l2.ok = l.ok
<1>1. PICK r, pos, ok, bytes : l = Reached(r, pos, ok, bytes)
  BY DEF IsReached
<1>2. l2 = Reached([r EXCEPT !.plaintext_position = q], pos, ok, bytes)
  BY <1>1 DEF Reached
<1>3. PICK r2 : r2 = [r EXCEPT !.plaintext_position = q]
  OBVIOUS
<1>4. /\ l.reader = r /\ l.at = pos /\ l2.reader = r2 /\ l2.at = pos
  BY <1>1, <1>2, <1>3 DEF Reached
<1>5. l.ok = ok /\ l2.ok = ok
  BY <1>1, <1>2 DEF Reached
<1> QED BY <1>3, <1>4, <1>5

(* Multiplication by a natural number is monotonic. *)
LEMMA Scaling ==
    ASSUME NEW a \in Nat, NEW b \in Nat, NEW c \in Nat, a <= b
    PROVE  a * c <= b * c
<1>1. PICK d \in Nat : b = a + d
  <2>1. b - a \in Nat /\ b = a + (b - a)
    OBVIOUS
  <2> QED BY <2>1
<1>2. b * c = a * c + d * c /\ d * c \in Nat /\ a * c \in Nat
  BY <1>1
<1> QED BY <1>2

(* One more segment is one more capacity. *)
LEMMA Successor ==
    ASSUME NEW i \in Nat, NEW c \in Nat
    PROVE  i * c \in Nat /\ c * i = i * c /\ (i + 1) * c = i * c + c
OBVIOUS

(* The segment with an offset in the plaintext, and where in its payload   *)
(* the offset is (MessageLayout::position_for_plaintext_offset).           *)
LEMMA OffsetInSegment ==
    ASSUME IsMessage(sent), Laid, NEW p \in Nat, p < Len(sent.bytes),
           NEW i, i = p \div capacity
    PROVE  /\ i \in 0 .. Len(sent.segments) - 1
           /\ i * capacity <= p /\ p < i * capacity + Len(PayloadOf(sent, i + 1))
<1>1. /\ capacity \in Nat \ {0} /\ Len(sent.segments) \in Nat \ {0} /\ Len(sent.bytes) \in Nat
      /\ Len(sent.bytes) <= Len(sent.segments) * capacity
  BY MessageShape
<1>2. PICK start, end : start = i * capacity /\ end = (i + 1) * capacity
  OBVIOUS
<1>3. /\ start \in Nat /\ i \in Nat /\ end = start + capacity /\ start <= p /\ p < end
  <2>1. /\ i \in Nat /\ p % capacity \in 0 .. capacity - 1
        /\ p = capacity * i + (p % capacity)
    BY <1>1, DivMod
  <2>2. start \in Nat /\ end = start + capacity /\ capacity * i = start
    BY <1>1, <1>2, <2>1, Successor
  <2> QED BY <1>1, <2>1, <2>2
<1>4. i < Len(sent.segments)
  <2>1. ASSUME Len(sent.segments) <= i PROVE FALSE
    <3>1. Len(sent.segments) * capacity <= i * capacity
      BY <1>1, <1>3, <2>1, Scaling
    <3>2. PICK limit : limit = Len(sent.segments) * capacity
      OBVIOUS
    <3>3. Len(sent.bytes) <= limit /\ limit <= start /\ limit \in Int
      BY <1>1, <1>2, <3>1, <3>2
    <3> QED BY <1>1, <1>3, <3>3
  <2> QED BY <1>1, <1>3, <2>1
<1>5. i \in 0 .. Len(sent.segments) - 1
  BY <1>1, <1>3, <1>4
<1>6. PICK payload, m : payload = PayloadOf(sent, i + 1) /\ m = Len(payload)
  OBVIOUS
<1>7. /\ m \in 0 .. capacity
      /\ i # Len(sent.segments) - 1 => m = capacity
      /\ i = Len(sent.segments) - 1 => start + m = Len(sent.bytes)
  BY <1>2, <1>5, <1>6, SegmentPlaintext
<1>8. p < start + m
  BY <1>1, <1>3, <1>7
<1> QED BY <1>2, <1>5, <1>6, <1>8, <1>3

(* The end of a non-empty range, or the position behind a byte, is behind  *)
(* the start of its segment; segments that meet it are the message's.      *)
LEMMA SegmentsBefore ==
    ASSUME IsMessage(sent), NEW i \in Nat, i * capacity < Len(sent.bytes)
    PROVE  i \in 0 .. Len(sent.segments) - 1
<1>1. /\ capacity \in Nat \ {0} /\ Len(sent.segments) \in Nat \ {0} /\ Len(sent.bytes) \in Nat
      /\ Len(sent.bytes) <= Len(sent.segments) * capacity
  BY MessageShape
<1>2. ASSUME Len(sent.segments) <= i PROVE FALSE
  <2>1. Len(sent.segments) * capacity <= i * capacity
    BY <1>1, <1>2, Scaling
  <2>2. PICK end, start : end = Len(sent.segments) * capacity /\ start = i * capacity
    OBVIOUS
  <2>3. end \in Nat /\ start \in Nat
    BY <1>1, <2>2
  <2>4. end <= start /\ start < Len(sent.bytes) /\ Len(sent.bytes) <= end
    BY <1>1, <2>1, <2>2
  <2> QED BY <1>1, <2>3, <2>4
<1> QED BY <1>1, <1>2

(* read, before the end: at least one byte, of one segment. *)
LEMMA ReadStep ==
    ASSUME ReaderInv, idle, NEW r \in reader, NEW n \in Nat, NEW trouble \in Troubles,
           read(r, n, trouble)
    PROVE  ReaderInv' /\ FileStep
<1>1. /\ reader = Some(r) /\ Setting /\ Laid /\ GoodReader(r, at) /\ IsMessage(sent)
  BY OpenReader DEF ReaderInv
<1>2. /\ r.layout = LayoutOf(sent) /\ r.layout.plaintext_length = Len(sent.bytes)
      /\ r.layout.parameters = SegmentLength
  BY <1>1, ReaderShape
<1>3. /\ capacity \in Nat \ {0} /\ Len(sent.bytes) \in Nat /\ sent.bytes \in Seq(Nat)
  BY <1>1, MessageShape
<1>4. PICK p \in Nat : p = r.plaintext_position
  BY <1>1, ReaderShape
<1>5. n > 0 /\ p < Len(sent.bytes)
  BY <1>2, <1>4 DEF read
<1>6. PICK i : i = p \div capacity
  OBVIOUS
<1>7. PICK payload, start, m : /\ payload = PayloadOf(sent, i + 1) /\ start = i * capacity
                               /\ m = Len(payload)
  OBVIOUS
<1>8. i \in 0 .. Len(sent.segments) - 1 /\ start <= p /\ p < start + m
  BY <1>1, <1>5, <1>6, <1>7, OffsetInSegment
<1>9. PICK segment : segment = SegmentAt(LayoutOf(sent), i)
  OBVIOUS
<1>10. /\ start \in Nat /\ m \in 0 .. capacity /\ start + m <= Len(sent.bytes)
       /\ payload = Slice(sent.bytes, start, m) /\ payload \in Seq(Nat)
       /\ segment_for_position(LayoutOf(sent), i) = Some(segment)
       /\ segment.plaintext_offset = start
  BY <1>1, <1>7, <1>8, <1>9, SegmentPlaintext
<1>11. segment_with(r, p) = segment
  <2>1. position_for_plaintext_offset(r.layout, p) = i
    BY <1>2, <1>6 DEF position_for_plaintext_offset, capacity
  <2>2. (CHOOSE x \in Some(segment) : TRUE) = segment
    BY ChooseSome
  <2> QED BY <1>2, <1>10, <2>1, <2>2 DEF segment_with
<1>12. PICK l : l = load_cached_segment(r, segment, trouble)
  OBVIOUS
<1>13. GoodStep(l, r) /\ (l.ok => l.reader.scratch.payload = payload)
  BY <1>1, <1>7, <1>8, <1>9, <1>12, CachedKeeps
<1>14. ranging' = None
  BY DEF read, idle
<1>15. CASE ~l.ok
  <2>1. Ends("read", l, 0, 0, <<>>)
    BY <1>4, <1>11, <1>12, <1>15 DEF read
  <2> QED BY <1>13, <1>14, <1>15, <2>1, EndsKeeps
<1>16. CASE l.ok
  <2>1. l.reader.scratch.payload = payload
    BY <1>13, <1>16
  <2>2. PICK local, length, to, bytes :
          /\ local = p - start /\ length = least(n, m - local) /\ to = p + length
          /\ bytes = Slice(payload, local, length)
    OBVIOUS
  <2>3. /\ local \in Nat /\ length \in Nat \ {0} /\ local + length <= m /\ start + local = p
        /\ to \in Nat /\ p + length <= Len(sent.bytes) /\ m \in Nat
    <3>1. PICK all : all = Len(sent.bytes)
      OBVIOUS
    <3>2. all \in Nat /\ start \in Nat /\ m \in Nat /\ n > 0 /\ start <= p /\ p < start + m
          /\ start + m <= all
      BY <1>3, <1>5, <1>8, <1>10, <3>1
    <3>3. /\ local \in Nat /\ m - local \in Nat \ {0} /\ start + local = p
      BY <2>2, <3>2
    <3>4. length \in Nat \ {0} /\ length <= m - local
      BY <2>2, <3>2, <3>3 DEF least
    <3>5. to \in Nat /\ local + length <= m /\ p + length <= all
      BY <2>2, <3>2, <3>3, <3>4
    <3> QED BY <3>1, <3>2, <3>3, <3>4, <3>5
  <2>4. PICK l2 : l2 = [l EXCEPT !.reader.plaintext_position = to]
    OBVIOUS
  <2>5. Ends("read", l2, p, to, bytes)
    BY <1>4, <1>7, <1>10, <1>11, <1>12, <1>16, <2>1, <2>2, <2>4 DEF read
  <2>6. IsReached(l)
    BY <1>12, CachedIsReached
  <2>7. PICK r1, r2, pos : r1 = l.reader /\ r2 = l2.reader /\ pos = l.at
    OBVIOUS
  <2>8. r2 = [r1 EXCEPT !.plaintext_position = to] /\ l2.at = pos /\ l2.ok = l.ok
    BY <2>4, <2>6, <2>7, MovedStep
  <2>9. GoodReader(r1, pos) /\ pos \in Nat
    BY <1>13, <2>7 DEF GoodStep
  <2>10. GoodReader(r2, pos) /\ r2.plaintext_position = to
    BY <2>3, <2>8, <2>9, MovedReader
  <2>11. /\ sent' = sent /\ source' = source /\ reader' = Some(r2) /\ at' = pos
         /\ Answers("read", TRUE, p, to, bytes)
    BY <1>16, <2>5, <2>7, <2>8 DEF Ends
  <2>12. ReaderInv'
    BY <1>1, <1>14, <2>9, <2>10, <2>11, StaysOpen
  <2>13. bytes = SubSeq(sent.bytes, p + 1, to)
    <3>1. Slice(Slice(sent.bytes, start, m), local, length) = Slice(sent.bytes, start + local, length)
      BY <1>3, <1>10, <2>3, SliceOfSlice, SMTT(30)
    <3>2. bytes = Slice(sent.bytes, p, length)
      BY <1>10, <2>2, <2>3, <3>1
    <3> QED BY <2>2, <3>2 DEF Slice
  <2>14. FileStep
    <3>1. length = 0 <=> p >= Len(sent.bytes)
      BY <1>3, <1>5, <2>3
    <3>2. Answers("read", TRUE, p, p + length, SubSeq(sent.bytes, p + 1, p + length))
      BY <2>2, <2>11, <2>13
    <3>3. length \in Nat /\ r2.plaintext_position = p + length
      BY <2>2, <2>3, <2>10
    <3> QED BY <1>1, <1>3, <1>4, <2>3, <2>11, <3>1, <3>2, <3>3, FileReads
  <2> QED BY <2>12, <2>14
<1> QED BY <1>15, <1>16

(* A resolved range lies in the message (resolve_bounds). *)
LEMMA ResolvedRange ==
    ASSUME NEW from \in Bounds, NEW to \in Bounds, NEW length \in Nat,
           NEW range \in resolve_bounds(from, to, length)
    PROVE  \E start, end \in Nat : /\ range = [start |-> start, end |-> end]
                                   /\ start <= end /\ end <= length
<1>1. /\ range \in [start : resolve_start(from), end : resolve_end(to, length)]
      /\ range.start <= range.end /\ range.end <= length
  BY DEF resolve_bounds
<1>2. PICK start \in resolve_start(from), end \in resolve_end(to, length) :
        range = [start |-> start, end |-> end]
  BY <1>1
<1>3. ASSUME NEW n \in RangeEnds PROVE n \in Nat /\ n + 1 \in Nat
  BY <1>3, RandomAccessReaderAssumption, ParametersAssumption
<1>4. ASSUME NEW b \in Bounds
      PROVE  \/ b.kind \in {"Included", "Excluded"} /\ b.value \in RangeEnds
             \/ b.kind = "Unbounded"
  BY DEF Bounds
<1>5. ASSUME NEW n \in RangeEnds PROVE \A x \in checked_add(n, 1) : x \in Nat
  BY <1>3 DEF checked_add, Some, None
<1>6. start \in Nat
  <2>1. CASE from.kind = "Included"
    BY <1>3, <1>4, <2>1 DEF resolve_start, Some
  <2>2. CASE from.kind = "Excluded"
    BY <1>4, <1>5, <2>2 DEF resolve_start
  <2>3. CASE from.kind = "Unbounded"
    BY <2>3 DEF resolve_start, Some
  <2> QED BY <1>4, <2>1, <2>2, <2>3
<1>7. end \in Nat
  <2>1. CASE to.kind = "Included"
    BY <1>4, <1>5, <2>1 DEF resolve_end
  <2>2. CASE to.kind = "Excluded"
    BY <1>3, <1>4, <2>2 DEF resolve_end, Some
  <2>3. CASE to.kind = "Unbounded"
    BY <2>3 DEF resolve_end, Some
  <2> QED BY <1>4, <2>1, <2>2, <2>3
<1>8. range.start = start /\ range.end = end
  BY <1>2
<1> QED BY <1>1, <1>2, <1>6, <1>7, <1>8

(* read_range and read_range_into, up to the loop. *)
LEMMA ReadRangeStep ==
    ASSUME ReaderInv, idle, NEW r \in reader, NEW from \in Bounds, NEW to \in Bounds, NEW room,
           read_range(r, from, to, room)
    PROVE  ReaderInv' /\ FileStep
<1>1. /\ reader = Some(r) /\ Setting /\ Laid /\ GoodReader(r, at) /\ IsMessage(sent) /\ at \in Nat
  BY OpenReader DEF ReaderInv
<1>2. PICK resolved : resolved = resolve_bounds(from, to, r.layout.plaintext_length)
  OBVIOUS
<1>3. CASE resolved = None \/ ~room
  BY <1>2, <1>3, RefusedStep DEF read_range
<1>4. CASE ~(resolved = None \/ ~room)
  <2>1. PICK range \in resolved :
          IF range.start = range.end
          THEN /\ Answers("read_at", TRUE, range.start, range.end, <<>>)
               /\ UNCHANGED <<sent, source, at, reader, ranging>>
          ELSE /\ ranging' = Some([range |-> range, written |-> <<>>,
                      next |-> position_for_plaintext_offset(r.layout, range.start)])
               /\ UNCHANGED <<sent, source, at, reader, answer>>
    BY <1>2, <1>4 DEF read_range
  <2>2. sent' = sent /\ source' = source /\ at' = at /\ reader' = Some(r) /\ reader' = reader
    BY <1>1, <2>1
  <2>3. r.layout.plaintext_length = Len(sent.bytes) /\ r.layout.parameters = SegmentLength
    BY <1>1, ReaderShape
  <2>4. capacity \in Nat \ {0} /\ Len(sent.bytes) \in Nat
    BY <1>1, MessageShape
  <2>5. PICK start \in Nat, end \in Nat :
          range = [start |-> start, end |-> end] /\ start <= end /\ end <= Len(sent.bytes)
    BY <1>2, <2>1, <2>3, <2>4, ResolvedRange
  <2>6. range.start = start /\ range.end = end
    BY <2>5
  <2>7. CASE start = end
    <3>1. Answers("read_at", TRUE, start, end, <<>>) /\ ranging' = None
      BY <2>1, <2>6, <2>7 DEF idle
    <3>2. SubSeq(sent.bytes, start + 1, end) = <<>>
      BY <2>7, EmptySlice
    <3>3. ReaderInv'
      BY <1>1, <2>2, <3>1, StaysOpen
    <3>4. Answers("read_at", TRUE, start, end, SubSeq(sent.bytes, start + 1, end))
      BY <3>1, <3>2
    <3> QED BY <1>1, <2>2, <2>4, <2>5, <3>3, <3>4, FileReadsAt
  <2>8. CASE start # end
    <3>1. PICK next, place : next = start \div capacity /\ place = next * capacity
      OBVIOUS
    <3>2. position_for_plaintext_offset(r.layout, start) = next
      BY <2>3, <3>1 DEF position_for_plaintext_offset, capacity
    <3>3. /\ next \in Nat /\ place \in Nat /\ place <= start /\ start < place + capacity
          /\ (next + 1) * capacity = place + capacity
      <4>1. /\ next \in Nat /\ start % capacity \in 0 .. capacity - 1
            /\ start = capacity * next + (start % capacity)
        BY <2>4, <3>1, DivMod
      <4>2. capacity \in Nat
        BY <2>4
      <4>3. place \in Nat /\ capacity * next = place /\ (next + 1) * capacity = place + capacity
        BY <3>1, <4>1, <4>2, Successor
      <4> QED BY <4>1, <4>2, <4>3
    <3>4. PICK call : call = CallRecord(start, end, <<>>, next)
      OBVIOUS
    <3>5. ranging' = Some(call) /\ answer' = no_answer /\ answer' = answer
      BY <2>1, <2>5, <2>6, <2>8, <3>2, <3>4 DEF idle, CallRecord
    <3>6. WrittenBefore(start, next) = <<>>
      BY <3>1, <3>3, EmptySlice DEF WrittenBefore
    <3>7. GoodCall(call)
      <4>1. start < end /\ place < end /\ start < (next + 1) * capacity
        BY <2>5, <2>8, <3>3
      <4>2. call = CallRecord(start, end, WrittenBefore(start, next), next)
        BY <3>4, <3>6
      <4> QED BY <2>5, <3>1, <3>3, <4>1, <4>2 DEF GoodCall
    <3>8. ReaderInv'
      BY <1>1, <2>2, <3>5, <3>7, StaysOpen
    <3>9. UNCHANGED File!vars
      BY <2>2, <3>5 DEF File!vars
    <3> QED BY <3>8, <3>9 DEF FileStep
  <2> QED BY <2>7, <2>8
<1> QED BY <1>3, <1>4

(* What a round of the loop cuts from its segment: the part of the payload *)
(* that is in the range.                                                   *)
CutFrom(start, place) == IF place <= start THEN start ELSE place

Cut(start, end, place, m, bytes, payload, range, segment, b, e) ==
    /\ b \in Nat /\ e \in Nat /\ b < e /\ e <= Len(bytes) /\ start <= b /\ place <= b
    /\ e <= place + m /\ e <= end
    /\ chunk_of(range, segment, payload) = Slice(bytes, b, e - b)
    /\ is_covered_fully(range, segment) => payload = Slice(bytes, b, e - b)

(* The part of a range in a segment, cut or covered fully. *)
LEMMA ChunkForm ==
    ASSUME NEW start \in Nat, NEW end \in Nat, NEW place \in Nat, NEW m \in Nat, NEW S,
           NEW bytes \in Seq(S), place + m <= Len(bytes), Len(bytes) \in Nat,
           NEW payload, payload = Slice(bytes, place, m),
           start < end, place < end, start < place + m, 0 < m,
           NEW range, range = [start |-> start, end |-> end],
           NEW segment, segment.plaintext_offset = place, segment.plaintext_length = m,
           NEW b, b = CutFrom(start, place), NEW e, e = least(end, place + m)
    PROVE  Cut(start, end, place, m, bytes, payload, range, segment, b, e)
<1>1. /\ b \in Nat /\ e \in Nat /\ b < e /\ e <= Len(bytes) /\ start <= b /\ place <= b
      /\ e <= place + m /\ e <= end
  BY DEF CutFrom, least
<1>2. range.start = start /\ range.end = end
  OBVIOUS
<1>3. payload \in Seq(S) /\ Len(payload) = m
  BY SliceOf
<1>4. PICK local, length : local = b - place /\ length = e - b
  OBVIOUS
<1>5. local \in Nat /\ length \in Nat /\ place + local = b /\ local + length <= m
      /\ (e - place) - local = length
  <2>1. local \in Nat /\ length \in Nat
    BY <1>1, <1>4, SMTT(30)
  <2>2. place + local = b /\ b + length = e
    BY <1>1, <1>4, SMTT(30)
  <2>3. local + length <= m
    BY <1>1, <2>1, <2>2
  <2>4. (e - place) - local = length
    BY <1>1, <2>1, <2>2, SMTT(30)
  <2> QED BY <2>1, <2>2, <2>3, <2>4
<1>6. chunk_of(range, segment, payload) = Slice(payload, local, length)
  <2>1. PICK shift : shift = start - place
    OBVIOUS
  <2>2. local = IF shift < 0 THEN 0 ELSE least(shift, m)
    BY <1>4, <2>1 DEF CutFrom, least
  <2>3. chunk_of(range, segment, payload) = Slice(payload, local, (e - place) - local)
    BY <1>2, <1>3, <2>1, <2>2 DEF chunk_of
  <2> QED BY <1>5, <2>3
<1>7. Slice(payload, local, length) = Slice(bytes, b, length)
  <2>1. Slice(Slice(bytes, place, m), local, length) = Slice(bytes, place + local, length)
    BY <1>5, SliceOfSlice
  <2> QED BY <1>5, <2>1
<1>8. ASSUME is_covered_fully(range, segment) PROVE payload = Slice(bytes, b, length)
  <2>1. start <= place /\ place + m <= end
    BY <1>2, <1>8 DEF is_covered_fully
  <2>2. b = place /\ e = place + m
    BY <2>1 DEF CutFrom, least
  <2>3. length = m
    BY <1>4, <2>2
  <2> QED BY <2>2, <2>3
<1> QED BY <1>1, <1>4, <1>6, <1>7, <1>8 DEF Cut

(* Where a round of a range read is: its segment, the part of the range in *)
(* it, and whether it is the last round.                                   *)
RoundAt(start, end, next, place, m, e, last) ==
    /\ start \in Nat /\ end \in Nat /\ next \in Nat /\ place \in Nat /\ m \in Nat \ {0}
    /\ start < end /\ end <= Len(sent.bytes) /\ place < end /\ start < place + m
    /\ place + m <= Len(sent.bytes) /\ (next + 1) * capacity = place + capacity
    /\ next < last => /\ e = place + capacity /\ place + capacity < end
    /\ ~(next < last) => e = end

(* Every round has a segment of the message and makes progress. *)
LEMMA RoundPlace ==
    ASSUME IsMessage(sent), Laid, NEW start \in Nat, NEW end \in Nat, NEW next \in Nat,
           start < end, end <= Len(sent.bytes), next * capacity < end,
           start < (next + 1) * capacity,
           NEW place, place = next * capacity, NEW m, m = Len(PayloadOf(sent, next + 1)),
           NEW e, e = least(end, place + m), NEW last, last = (end - 1) \div capacity
    PROVE  next \in 0 .. Len(sent.segments) - 1 /\ RoundAt(start, end, next, place, m, e, last)
<1>1. PICK c, all, count : c = capacity /\ all = Len(sent.bytes) /\ count = Len(sent.segments)
  OBVIOUS
<1>2. c \in Nat \ {0} /\ all \in Nat /\ count \in Nat \ {0} /\ all <= count * c
  BY <1>1, MessageShape
<1>3. next * c < all
  <2>1. next * c \in Nat
    BY <1>2
  <2> QED BY <1>1, <1>2, <2>1
<1>4. next \in 0 .. count - 1
  BY <1>1, <1>3, SegmentsBefore
<1>5. /\ place \in Nat /\ m \in 0 .. c /\ place + m <= all
      /\ next # count - 1 => m = c
      /\ next = count - 1 => place + m = all
  BY <1>1, <1>4, SegmentPlaintext
<1>6. PICK after : after = (next + 1) * c
  OBVIOUS
<1>7. after = place + c
  BY <1>1, <1>2, <1>6, Successor
<1>8. place < end /\ start < after
  BY <1>1, <1>6
<1>9. start < place + m /\ 0 < m
  BY <1>1, <1>2, <1>4, <1>5, <1>7, <1>8
<1>10. PICK z \in Nat : z = end - 1
  <2>1. end - 1 \in Nat
    OBVIOUS
  <2> QED BY <2>1
<1>11. /\ last \in Nat /\ z % c \in 0 .. c - 1 /\ z = c * last + (z % c)
  BY <1>1, <1>2, <1>10, DivMod
<1>12. PICK top \in Nat : top = last * c /\ top <= z /\ z < top + c
  <2>1. c \in Nat
    BY <1>2
  <2>2. last * c \in Nat /\ c * last = last * c
    BY <1>11, <2>1, Successor
  <2> QED BY <1>2, <1>11, <2>2, SMTT(30)
<1>13. CASE next < last
  <2>1. after <= top
    <3>1. next + 1 \in Nat /\ c \in Nat /\ next + 1 <= last
      BY <1>2, <1>11, <1>13
    <3> QED BY <1>6, <1>11, <1>12, <3>1, Scaling
  <2>2. place + c < end /\ place + c < all
    BY <1>1, <1>2, <1>5, <1>7, <1>10, <1>12, <2>1
  <2>3. m = c
    BY <1>2, <1>5, <2>2
  <2>4. e = place + c
    BY <1>2, <1>5, <2>2, <2>3 DEF least
  <2> QED BY <1>1, <1>2, <1>4, <1>5, <1>6, <1>7, <1>8, <1>9, <1>13, <2>2, <2>4 DEF RoundAt
<1>14. CASE ~(next < last)
  <2>1. top <= place
    <3>1. c \in Nat /\ last <= next
      BY <1>2, <1>11, <1>14
    <3> QED BY <1>1, <1>11, <1>12, <3>1, Scaling
  <2>2. end <= place + c
    BY <1>2, <1>5, <1>10, <1>12, <2>1, SMTT(30)
  <2>3. end <= place + m
    BY <1>1, <1>2, <1>4, <1>5, <2>2
  <2>4. e = end
    BY <1>2, <1>5, <2>3 DEF least
  <2> QED BY <1>1, <1>2, <1>4, <1>5, <1>6, <1>7, <1>8, <1>9, <1>14, <2>4 DEF RoundAt
<1> QED BY <1>13, <1>14

(* One round of read_resolved_range_into, and its end. *)
LEMMA ReadRangeSegmentStep ==
    ASSUME ReaderInv, NEW r \in reader, NEW trouble \in Troubles, read_range_segment(r, trouble)
    PROVE  ReaderInv' /\ FileStep
<1>1. /\ reader = Some(r) /\ Setting /\ Laid /\ GoodReader(r, at) /\ GoodCalls /\ IsMessage(sent)
  BY OpenReader DEF ReaderInv
<1>2. ranging # None
  BY DEF read_range_segment, None
<1>3. PICK call : ranging = Some(call) /\ GoodCall(call) /\ answer = no_answer
  BY <1>1, <1>2 DEF GoodCalls
<1>4. PICK start \in Nat, end \in Nat, next \in Nat :
        /\ call = CallRecord(start, end, WrittenBefore(start, next), next)
        /\ start < end /\ end <= Len(sent.bytes)
        /\ next * capacity < end /\ start < (next + 1) * capacity
  BY <1>3 DEF GoodCall
<1>5. PICK payload, place, m, last, range, written :
        /\ payload = PayloadOf(sent, next + 1) /\ place = next * capacity /\ m = Len(payload)
        /\ last = (end - 1) \div capacity /\ range = [start |-> start, end |-> end]
        /\ written = WrittenBefore(start, next)
  OBVIOUS
<1>6. PICK b, e : b = CutFrom(start, place) /\ e = least(end, place + m)
  OBVIOUS
<1>7. next \in 0 .. Len(sent.segments) - 1 /\ RoundAt(start, end, next, place, m, e, last)
  BY <1>1, <1>4, <1>5, <1>6, RoundPlace
<1>8. PICK segment : segment = SegmentAt(LayoutOf(sent), next)
  OBVIOUS
<1>9. /\ segment_for_position(LayoutOf(sent), next) = Some(segment)
      /\ segment.plaintext_offset = place /\ segment.plaintext_length = m
      /\ payload = Slice(sent.bytes, place, m)
  BY <1>1, <1>5, <1>7, <1>8, SegmentPlaintext
<1>10. sent.bytes \in Seq(Nat) /\ Len(sent.bytes) \in Nat /\ capacity \in Nat \ {0}
  BY <1>1, MessageShape
<1>11. /\ b \in Nat /\ e \in Nat /\ b < e /\ e <= Len(sent.bytes) /\ start <= b
       /\ chunk_of(range, segment, payload) = Slice(sent.bytes, b, e - b)
       /\ is_covered_fully(range, segment) => payload = Slice(sent.bytes, b, e - b)
  <2>1. /\ place \in Nat /\ m \in Nat /\ 0 < m /\ place + m <= Len(sent.bytes)
        /\ place < end /\ start < place + m
    BY <1>7 DEF RoundAt
  <2>2. PICK bytes : bytes = sent.bytes
    OBVIOUS
  <2>3. Cut(start, end, place, m, bytes, payload, range, segment, b, e)
    BY <1>4, <1>5, <1>6, <1>9, <1>10, <2>1, <2>2, ChunkForm
  <2> QED BY <2>2, <2>3 DEF Cut
<1>12. PICK chunk : chunk = Slice(sent.bytes, b, e - b)
  OBVIOUS
<1>13. written \o chunk = Slice(sent.bytes, start, e - start)
  <2>1. PICK n, bytes : bytes = sent.bytes /\ n = IF place <= start THEN 0 ELSE place - start
    OBVIOUS
  <2>2. written = Slice(bytes, start, n)
    BY <1>5, <2>1 DEF WrittenBefore
  <2>3. n \in Nat /\ b = start + n /\ b <= e
    BY <1>6, <1>7, <1>11, <2>1 DEF RoundAt, CutFrom
  <2>4. Slice(bytes, start, n) \o Slice(bytes, b, e - b) = Slice(bytes, start, e - start)
    <3>1. bytes \in Seq(Nat) /\ Len(bytes) \in Nat /\ e \in Nat /\ e <= Len(bytes)
      BY <1>10, <1>11, <2>1
    <3>2. PICK k : k = e - b
      OBVIOUS
    <3>3. k \in Nat /\ start + n + k <= Len(bytes) /\ n + k = e - start
      BY <1>4, <1>11, <2>3, <3>1, <3>2
    <3>4. Slice(bytes, start, n) \o Slice(bytes, start + n, k) = Slice(bytes, start, n + k)
      BY <2>3, <3>1, <3>3, SliceJoin
    <3> QED BY <2>3, <3>2, <3>3, <3>4
  <2> QED BY <1>12, <2>1, <2>2, <2>4
<1>14. call.range = range /\ call.written = written /\ call.next = next
  BY <1>4, <1>5 DEF CallRecord
<1>15. range.start = start /\ range.end = end
  BY <1>5
<1>16. r.layout = LayoutOf(sent) /\ r.layout.parameters = SegmentLength
  BY <1>1, ReaderShape
<1>17. (CHOOSE s \in segment_for_position(r.layout, next) : TRUE) = segment
  BY <1>9, <1>16, ChooseSome
<1>18. position_for_plaintext_offset(r.layout, end - 1) = last
  BY <1>5, <1>16 DEF position_for_plaintext_offset, capacity
<1>19. PICK covered, l : /\ covered = is_covered_fully(range, segment)
                         /\ l = IF covered THEN decrypt_segment_direct(r, segment, trouble)
                                ELSE load_cached_segment(r, segment, trouble)
  BY Zenon
<1>20. PICK cut : cut = IF covered THEN l.bytes ELSE chunk_of(range, segment, l.reader.scratch.payload)
  OBVIOUS
<1>21. IF l.ok /\ next < last
       THEN /\ ranging' = Some([call EXCEPT !.next = @ + 1, !.written = written \o cut])
            /\ reader' = Some(l.reader) /\ at' = l.at
            /\ UNCHANGED <<sent, source, answer>>
       ELSE /\ ranging' = None
            /\ Ends("read_at", l, start, end, written \o cut)
  <2>1. PICK x \in ranging :
          LET rg == x.range
              sg == CHOOSE s \in segment_for_position(r.layout, x.next) : TRUE
              cv == is_covered_fully(rg, sg)
              step == IF cv THEN decrypt_segment_direct(r, sg, trouble)
                                 ELSE load_cached_segment(r, sg, trouble)
              ck == IF cv THEN step.bytes
                       ELSE chunk_of(rg, sg, step.reader.scratch.payload)
              wr == x.written \o ck
              ls == position_for_plaintext_offset(r.layout, rg.end - 1)
          IN  IF step.ok /\ x.next < ls
              THEN /\ ranging' = Some([x EXCEPT !.next = @ + 1, !.written = wr])
                   /\ reader' = Some(step.reader) /\ at' = step.at
                   /\ UNCHANGED <<sent, source, answer>>
              ELSE /\ ranging' = None
                   /\ Ends("read_at", step, rg.start, rg.end, wr)
    BY Zenon DEF read_range_segment
  <2> DEFINE rg == x.range
             sg == CHOOSE s \in segment_for_position(r.layout, x.next) : TRUE
             cv == is_covered_fully(rg, sg)
             step == IF cv THEN decrypt_segment_direct(r, sg, trouble)
                                ELSE load_cached_segment(r, sg, trouble)
             ck == IF cv THEN step.bytes
                      ELSE chunk_of(rg, sg, step.reader.scratch.payload)
             wr == x.written \o ck
             ls == position_for_plaintext_offset(r.layout, rg.end - 1)
  <2>2. IF step.ok /\ x.next < ls
        THEN /\ ranging' = Some([x EXCEPT !.next = @ + 1, !.written = wr])
             /\ reader' = Some(step.reader) /\ at' = step.at
             /\ UNCHANGED <<sent, source, answer>>
        ELSE /\ ranging' = None
             /\ Ends("read_at", step, rg.start, rg.end, wr)
    BY <2>1
  <2> HIDE DEF rg, sg, cv, step, ck, wr, ls
  <2>3. x = call /\ x.next = next /\ x.written = written
    BY <1>3, <1>14, <2>1 DEF Some
  <2>4. rg = range
    BY <1>14, <2>3 DEF rg
  <2>5. sg = segment
    BY <1>17, <2>3 DEF sg
  <2>6. cv = covered
    BY <1>19, <2>4, <2>5 DEF cv
  <2>7. step = l
    BY <1>19, <2>5, <2>6 DEF step
  <2>8. ck = cut
    BY <1>20, <2>4, <2>5, <2>6, <2>7 DEF ck
  <2>9. wr = written \o cut /\ ls = last
    BY <1>15, <1>18, <2>3, <2>4, <2>8, Zenon DEF wr, ls
  <2>10. rg.start = start /\ rg.end = end
    BY <1>15, <2>4
  <2> QED BY <2>2, <2>3, <2>7, <2>9, <2>10, Zenon
<1>22. GoodStep(l, r) /\ (l.ok => cut = chunk)
  <2>1. CASE covered
    <3>1. l = decrypt_segment_direct(r, segment, trouble) /\ cut = l.bytes
      BY <1>19, <1>20, <2>1
    <3>2. GoodStep(l, r) /\ (l.ok => l.bytes = payload)
      BY <1>1, <1>5, <1>7, <1>8, <3>1, DirectKeeps
    <3>3. payload = chunk
      BY <1>11, <1>12, <1>19, <2>1
    <3> QED BY <3>1, <3>2, <3>3
  <2>2. CASE ~covered
    <3>1. /\ l = load_cached_segment(r, segment, trouble)
          /\ cut = chunk_of(range, segment, l.reader.scratch.payload)
      BY <1>19, <1>20, <2>2
    <3>2. GoodStep(l, r) /\ (l.ok => l.reader.scratch.payload = payload)
      BY <1>1, <1>5, <1>7, <1>8, <3>1, CachedKeeps
    <3> QED BY <1>11, <1>12, <3>1, <3>2
  <2> QED BY <2>1, <2>2
<1>23. CASE l.ok /\ next < last
  <2>1. PICK call2, r2, pos :
          /\ call2 = [call EXCEPT !.next = @ + 1, !.written = written \o cut]
          /\ r2 = l.reader /\ pos = l.at
    OBVIOUS
  <2>2. /\ ranging' = Some(call2) /\ reader' = Some(r2) /\ at' = pos /\ sent' = sent
        /\ source' = source /\ answer' = no_answer /\ answer' = answer
    BY <1>3, <1>21, <1>23, <2>1
  <2>3. GoodReader(r2, pos) /\ pos \in Nat /\ r2.plaintext_position = r.plaintext_position
    BY <1>22, <2>1 DEF GoodStep
  <2>4. GoodCall(call2)
    <3>1. PICK j, after : j = next + 1 /\ after = j * capacity
      OBVIOUS
    <3>2. j \in Nat /\ after = place + capacity /\ after < end /\ e = after /\ start < after
      BY <1>4, <1>7, <1>23, <3>1 DEF RoundAt
    <3>3. after \in Nat
      BY <1>7, <1>10, <3>2 DEF RoundAt
    <3>4. WrittenBefore(start, j) = Slice(sent.bytes, start, after - start)
      BY <3>1, <3>2, <3>3 DEF WrittenBefore
    <3>5. call2 = CallRecord(start, end, WrittenBefore(start, j), j)
      <4>1. PICK w : w = WrittenBefore(start, j)
        OBVIOUS
      <4>2. written \o cut = w
        BY <1>13, <1>22, <1>23, <3>2, <3>4, <4>1
      <4>3. call = CallRecord(start, end, written, next)
        BY <1>4, <1>5
      <4>4. call2 = CallRecord(start, end, w, j)
        BY <2>1, <3>1, <4>2, <4>3 DEF CallRecord
      <4> QED BY <4>1, <4>4
    <3>6. (j + 1) * capacity = after + capacity
      <4>1. capacity \in Nat
        BY <1>10
      <4> QED BY <3>1, <3>2, <4>1, Successor
    <3>7. start < (j + 1) * capacity
      BY <1>10, <3>2, <3>3, <3>6
    <3> QED BY <1>4, <3>1, <3>2, <3>5, <3>7 DEF GoodCall
  <2>5. ReaderInv'
    BY <1>1, <2>2, <2>3, <2>4, StaysOpen
  <2>6. UNCHANGED File!vars
    BY <1>1, <2>2, <2>3, MappedPosition DEF File!vars
  <2> QED BY <2>5, <2>6 DEF FileStep
<1>24. CASE ~(l.ok /\ next < last)
  <2>1. Ends("read_at", l, start, end, written \o cut) /\ ranging' = None
    BY <1>21, <1>24
  <2>2. /\ ReaderInv' /\ sent' = sent /\ reader' = Some(l.reader)
        /\ l.reader.plaintext_position = r.plaintext_position
        /\ ~l.ok => FileStep
    BY <1>22, <2>1, EndsKeeps
  <2>3. CASE l.ok
    <3>1. e = end
      BY <1>7, <1>24, <2>3 DEF RoundAt
    <3>2. PICK n : n = end - start
      OBVIOUS
    <3>3. start + n = end
      BY <3>2
    <3>4. written \o cut = SubSeq(sent.bytes, start + 1, end)
      BY <1>13, <1>22, <2>3, <3>1, <3>2, <3>3 DEF Slice
    <3>5. Answers("read_at", TRUE, start, end, SubSeq(sent.bytes, start + 1, end))
      BY <2>1, <2>3, <3>4 DEF Ends
    <3>6. PICK r2 : r2 = l.reader
      OBVIOUS
    <3>7. start <= end
      BY <1>4
    <3>8. FileStep
      BY <1>1, <1>4, <1>10, <2>2, <3>5, <3>6, <3>7, FileReadsAt
    <3> QED BY <2>2, <3>8
  <2> QED BY <2>2, <2>3
<1> QED BY <1>23, <1>24

(* At most one Reader is made. *)
FromHeader(h, parameters) ==
    IF h.ok THEN opened_context(key, aad, parameters, h.header) ELSE None

MadeWith(ctx, length, trouble) == UNION {from_parts(c, at, length, trouble) : c \in ctx}

AtMostOne(made) == \A r1, r2 \in made : r1 = r2

(* One source and one call make at most one Reader. *)
LEMMA MadeOnce ==
    ASSUME NEW h, h = read_header(source, at, HEADER_LENGTH), NEW parameters, NEW ctx,
           ctx = FromHeader(h, parameters), NEW length, NEW trouble, NEW made,
           made = MadeWith(ctx, length, trouble)
    PROVE  AtMostOne(made)
<1>1. \A x, y \in h.header : x = y
  <2>1. PICK bytes : h.header = header_in(bytes)
    BY DEF read_header
  <2> QED BY <2>1 DEF header_in, Some, None
<1>2. \A c1, c2 \in ctx : c1 = c2
  <2> SUFFICES ASSUME NEW c1 \in ctx, NEW c2 \in ctx PROVE c1 = c2
    OBVIOUS
  <2>1. h.ok
    BY DEF None, FromHeader
  <2>2. ctx = opened_context(key, aad, parameters, h.header)
    BY <2>1 DEF FromHeader
  <2>3. PICK x \in h.header : c1 = Context(key, x.parameters, x.iv, aad)
    BY <2>2, Zenon DEF opened_context
  <2>4. PICK y \in h.header : c2 = Context(key, y.parameters, y.iv, aad)
    BY <2>2, Zenon DEF opened_context
  <2> QED BY <1>1, <2>3, <2>4
<1>3. ASSUME NEW c, NEW r1 \in from_parts(c, at, length, trouble),
             NEW r2 \in from_parts(c, at, length, trouble)
      PROVE  r1 = r2
  <2>1. PICK y : \/ from_parts(c, at, length, trouble) = None
                 \/ from_parts(c, at, length, trouble) = Some(y)
    BY Zenon DEF from_parts
  <2> QED BY <2>1 DEF Some, None
<1> SUFFICES ASSUME NEW r1 \in made, NEW r2 \in made PROVE r1 = r2
  BY DEF AtMostOne
<1>4. PICK c1 \in ctx : r1 \in from_parts(c1, at, length, trouble)
  BY DEF MadeWith
<1>5. PICK c2 \in ctx : r2 \in from_parts(c2, at, length, trouble)
  BY DEF MadeWith
<1>6. c1 = c2
  BY <1>2
<1> QED BY <1>3, <1>4, <1>5, <1>6

(* A Reader that was made is good where the constructor leaves the source. *)
LEMMA MadeIsGood ==
    ASSUME NEW r, Made(r), NEW body, NEW r2, r2 = [r EXCEPT !.inner_position = Some(body)]
    PROVE  GoodReader(r2, body) /\ Laid /\ r2.plaintext_position = 0
<1>1. PICK k, b, inner :
        /\ r = ReaderRecord(contexts.ours, k, LayoutOf(sent), at, b, 0, None, inner)
        /\ LabelledCache(k, contexts.ours) /\ IsBuffer(b) /\ Anchored(at) /\ Laid
  BY DEF Made
<1>2. PICK some : some = Some(body)
  OBVIOUS
<1>3. r2 = ReaderRecord(contexts.ours, k, LayoutOf(sent), at, b, 0, None, some)
  BY <1>1, <1>2 DEF ReaderRecord
<1>4. Fresh(None, b)
  BY DEF Fresh, None
<1>5. r2.plaintext_position = 0
  BY <1>3 DEF ReaderRecord
<1>6. some \in {None, Some(body)}
  BY <1>2
<1> QED BY <1>1, <1>3, <1>4, <1>5, <1>6 DEF GoodReader

(* The constructors. *)
LEMMA NewStep ==
    ASSUME ReaderInv, NEW parameters, NEW given \in {None} \cup {Some(l) : l \in 0 .. U64_MAX},
           NEW io_ok, NEW trouble \in Troubles, new(parameters, given, io_ok, trouble)
    PROVE  ReaderInv' /\ FileStep
<1>1. reader = None /\ answer = no_answer /\ sent' = sent /\ source' = source /\ ranging' = ranging
  BY DEF new
<1>2. Unopened
  BY <1>1, ChooseSome DEF ReaderInv, Opened
<1>3. /\ IsMessage(sent) /\ at \in Nat /\ GoodSource(source, at, sent) /\ ranging = None
      /\ source \in Seq(BytesOf(Items(sent)) \cup {junk[1]})
  BY <1>1, <1>2 DEF ReaderInv, Unopened
<1>4. PICK h : h = read_header(source, at, HEADER_LENGTH)
  OBVIOUS
<1>5. PICK ctx, length, body :
        /\ ctx = IF h.ok THEN opened_context(key, aad, parameters, h.header) ELSE None
        /\ length = IF given = None THEN Len(source) - at ELSE CHOOSE l \in given : TRUE
        /\ body = at + HEADER_LENGTH
  OBVIOUS
<1>6. PICK made : made = UNION {from_parts(c, at, length, trouble) : c \in ctx}
  OBVIOUS
<1>7. /\ reader' = IF io_ok /\ length >= HEADER_LENGTH
                   THEN {[r EXCEPT !.inner_position = Some(body)] : r \in made} ELSE None
      /\ at' = IF reader' = None THEN at ELSE body
      /\ Answers("new", reader' # None, 0, 0, <<>>)
  <2> DEFINE x == read_header(source, at, HEADER_LENGTH)
             y == IF x.ok THEN opened_context(key, aad, parameters, x.header) ELSE None
             n == IF given = None THEN Len(source) - at ELSE CHOOSE l \in given : TRUE
             z == UNION {from_parts(c, at, n, trouble) : c \in y}
             to == at + HEADER_LENGTH
  <2>1. /\ reader' = IF io_ok /\ n >= HEADER_LENGTH
                     THEN {[r EXCEPT !.inner_position = Some(to)] : r \in z} ELSE None
        /\ at' = IF reader' = None THEN at ELSE to
        /\ Answers("new", reader' # None, 0, 0, <<>>)
    BY Zenon DEF new
  <2> HIDE DEF x, y, n, z, to
  <2>2. x = h
    BY <1>4 DEF x
  <2>3. y = ctx /\ n = length /\ to = body
    BY <1>5, <2>2 DEF y, n, to
  <2>4. z = made
    BY <1>6, <2>3 DEF z
  <2> QED BY <2>1, <2>3, <2>4
<1>8. HEADER_LENGTH \in Nat
  BY ParametersAssumption
<1>9. body \in Nat
  BY <1>3, <1>5, <1>8
<1>10. CASE reader' = None
  <2>1. at' = at /\ Answers("new", FALSE, 0, 0, <<>>)
    BY <1>7, <1>10
  <2>2. answer' # no_answer
    BY <2>1 DEF Answers, no_answer
  <2>3. /\ IsMessage(sent)' /\ (at \in Nat)'
        /\ (source \in Seq(BytesOf(Items(sent)) \cup {junk[1]}))'
    BY <1>1, <1>3, <2>1, SameMessage
  <2>4. ReaderInv'
    BY <1>1, <1>3, <1>10, <2>2, <2>3 DEF ReaderInv, Unopened
  <2>5. File!Answered("new", FALSE, 0, 0)
    BY <2>1 DEF File!Answered, Answers
  <2>6. File!NoOpen
    BY <1>1, <1>10, <2>5 DEF File!NoOpen
  <2> QED BY <2>4, <2>6 DEF FileStep, File!Next
<1>11. CASE reader' # None
  <2>1. /\ length >= HEADER_LENGTH
        /\ reader' = {[r EXCEPT !.inner_position = Some(body)] : r \in made}
    BY <1>7, <1>11
  <2>2. PICK r \in made : TRUE
    BY <1>11, <2>1 DEF None
  <2>3. \A x \in made : x = r
    <3>1. ctx = FromHeader(h, parameters)
      BY <1>5 DEF FromHeader
    <3>2. made = MadeWith(ctx, length, trouble)
      BY <1>6 DEF MadeWith
    <3>3. AtMostOne(made)
      BY <1>4, <3>1, <3>2, MadeOnce
    <3> QED BY <2>2, <3>3 DEF AtMostOne
  <2>4. PICK r2 : r2 = [r EXCEPT !.inner_position = Some(body)]
    OBVIOUS
  <2>5. reader' = Some(r2)
    BY <2>1, <2>2, <2>3, <2>4 DEF Some
  <2>6. length \in Nat
    <3>1. CASE given = None
      <4>1. Len(source) \in Nat
        BY <1>3, LenProperties
      <4> QED BY <1>3, <1>5, <1>8, <2>1, <3>1, <4>1
    <3>2. CASE given # None
      <4>1. PICK l \in 0 .. U64_MAX : given = Some(l)
        BY <3>2
      <4>2. length = l
        BY <1>5, <3>2, <4>1, ChooseSome
      <4> QED BY <4>1, <4>2
    <3> QED BY <3>1, <3>2
  <2>7. Made(r)
    <3>1. PICK c \in ctx : r \in from_parts(c, at, length, trouble)
      BY <1>6, <2>2
    <3>2. h.ok /\ c \in opened_context(key, aad, parameters, h.header)
      BY <1>5, <3>1 DEF None
    <3> QED BY <1>3, <1>4, <2>6, <3>1, <3>2, OnlyOursIsMade
  <2>8. GoodReader(r2, body) /\ Laid /\ r2.plaintext_position = 0
    BY <2>4, <2>7, MadeIsGood
  <2>9. at' = body /\ Answers("new", TRUE, 0, 0, <<>>)
    BY <1>7, <1>11, Zenon
  <2>10. ReaderInv'
    BY <1>1, <1>3, <1>9, <2>5, <2>8, <2>9, StaysOpen
  <2>11. File!Answered("new", TRUE, 0, 0)
    BY <2>9, EmptySlice DEF File!Answered, Answers
  <2>12. File!Open
    BY <1>1, <1>11, <2>5, <2>8, <2>11, MappedPosition DEF File!Open
  <2> QED BY <2>10, <2>12 DEF FileStep, File!Next
<1> QED BY <1>10, <1>11

-----------------------------------------------------------------------------
(* Every step keeps the invariant and is a step of the file, or none. *)
LEMMA StepKeepsInv ==
    ASSUME ReaderInv, [Next]_vars
    PROVE  ReaderInv' /\ FileStep
<1>1. ASSUME UNCHANGED vars PROVE ReaderInv' /\ FileStep
  <2>1. /\ sent' = sent /\ source' = source /\ at' = at /\ reader' = reader
        /\ ranging' = ranging /\ answer' = answer
    BY <1>1 DEF vars
  <2>2. UNCHANGED File!vars
    BY <2>1 DEF File!vars
  <2>3. /\ IsMessage(sent)' /\ (at \in Nat)'
        /\ (source \in Seq(BytesOf(Items(sent)) \cup {junk[1]}))'
    BY <2>1, SameMessage DEF ReaderInv
  <2>4. ReaderInv'
    <3>1. CASE Unopened
      <4>1. GoodSource(source, at, sent) => GoodSource(source, at, sent)'
        BY <2>1 DEF GoodSource, Items, NoForeignSegment, NoForeignHeader, BytesOf
      <4>2. Unopened'
        BY <2>1, <3>1, <4>1 DEF Unopened
      <4> QED BY <2>3, <4>2 DEF ReaderInv
    <3>2. CASE Opened
      <4>1. PICK r, pos : reader = Some(r) /\ pos = at /\ GoodReader(r, pos)
        BY <3>2 DEF Opened
      <4>2. pos \in Nat /\ Laid /\ GoodCalls
        BY <3>2, <4>1 DEF Opened, ReaderInv
      <4> QED BY <2>1, <4>1, <4>2, StaysOpen DEF GoodCalls
    <3> QED BY <3>1, <3>2 DEF ReaderInv
  <2> QED BY <2>2, <2>4 DEF FileStep
<1>2. ASSUME NEW parameters, NEW given \in {None} \cup {Some(l) : l \in 0 .. U64_MAX}, NEW io_ok,
             NEW trouble \in Troubles, new(parameters, given, io_ok, trouble)
      PROVE  ReaderInv' /\ FileStep
  BY <1>2, NewStep
<1>3. ASSUME idle, NEW r \in reader,
             \/ \E n \in 0 .. MaxRead : read_nothing(r, n)
             \/ \E n \in 0 .. MaxRead, trouble \in Troubles : read(r, n, trouble)
      PROVE  ReaderInv' /\ FileStep
  <2>1. \A n \in 0 .. MaxRead : n \in Nat
    BY RandomAccessReaderAssumption
  <2> QED BY <1>3, <2>1, ReadNothingStep, ReadStep
<1>4. ASSUME idle, NEW r \in reader, NEW whence, NEW offset, seek(r, whence, offset)
      PROVE  ReaderInv' /\ FileStep
  BY <1>4, SeekStep
<1>5. ASSUME idle, NEW r \in reader, NEW position \in 0 .. r.layout.segment_count, NEW room,
             NEW trouble \in Troubles, read_segment(r, position, room, trouble)
      PROVE  ReaderInv' /\ FileStep
  <2>1. position \in Nat
    <3>1. r.layout.segment_count = Len(sent.segments) /\ IsMessage(sent)
      BY OpenReader, ReaderShape DEF ReaderInv
    <3> QED BY <3>1, MessageShape
  <2> QED BY <1>5, <2>1, ReadSegmentStep
<1>6. ASSUME idle, NEW r \in reader, NEW from \in Bounds, NEW to \in Bounds, NEW room,
             read_range(r, from, to, room)
      PROVE  ReaderInv' /\ FileStep
  BY <1>6, ReadRangeStep
<1>7. ASSUME idle, NEW r \in reader, get_mut(r, Len(source))
      PROVE  ReaderInv' /\ FileStep
  <2>1. PICK length : length = Len(source)
    OBVIOUS
  <2>2. length \in Nat
    BY <2>1, LenProperties DEF ReaderInv
  <2> QED BY <1>7, <2>1, <2>2, GetMutStep
<1>8. ASSUME NEW r \in reader, NEW trouble \in Troubles, read_range_segment(r, trouble)
      PROVE  ReaderInv' /\ FileStep
  BY <1>8, ReadRangeSegmentStep
<1>9. ASSUME into_inner \/ take_answer PROVE ReaderInv' /\ FileStep
  BY <1>9, IntoInnerStep, TakeAnswerStep
<1>10. ASSUME Next PROVE ReaderInv' /\ FileStep
  <2>1. CASE \E parameters \in {None, Some(SegmentLength), Some(SegmentLength + 1)},
               given \in {None} \cup {Some(l) : l \in 0 .. U64_MAX}, io_ok \in BOOLEAN,
               trouble \in Troubles : new(parameters, given, io_ok, trouble)
    BY <1>2, <2>1, Zenon
  <2>2. ASSUME idle, NEW r \in reader,
               \/ \E n \in 0 .. MaxRead : read_nothing(r, n)
               \/ \E n \in 0 .. MaxRead, trouble \in Troubles : read(r, n, trouble)
               \/ \E offset \in Positions : seek(r, "Start", offset)
               \/ \E whence \in {"End", "Current"}, delta \in Deltas :
                     /\ seek(r, whence, delta)
                     /\ answer'.to \in Positions
               \/ \E position \in 0 .. r.layout.segment_count, room \in BOOLEAN,
                     trouble \in Troubles : read_segment(r, position, room, trouble)
               \/ \E from, to \in Bounds, room \in BOOLEAN : read_range(r, from, to, room)
               \/ get_mut(r, Len(source))
        PROVE  ReaderInv' /\ FileStep
    BY <1>3, <1>4, <1>5, <1>6, <1>7, <2>2, Zenon
  <2>3. CASE \E r \in reader, trouble \in Troubles : read_range_segment(r, trouble)
    BY <1>8, <2>3
  <2> QED BY <1>9, <1>10, <2>1, <2>2, <2>3, Zenon DEF Next
<1> QED BY <1>1, <1>10

(* The invariant, whatever the source is made of, whatever fails and       *)
(* whatever the caller mixes: a Reader is one of this message, its cache   *)
(* holds what it claims and its tracked position is the true one.          *)
THEOREM ReaderInvariant == Spec => []ReaderInv
<1>1. ReaderInv /\ [Next]_vars => ReaderInv'
  BY StepKeepsInv
<1> QED BY InitInv, <1>1, PTL DEF Spec

(* The Reader implements the seekable file on the message's plaintext:     *)
(* sequential reads, seeks, segment and range reads return its bytes or an *)
(* error that moves nothing (src/random_access.rs).                        *)
THEOREM FileRefinement == Spec => ImplementsFile
<1>1. Init => File!Init
  BY DEF Init, File!Init, no_answer
<1>2. ReaderInv /\ [Next]_vars => [File!Next]_(File!vars)
  BY StepKeepsInv DEF FileStep
<1> QED BY <1>1, <1>2, ReaderInvariant, PTL DEF Spec, ImplementsFile, File!Spec

-----------------------------------------------------------------------------
(* The properties that the invariant implies. *)

(* The tracked position is part of the invariant. *)
LEMMA InvTracksPosition == ReaderInv => TrackedPositionIsTrue
<1> SUFFICES ASSUME ReaderInv, NEW r \in reader PROVE r.inner_position \in {None, Some(at)}
  BY DEF TrackedPositionIsTrue
<1>1. GoodReader(r, at)
  BY OpenReader
<1> QED BY <1>1, ReaderFields DEF GoodReader

(* The cached payload is the plaintext of its segment. *)
LEMMA InvKeepsCacheFresh == ReaderInv => CacheIsFresh
<1> SUFFICES ASSUME ReaderInv, NEW r \in reader, NEW i \in r.cached_position
             PROVE  /\ holds_plaintext(r.scratch)
                    /\ plaintext_of(r.scratch.payload) = sent.segments[i + 1].plaintext
  BY DEF CacheIsFresh
<1>1. GoodReader(r, at) /\ IsMessage(sent)
  BY OpenReader DEF ReaderInv
<1>2. PICK b, cached : r.scratch = b /\ r.cached_position = cached /\ Fresh(cached, b)
  BY <1>1, ReaderFields DEF GoodReader
<1>3. i \in 0 .. Len(sent.segments) - 1 /\ holds_plaintext(b) /\ b.payload = PayloadOf(sent, i + 1)
  BY <1>2 DEF Fresh
<1>4. PICK j \in 1 .. Len(sent.segments) : j = i + 1
  BY <1>1, <1>3, MessageShape
<1>5. sent.segments[j].plaintext = plaintext_of(PayloadOf(sent, j))
  BY <1>1, OurKeys
<1> QED BY <1>2, <1>3, <1>4, <1>5


(* A segment of the message has its length in bytes. *)
LEMMA BytesOfSegment ==
    ASSUME IsMessage(sent), NEW j \in 1 .. Len(sent.segments), NEW x, x = sent.segments[j]
    PROVE  Len(segment_bytes(x)) = x.length /\ x.length \in Nat \ {0}
BY SegmentSize DEF IsMessage

(* A Reader has the message in its place, from header to final segment. *)
LEMMA InvOpensTheWhole == ReaderInv => OpensOnlyTheWholeLength
<1> SUFFICES ASSUME ReaderInv, NEW r \in reader
             PROVE  /\ r.context = contexts.ours
                    /\ Ok(r.layout) = ciphertext_layout(SegmentLength, Len(intact(sent)))
                    /\ Slice(source, r.message_start, HEADER_LENGTH) = header_bytes(headers.ours)
                    /\ r.message_start + Len(intact(sent)) <= Len(source)
                    /\ \A segment \in final_segment(r.layout) : IntactAt(r, segment)
  BY DEF OpensOnlyTheWholeLength
<1>1. GoodReader(r, at) /\ Setting /\ Laid /\ IsMessage(sent)
  BY OpenReader DEF ReaderInv
<1>2. PICK s : /\ r.context = contexts.ours /\ r.layout = LayoutOf(sent) /\ r.message_start = s
               /\ Anchored(s)
  BY <1>1, ReaderFields DEF GoodReader
<1>3. PICK count, x : count = Len(sent.segments) /\ x = sent.segments[count]
  OBVIOUS
<1>4. count \in Nat \ {0}
  BY <1>1, <1>3, MessageShape
<1>5. PICK i \in 0 .. count - 1 : i = count - 1 /\ i + 1 = count
  BY <1>4
<1>6. ASSUME NEW segment \in final_segment(r.layout) PROVE IntactAt(r, segment)
  <2>1. r.layout.segment_count = count
    BY <1>1, <1>3, ReaderShape
  <2>2. PICK y : y = SegmentAt(LayoutOf(sent), i)
    OBVIOUS
  <2>3. segment_for_position(LayoutOf(sent), i) = Some(y) /\ LaidOut(y, sent, i)
    BY <1>1, <1>3, <2>2, SegmentOfLayout DEF Laid
  <2>4. segment = y
    BY <1>2, <1>5, <2>1, <2>3 DEF final_segment, Some
  <2>5. segment.position = i /\ segment.ciphertext_offset = FinalOffset
    BY <1>3, <1>5, <2>3, <2>4 DEF LaidOut, FinalOffset
  <2>6. Len(segment_bytes(x)) = x.length
    BY <1>1, <1>3, <1>4, BytesOfSegment
  <2>7. Slice(source, s + FinalOffset, x.length) = segment_bytes(x)
    BY <1>2, <1>3 DEF Anchored
  <2> QED BY <1>2, <1>3, <1>5, <2>5, <2>6, <2>7 DEF IntactAt
<1> QED BY <1>1, <1>2, <1>6 DEF Anchored, Laid

(* A segment in its place opens, whatever state the key cache is in. *)
LEMMA IntactOpens ==
    ASSUME Setting, NEW k, LabelledCache(k, contexts.ours), NEW place \in Nat,
           NEW i \in 0 .. Len(sent.segments) - 1, i < AEAD_MAX_SEGMENTS, NEW j, j = i + 1,
           NEW x, x = sent.segments[j], NEW length, length = x.length,
           place + length <= Len(source), Slice(source, place, length) = segment_bytes(x),
           NEW kind, kind = KindOf(sent, j), NEW fault, fault = "none",
           NEW o, o = OpeningAt(k, contexts.ours, place, length, i, kind, fault)
    PROVE  o.ok
<1>1. IsMessage(sent) /\ source \in Seq(BytesOf(Items(sent)) \cup {junk[1]})
  BY DEF Setting
<1>2. j \in 1 .. Len(sent.segments) /\ i \in Nat /\ j - 1 = i
  <2>1. PICK count \in Nat : count = Len(sent.segments)
    BY <1>1, MessageShape
  <2> QED BY <2>1
<1>3. PICK bytes : bytes = Slice(source, place, length)
  OBVIOUS
<1>4. length \in Nat \ {0}
  BY <1>1, <1>2, BytesOfSegment
<1>5. bytes \in Seq(BytesOf(Items(sent)) \cup {junk[1]})
  BY <1>1, <1>3, <1>4, SliceOf
<1>6. segment_in(bytes) = x
  BY <1>1, <1>2, <1>3, SegmentReadBack DEF IsMessage
<1>7. FilledSegment(bytes) = x
  BY <1>1, <1>5, <1>6, FilledIsFound
<1>8. /\ x.key = derive_segment_key(contexts.ours, masked_position(i))
      /\ x.position = i /\ x.kind = kind
      /\ x.length = SEGMENT_OVERHEAD + Len(PayloadOf(sent, j))
      /\ x.prefix = segment_prefix(kind, x.length)
      /\ IsSealed(x)
  BY <1>1, <1>2, OurKeys
<1>9. ~x.damaged
  <2>1. PICK a, b, c, d, e, f, g :
          /\ a = x.prefix /\ b = x.length /\ c = x.key /\ d = x.nonce /\ e = x.position
          /\ f = x.kind /\ g = x.plaintext
    OBVIOUS
  <2>2. x = [prefix |-> a, length |-> b, damaged |-> FALSE, key |-> c, nonce |-> d,
             position |-> e, kind |-> f, plaintext |-> g]
    BY <1>8, <2>1 DEF IsSealed
  <2> QED BY <2>2
<1>10. contexts.ours.parameters = SegmentLength
  BY DEF contexts, Context
<1>11. validate_segment(SegmentLength, x, kind)
  <2>1. PICK m : m = Len(PayloadOf(sent, j))
    OBVIOUS
  <2>2. m \in 0 .. capacity /\ (kind # "Final" => m = capacity)
    BY <1>1, <1>2, <2>1, SegmentsForm DEF KindOf
  <2>3. /\ capacity \in Nat /\ SEGMENT_OVERHEAD \in Nat
        /\ SegmentLength = SEGMENT_OVERHEAD + capacity
    BY CiphertextsAssumption, SegmentLengths DEF capacity
  <2>4. /\ x.length = SEGMENT_OVERHEAD + m /\ x.length \in SEGMENT_OVERHEAD .. SegmentLength
        /\ kind # "Final" => x.length = SegmentLength
    BY <1>8, <2>1, <2>2, <2>3
  <2>5. kind \in {"Final", "NonFinal"}
    BY DEF KindOf
  <2> QED BY <1>8, <2>4, <2>5
          DEF validate_segment, validate_ciphertext_segment_length, segment_prefix
<1>12. key_for_position_ok(k, i, fault)
  BY DEF key_for_position_ok
<1>13. PICK found : found = key_cache_after(k, contexts.ours, i, fault)
  OBVIOUS
<1>14. key_of(found) = derive_segment_key(contexts.ours, masked_position(i))
  BY <1>2, <1>12, <1>13, LookupReturnsKey
<1>15. opens(key_of(found), x, i, kind)
  BY <1>8, <1>9, <1>14 DEF opens
<1>16. o = decrypt_segment_at(k, contexts.ours, x, i, kind, TRUE, fault)
  BY <1>3, <1>7 DEF OpeningAt
<1>17. o = open_segment(k, contexts.ours, x, i, kind, TRUE, fault)
  BY <1>10, <1>11, <1>16 DEF decrypt_segment_at
<1>18. o = [ok |-> TRUE, state |-> found, plaintext |-> x.plaintext]
  BY <1>12, <1>13, <1>15, <1>17 DEF open_segment
<1> QED BY <1>18

(* An intact segment is read by a call that meets no trouble. *)
LEMMA InvAlwaysReadable == ReaderInv => AlwaysReadable
<1> SUFFICES ASSUME ReaderInv PROVE AlwaysReadable
  OBVIOUS
<1>1. ASSUME NEW range \in ranging, NEW r \in reader PROVE range.next < r.layout.segment_count
  <2>1. GoodReader(r, at) /\ GoodCalls /\ IsMessage(sent)
    BY OpenReader DEF ReaderInv
  <2>2. GoodCall(range)
    BY <2>1 DEF GoodCalls, Some, None
  <2>3. PICK start \in Nat, end \in Nat, next \in Nat :
          /\ range = CallRecord(start, end, WrittenBefore(start, next), next)
          /\ end <= Len(sent.bytes) /\ next * capacity < end
    BY <2>2 DEF GoodCall
  <2>4. range.next = next
    BY <2>3 DEF CallRecord
  <2>5. PICK c, all : c = capacity /\ all = Len(sent.bytes)
    OBVIOUS
  <2>6. c \in Nat /\ all \in Nat /\ next * c \in Nat
    BY <2>1, <2>5, MessageShape
  <2>7. next * capacity < Len(sent.bytes)
    BY <2>3, <2>5, <2>6
  <2>8. next \in 0 .. Len(sent.segments) - 1 /\ Len(sent.segments) \in Nat
    BY <2>1, <2>7, SegmentsBefore, MessageShape
  <2>9. r.layout.segment_count = Len(sent.segments)
    BY <2>1, ReaderShape
  <2> QED BY <2>4, <2>8, <2>9
<1>2. ASSUME idle, NEW r \in reader, NEW i \in 0 .. r.layout.segment_count - 1,
             NEW segment \in segment_for_position(r.layout, i), IntactAt(r, segment),
             NEW cached, cached = load_cached_segment(r, segment, no_trouble),
             NEW direct, direct = decrypt_segment_direct(r, segment, no_trouble),
             NEW bytes, bytes = sent.segments[i + 1].plaintext.data
      PROVE  /\ cached.ok /\ cached.reader.scratch.payload = bytes
             /\ direct.ok /\ direct.bytes = bytes
  <2>1. /\ GoodReader(r, at) /\ Setting /\ IsMessage(sent) /\ at \in Nat
        /\ source \in Seq(BytesOf(Items(sent)) \cup {junk[1]})
    BY OpenReader DEF ReaderInv
  <2>2. PICK k, s, b, p, cp, inner :
          /\ r = ReaderRecord(contexts.ours, k, LayoutOf(sent), s, b, p, cp, inner)
          /\ LabelledCache(k, contexts.ours) /\ Anchored(s) /\ IsBuffer(b) /\ p \in Nat
          /\ inner \in {None, Some(at)} /\ Fresh(cp, b)
    BY <2>1 DEF GoodReader
  <2>3. r.layout = LayoutOf(sent) /\ r.layout.segment_count = Len(sent.segments)
    BY <2>1, ReaderShape
  <2>4. i \in 0 .. Len(sent.segments) - 1
    BY <2>3
  <2>5. PICK y : y = SegmentAt(LayoutOf(sent), i)
    OBVIOUS
  <2>6. PICK kind, offset, length :
          kind = y.kind /\ offset = y.ciphertext_offset /\ length = y.ciphertext_length
    OBVIOUS
  <2>7. PICK j, x : j = i + 1 /\ x = sent.segments[j]
    OBVIOUS
  <2>8. /\ i \in Nat /\ y.position = i /\ kind = KindOf(sent, j) /\ offset \in Nat
        /\ length \in Nat \ {0} /\ length = x.length /\ length <= SegmentLength
        /\ offset <= FinalOffset /\ offset + length <= Len(intact(sent)) /\ FinalOffset \in Nat
        /\ Len(intact(sent)) \in Nat /\ i < AEAD_MAX_SEGMENTS
        /\ segment_for_position(LayoutOf(sent), i) = Some(y)
    BY <2>1, <2>4, <2>5, <2>6, <2>7, SegmentNumbers
  <2>9. segment = y
    BY <2>3, <2>8 DEF Some
  <2>10. s \in Nat /\ s + Len(intact(sent)) <= Len(source) /\ fits_u64(s + FinalOffset)
    BY <2>2 DEF Anchored
  <2>11. Len(source) \in Nat /\ U64_MAX \in Nat /\ SegmentLength \in Nat
    BY <2>1, LenProperties, ParametersAssumption, CiphertextsAssumption, SegmentLengths
  <2>12. PICK place \in Nat : place = s + offset
    BY <2>8, <2>10
  <2>13. fits_u64(place) /\ place + length <= Len(source)
    BY <2>8, <2>10, <2>11, <2>12 DEF fits_u64
  <2>14. Slice(source, place, length) = segment_bytes(x)
    <3>1. r.message_start = s
      BY <2>2, ReaderFields
    <3>2. j \in 1 .. Len(sent.segments)
      BY <2>1, <2>4, <2>7, MessageShape
    <3>3. Len(segment_bytes(x)) = length
      BY <2>1, <2>7, <2>8, <3>2, BytesOfSegment
    <3> QED BY <1>2, <2>6, <2>7, <2>8, <2>9, <2>12, <3>1, <3>3 DEF IntactAt
  <2>15. PICK fault, trouble : fault = "none" /\ trouble = no_trouble
    OBVIOUS
  <2>16. /\ trouble \in Troubles /\ trouble.fault = fault /\ trouble.seek = "ok"
         /\ trouble.budget = SegmentLength
    BY <2>15 DEF no_trouble, Troubles
  <2>17. PICK o : o = OpeningAt(k, contexts.ours, place, length, i, kind, fault)
    OBVIOUS
  <2>18. o.ok
    BY <2>1, <2>2, <2>4, <2>7, <2>8, <2>12, <2>13, <2>14, <2>15, <2>17, IntactOpens
  <2>19. Untroubled(trouble, s, offset, length, OpeningAt(k, contexts.ours, s + offset, length, i, kind, fault))
    BY <2>8, <2>11, <2>12, <2>13, <2>16, <2>17, <2>18 DEF Untroubled
  <2>20. direct.ok
    BY <1>2, <2>1, <2>2, <2>6, <2>8, <2>9, <2>10, <2>11, <2>15, <2>16, <2>19, DirectForm, ZenonT(60)
  <2>21. PICK l : l = load_segment(r, segment, trouble)
    OBVIOUS
  <2>22. l.ok
    BY <2>1, <2>2, <2>6, <2>8, <2>9, <2>10, <2>11, <2>16, <2>19, <2>21, LoadForm, ZenonT(60)
  <2>23. cached.ok
    <3>1. cached = Reached(r, at, TRUE, <<>>) \/ cached = l
      BY <1>2, <2>15, <2>21 DEF load_cached_segment
    <3> QED BY <2>22, <3>1 DEF Reached
  <2>24. bytes = PayloadOf(sent, i + 1)
    <3>1. j \in 1 .. Len(sent.segments)
      BY <2>1, <2>4, <2>7, MessageShape
    <3>2. x.plaintext = plaintext_of(PayloadOf(sent, j))
      BY <2>1, <2>7, <3>1, OurKeys
    <3> QED BY <1>2, <2>7, <3>2 DEF plaintext_of
  <2>25. cached.reader.scratch.payload = bytes
    BY <1>2, <2>1, <2>4, <2>5, <2>9, <2>15, <2>16, <2>23, <2>24, CachedKeeps
  <2>26. direct.bytes = bytes
    BY <1>2, <2>1, <2>4, <2>5, <2>9, <2>15, <2>16, <2>20, <2>24, DirectKeeps
  <2> QED BY <2>20, <2>23, <2>25, <2>26
<1>3. ASSUME idle, NEW r \in reader, NEW i \in 0 .. r.layout.segment_count - 1,
             NEW segment \in segment_for_position(r.layout, i), IntactAt(r, segment)
      PROVE  LET cached == load_cached_segment(r, segment, no_trouble)
                 direct == decrypt_segment_direct(r, segment, no_trouble)
                 bytes == sent.segments[i + 1].plaintext.data
             IN  /\ cached.ok /\ cached.reader.scratch.payload = bytes
                 /\ direct.ok /\ direct.bytes = bytes
  <2>1. PICK cached, direct, bytes : /\ cached = load_cached_segment(r, segment, no_trouble)
                                     /\ direct = decrypt_segment_direct(r, segment, no_trouble)
                                     /\ bytes = sent.segments[i + 1].plaintext.data
    OBVIOUS
  <2>2. /\ cached.ok /\ cached.reader.scratch.payload = bytes
        /\ direct.ok /\ direct.bytes = bytes
    BY <1>2, <1>3, <2>1
  <2> QED BY <2>1, <2>2, Zenon
<1> QED BY <1>1, <1>3, Zenon DEF AlwaysReadable

(* The position the Reader tracks is the true one: seek_inner_to forgets   *)
(* it before a seek that may fail, and get_mut always.                     *)
THEOREM TrackedPosition == Spec => []TrackedPositionIsTrue
BY ReaderInvariant, InvTracksPosition, PTL

(* The scratch buffer holds the segment that cached_position names:        *)
(* fetch_segment_ciphertext gives the cache up before it overwrites it.    *)
THEOREM FreshCache == Spec => []CacheIsFresh
BY ReaderInvariant, InvKeepsCacheFresh, PTL

(* from_parts authenticates the final segment of the layout that it was    *)
(* given, and only the message's own layout has one.                       *)
THEOREM WholeLengthOnly == Spec => []OpensOnlyTheWholeLength
BY ReaderInvariant, InvOpensTheWhole, PTL

(* No failed seek, read or decryption makes a Reader useless: a segment    *)
(* that is intact in the source is read by the next untroubled call.       *)
THEOREM NoFailureIsForGood == Spec => []AlwaysReadable
BY ReaderInvariant, InvAlwaysReadable, PTL

=============================================================================
