---------------------------- MODULE OnlineProofs ----------------------------
(***************************************************************************)
(* Proofs about Online and InPlace, for every format, message and number   *)
(* of faults.                                                              *)
(***************************************************************************)
EXTENDS InPlace, SegmentProofs

-----------------------------------------------------------------------------
(* The inductive invariant. *)

CacheInv(keys) == LabelledCache(keys, context)

(* An encryptor, while there is one, stands at the position after what was *)
(* sent, has room for a final segment and draws from the newest batch.     *)
EncryptorInv ==
    /\ drawn \in 0 .. MaxBatches
    /\ sent \in Seq(Payloads)
    /\ encryptor = None => sent # <<>>
    /\ \A e \in encryptor :
         /\ encryptor = Some(e)
         /\ e = [state |-> [keys |-> e.state.keys,
                            nonces |-> [batch |-> drawn, next |-> e.state.nonces.next]],
                 counter |-> [next |-> Len(sent), closed |-> FALSE]]
         /\ e.state.nonces.next \in 0 .. NONCE_BATCH_SIZE
         /\ CacheInv(e.state.keys)
         /\ Len(sent) < AEAD_MAX_SEGMENTS

(* A segment on the wire is the sealed payload of its position, and final  *)
(* exactly if it closed the message.                                       *)
SegmentInv(s) ==
    /\ s.position \in 0 .. Len(sent) - 1
    /\ s = seal(derive_segment_key(context, masked_position(s.position)),
                s.nonce, s.position, s.kind, sent[s.position + 1])
    /\ s.kind \in Kinds
    /\ s.kind = "Final" <=> encryptor = None /\ s.position = Len(sent) - 1

(* Its nonce was taken before the encryptor's next one. *)
NonceInv(s) ==
    /\ s.nonce[1] \in 0 .. drawn
    /\ s.nonce[2] \in Nat
    /\ \A e \in encryptor : s.nonce[1] = drawn => s.nonce[2] < e.state.nonces.next

WireInv ==
    /\ \A s \in wire : SegmentInv(s)
    /\ \A i \in 0 .. Len(sent) - 1 : \E s \in wire : s.position = i
    /\ \A s1, s2 \in wire : s1.position = s2.position => s1 = s2

NoncesInv ==
    /\ \A s \in wire : NonceInv(s)
    /\ NoncesAreUnique

(* A decryptor has delivered the first segments that were sent; it is      *)
(* closed exactly if these are all of an ended message.                    *)
DecryptorInv ==
    /\ delivered \in Seq(Payloads)
    /\ Len(delivered) <= Len(sent)
    /\ \A i \in 1 .. Len(delivered) : delivered[i] = sent[i]
    /\ verdict = "none" <=> decryptor # None
    /\ verdict \in {"none", "Ok", "Truncated"}
    /\ \A d \in decryptor :
         /\ decryptor = Some(d)
         /\ d = [keys |-> d.keys,
                 counter |-> [next |-> d.counter.next, closed |-> d.counter.closed]]
         /\ d.counter.next \in 0 .. AEAD_MAX_SEGMENTS - 1
         /\ d.counter.closed \in BOOLEAN
         /\ CacheInv(d.keys)
         /\ ~d.counter.closed => d.counter.next = Len(delivered)
         /\ d.counter.closed <=> encryptor = None /\ Len(delivered) = Len(sent)

OnlineInv == EncryptorInv /\ WireInv /\ NoncesInv /\ DecryptorInv

-----------------------------------------------------------------------------
(* What one call of the encryptor does. *)

Encryptor(k, b, n, position) ==
    [state |-> EncryptionState(k, b, n), counter |-> [next |-> position, closed |-> FALSE]]

(* r, returned by an encryptor at position i, has sealed nothing and at    *)
(* most lost a nonce, or has sealed the segment of position i.             *)
RefusedShape(r, b, n, i) ==
    \E k : \E c \in {b, b + 1}, m \in 0 .. NONCE_BATCH_SIZE :
        /\ CacheInv(k)
        /\ r.encryptor = Some(Encryptor(k, c, m, i))
        /\ r.segment = None
        /\ r.drew <=> c = b + 1
        /\ c = b => m >= n

SealedShape(r, b, n, i, kind, plaintext) ==
    \E k : \E c \in {b, b + 1}, m \in 1 .. NONCE_BATCH_SIZE :
        /\ CacheInv(k)
        /\ r.encryptor = IF kind = "Final" THEN None ELSE Some(Encryptor(k, c, m, i + 1))
        /\ kind = "NonFinal" => i + 1 < AEAD_MAX_SEGMENTS
        /\ r.segment = Some(seal(derive_segment_key(context, masked_position(i)),
                                 <<c, m - 1>>, i, kind, plaintext))
        /\ r.drew <=> c = b + 1
        /\ c = b => m > n

(* Fields of the records that the encryptor's methods build. *)
LEMMA DrewField ==
    ASSUME NEW e, NEW s, NEW b \in Nat, NEW c \in {b, b + 1}
    PROVE  EncryptorResult(e, s, c = b + 1).drew <=> c = b + 1
BY DEF EncryptorResult

LEMMA StateField ==
    ASSUME NEW state, NEW counter, NEW new
    PROVE  [[state |-> state, counter |-> counter] EXCEPT !.state = new]
             = [state |-> new, counter |-> counter]
OBVIOUS

(* Encryptor::advance around a non-final segment. *)
LEMMA NonFinalShape ==
    ASSUME NEW keys, CacheInv(keys), NEW b \in Nat, NEW n \in 0 .. NONCE_BATCH_SIZE,
           NEW plaintext, NEW i \in Nat, i < AEAD_MAX_SEGMENTS, NEW room, NEW fault,
           NEW r, r = encrypt_non_final(Encryptor(keys, b, n, i), context, plaintext,
                                        room, fault, b + 1)
    PROVE  RefusedShape(r, b, n, i) \/ SealedShape(r, b, n, i, "NonFinal", plaintext)
<1> DEFINE q == encrypt_segment(EncryptionState(keys, b, n), context, plaintext, i,
                                "NonFinal", room, fault, b + 1)
           counter == [next |-> i, closed |-> FALSE]
<1>1. r = IF ~position_for_ok(counter, "NonFinal")
          THEN EncryptorResult(Some(Encryptor(keys, b, n, i)), None, FALSE)
          ELSE EncryptorResult(
                  Some([state |-> q.state, counter |-> counter_after(counter, "NonFinal", q.ok)]),
                  IF q.ok THEN Some(q.segment) ELSE None,
                  q.state.nonces.batch = b + 1)
  BY DEF encrypt_non_final, Encryptor
<1>2. SegmentShape(q, context, b, b + 1, n, i, "NonFinal", plaintext)
  BY EncryptSegmentShape DEF CacheInv
<1> HIDE DEF q
<1>3. PICK k : \E c \in {b, b + 1}, m \in 0 .. NONCE_BATCH_SIZE :
        /\ CacheInv(k)
        /\ q.state = EncryptionState(k, c, m)
        /\ c = b => m >= n
        /\ q.ok => /\ m >= 1
                   /\ c = b => m > n
                   /\ q.segment = seal(derive_segment_key(context, masked_position(i)),
                                       <<c, m - 1>>, i, "NonFinal", plaintext)
  BY <1>2 DEF SegmentShape, CacheInv
<1>4. PICK c \in {b, b + 1}, m \in 0 .. NONCE_BATCH_SIZE :
        /\ CacheInv(k)
        /\ q.state = EncryptionState(k, c, m)
        /\ c = b => m >= n
        /\ q.ok => /\ m >= 1
                   /\ c = b => m > n
                   /\ q.segment = seal(derive_segment_key(context, masked_position(i)),
                                       <<c, m - 1>>, i, "NonFinal", plaintext)
  BY <1>3
<1>5. q.state.nonces.batch = c
  BY <1>4 DEF EncryptionState
<1>6. CASE i = AEAD_MAX_SEGMENTS - 1
  <2>1. r = EncryptorResult(Some(Encryptor(keys, b, n, i)), None, FALSE)
    BY <1>1, <1>6, CounterSteps
  <2>2. r.encryptor = Some(Encryptor(keys, b, n, i)) /\ r.segment = None /\ ~r.drew
    BY <2>1 DEF EncryptorResult
  <2>3. RefusedShape(r, b, n, i)
    BY <2>2 DEF RefusedShape
  <2> QED BY <2>3
<1>7. CASE i # AEAD_MAX_SEGMENTS - 1 /\ q.ok
  <2>1. counter_after(counter, "NonFinal", q.ok) = [next |-> i + 1, closed |-> FALSE]
    BY <1>7, CounterSteps DEF counter_after
  <2>2. r = EncryptorResult(Some(Encryptor(k, c, m, i + 1)), Some(q.segment), c = b + 1)
    BY <1>1, <1>4, <1>5, <1>7, <2>1, CounterSteps DEF Encryptor
  <2>3. r.encryptor = Some(Encryptor(k, c, m, i + 1)) /\ r.segment = Some(q.segment)
    BY <2>2 DEF EncryptorResult
  <2>4. r.drew <=> c = b + 1
    BY <2>2, DrewField
  <2>5. i + 1 < AEAD_MAX_SEGMENTS /\ m \in 1 .. NONCE_BATCH_SIZE
    BY <1>4, <1>7, ParametersAssumption, NonceAssumption
  <2>6. SealedShape(r, b, n, i, "NonFinal", plaintext)
    BY <1>4, <1>7, <2>3, <2>4, <2>5 DEF SealedShape
  <2> QED BY <2>6
<1>8. CASE i # AEAD_MAX_SEGMENTS - 1 /\ ~q.ok
  <2>1. counter_after(counter, "NonFinal", q.ok) = counter
    BY <1>8 DEF counter_after
  <2>2. r = EncryptorResult(Some(Encryptor(k, c, m, i)), None, c = b + 1)
    BY <1>1, <1>4, <1>5, <1>8, <2>1, CounterSteps DEF Encryptor
  <2>3. r.encryptor = Some(Encryptor(k, c, m, i)) /\ r.segment = None
    BY <2>2 DEF EncryptorResult
  <2>4. r.drew <=> c = b + 1
    BY <2>2, DrewField
  <2>5. RefusedShape(r, b, n, i)
    BY <1>4, <2>3, <2>4 DEF RefusedShape
  <2> QED BY <2>5
<1> QED BY <1>6, <1>7, <1>8

(* Encryptor::finalize around the final segment. *)
LEMMA FinalShape ==
    ASSUME NEW keys, CacheInv(keys), NEW b \in Nat, NEW n \in 0 .. NONCE_BATCH_SIZE,
           NEW plaintext, NEW i \in Nat, i < AEAD_MAX_SEGMENTS, NEW room, NEW fault,
           NEW r, r = encrypt_final(Encryptor(keys, b, n, i), context, plaintext,
                                    room, fault, b + 1)
    PROVE  RefusedShape(r, b, n, i) \/ SealedShape(r, b, n, i, "Final", plaintext)
<1> DEFINE q == encrypt_segment(EncryptionState(keys, b, n), context, plaintext, i,
                                "Final", room, fault, b + 1)
           counter == [next |-> i, closed |-> FALSE]
<1>1. r = IF q.ok
          THEN EncryptorResult(None, Some(q.segment), q.state.nonces.batch = b + 1)
          ELSE EncryptorResult(Some([state |-> q.state, counter |-> counter]), None,
                               q.state.nonces.batch = b + 1)
  <2>1. position_for_ok(counter, "Final")
    BY CounterSteps
  <2>2. \A new : [Encryptor(keys, b, n, i) EXCEPT !.state = new]
                 = [state |-> new, counter |-> counter]
    BY StateField DEF Encryptor
  <2> QED BY <2>1, <2>2 DEF encrypt_final, Encryptor, q
<1>2. SegmentShape(q, context, b, b + 1, n, i, "Final", plaintext)
  BY EncryptSegmentShape DEF CacheInv
<1> HIDE DEF q
<1>3. PICK k : \E c \in {b, b + 1}, m \in 0 .. NONCE_BATCH_SIZE :
        /\ CacheInv(k)
        /\ q.state = EncryptionState(k, c, m)
        /\ c = b => m >= n
        /\ q.ok => /\ m >= 1
                   /\ c = b => m > n
                   /\ q.segment = seal(derive_segment_key(context, masked_position(i)),
                                       <<c, m - 1>>, i, "Final", plaintext)
  BY <1>2 DEF SegmentShape, CacheInv
<1>4. PICK c \in {b, b + 1}, m \in 0 .. NONCE_BATCH_SIZE :
        /\ CacheInv(k)
        /\ q.state = EncryptionState(k, c, m)
        /\ c = b => m >= n
        /\ q.ok => /\ m >= 1
                   /\ c = b => m > n
                   /\ q.segment = seal(derive_segment_key(context, masked_position(i)),
                                       <<c, m - 1>>, i, "Final", plaintext)
  BY <1>3
<1>5. q.state.nonces.batch = c
  BY <1>4 DEF EncryptionState
<1>6. CASE q.ok
  <2>1. r = EncryptorResult(None, Some(q.segment), c = b + 1)
    BY <1>1, <1>5, <1>6
  <2>2. r.encryptor = None /\ r.segment = Some(q.segment)
    BY <2>1 DEF EncryptorResult
  <2>3. r.drew <=> c = b + 1
    BY <2>1, DrewField
  <2>4. m \in 1 .. NONCE_BATCH_SIZE
    BY <1>4, <1>6, NonceAssumption
  <2>5. SealedShape(r, b, n, i, "Final", plaintext)
    BY <1>4, <1>6, <2>2, <2>3, <2>4 DEF SealedShape
  <2> QED BY <2>5
<1>7. CASE ~q.ok
  <2>1. r = EncryptorResult(Some(Encryptor(k, c, m, i)), None, c = b + 1)
    BY <1>1, <1>4, <1>5, <1>7 DEF Encryptor
  <2>2. r.encryptor = Some(Encryptor(k, c, m, i)) /\ r.segment = None
    BY <2>1 DEF EncryptorResult
  <2>3. r.drew <=> c = b + 1
    BY <2>1, DrewField
  <2>4. RefusedShape(r, b, n, i)
    BY <1>4, <2>2, <2>3 DEF RefusedShape
  <2> QED BY <2>4
<1> QED BY <1>6, <1>7

-----------------------------------------------------------------------------
(* Each action preserves the invariant. *)

LEMMA EncryptorForm ==
    ASSUME OnlineInv, NEW e \in encryptor
    PROVE  /\ encryptor = Some(e)
           /\ e = Encryptor(e.state.keys, drawn, e.state.nonces.next, Len(sent))
           /\ e.state.nonces.next \in 0 .. NONCE_BATCH_SIZE
           /\ CacheInv(e.state.keys)
           /\ drawn \in Nat /\ Len(sent) \in Nat /\ Len(sent) < AEAD_MAX_SEGMENTS
BY OnlineAssumption DEF OnlineInv, EncryptorInv, Encryptor, EncryptionState

(* EncryptorInv's record equation holds of an encryptor in canonical form. *)
LEMMA EncryptorFields ==
    ASSUME NEW k, NEW b, NEW n, NEW i
    PROVE  LET e == Encryptor(k, b, n, i)
           IN  /\ e.state.keys = k
               /\ e.state.nonces.next = n
               /\ e = [state |-> [keys |-> e.state.keys,
                                  nonces |-> [batch |-> b, next |-> e.state.nonces.next]],
                       counter |-> [next |-> i, closed |-> FALSE]]
BY DEF Encryptor, EncryptionState

(* A call that seals nothing preserves the invariant. *)
LEMMA RefusedKeepsInv ==
    ASSUME OnlineInv, NEW e \in encryptor, NEW plaintext, NEW r,
           RefusedShape(r, drawn, e.state.nonces.next, Len(sent)),
           Encrypted(r, plaintext)
    PROVE  /\ OnlineInv'
           /\ encryptor # None /\ encryptor' # None
           /\ UNCHANGED <<sent, delivered, verdict>>
<1> DEFINE n == e.state.nonces.next
<1>1. /\ encryptor = Some(e) /\ n \in 0 .. NONCE_BATCH_SIZE
      /\ drawn \in Nat /\ Len(sent) \in Nat /\ Len(sent) < AEAD_MAX_SEGMENTS
  BY EncryptorForm
<1>2. PICK k : \E c \in {drawn, drawn + 1}, m \in 0 .. NONCE_BATCH_SIZE :
        /\ CacheInv(k)
        /\ r.encryptor = Some(Encryptor(k, c, m, Len(sent)))
        /\ r.segment = None
        /\ r.drew <=> c = drawn + 1
        /\ c = drawn => m >= n
  BY DEF RefusedShape
<1>3. PICK c \in {drawn, drawn + 1}, m \in 0 .. NONCE_BATCH_SIZE :
        /\ CacheInv(k)
        /\ r.encryptor = Some(Encryptor(k, c, m, Len(sent)))
        /\ r.segment = None
        /\ r.drew <=> c = drawn + 1
        /\ c = drawn => m >= n
  BY <1>2
<1>4. /\ encryptor' = Some(Encryptor(k, c, m, Len(sent)))
      /\ drawn' = c /\ drawn' <= MaxBatches
      /\ wire' = wire /\ sent' = sent
      /\ decryptor' = decryptor /\ delivered' = delivered /\ verdict' = verdict
  BY <1>1, <1>3 DEF Encrypted, None, decVars
<1>5. encryptor # None /\ encryptor' # None
  BY <1>1, <1>4 DEF Some, None
<1>6. EncryptorInv'
  <2>1. CacheInv(k)'
    BY <1>3 DEF CacheInv, context, Context
  <2>2. drawn' \in 0 .. MaxBatches /\ sent' \in Seq(Payloads)
    BY <1>1, <1>3, <1>4, OnlineAssumption DEF OnlineInv, EncryptorInv
  <2> QED BY <1>1, <1>3, <1>4, <1>5, <2>1, <2>2, EncryptorFields DEF EncryptorInv, Some
<1>7. WireInv'
  BY <1>4, <1>5 DEF OnlineInv, WireInv, SegmentInv
<1>8. NoncesInv'
  <2>1. \A s \in wire : NonceInv(s)'
    <3> SUFFICES ASSUME NEW s \in wire
                 PROVE  NonceInv(s)'
      OBVIOUS
    <3>1. /\ s.nonce[1] \in 0 .. drawn /\ s.nonce[2] \in Nat
          /\ s.nonce[1] = drawn => s.nonce[2] < n
      BY <1>1 DEF OnlineInv, NoncesInv, NonceInv, Some
    <3>2. \A f \in encryptor' : f.state.nonces.next = m
      BY <1>4 DEF Encryptor, EncryptionState, Some
    <3>3. c = drawn => (s.nonce[1] = c => s.nonce[2] < m)
      BY <1>1, <1>3, <3>1
    <3>4. c = drawn + 1 => s.nonce[1] # c
      BY <1>1, <3>1
    <3> QED BY <1>1, <1>3, <1>4, <3>1, <3>2, <3>3, <3>4 DEF NonceInv
  <2> QED BY <1>4, <2>1 DEF OnlineInv, NoncesInv, NoncesAreUnique
<1>9. DecryptorInv'
  BY <1>4, <1>5 DEF OnlineInv, DecryptorInv, CacheInv
<1> QED BY <1>4, <1>5, <1>6, <1>7, <1>8, <1>9 DEF OnlineInv

(* A call that seals the next segment preserves the invariant. *)
LEMMA SealedKeepsInv ==
    ASSUME OnlineInv, NEW e \in encryptor, NEW plaintext \in Payloads, NEW r, NEW kind \in Kinds,
           SealedShape(r, drawn, e.state.nonces.next, Len(sent), kind, plaintext),
           Encrypted(r, plaintext)
    PROVE  /\ OnlineInv'
           /\ encryptor # None
           /\ sent' = Append(sent, plaintext) /\ UNCHANGED <<delivered, verdict>>
<1> DEFINE n == e.state.nonces.next
           i == Len(sent)
           Segment(c, m) == seal(derive_segment_key(context, masked_position(i)),
                                 <<c, m - 1>>, i, kind, plaintext)
<1>1. /\ encryptor = Some(e) /\ n \in 0 .. NONCE_BATCH_SIZE
      /\ drawn \in Nat /\ i \in Nat /\ i < AEAD_MAX_SEGMENTS
  BY EncryptorForm
<1>2. PICK k : \E c \in {drawn, drawn + 1}, m \in 1 .. NONCE_BATCH_SIZE :
        /\ CacheInv(k)
        /\ r.encryptor = IF kind = "Final" THEN None ELSE Some(Encryptor(k, c, m, i + 1))
        /\ kind = "NonFinal" => i + 1 < AEAD_MAX_SEGMENTS
        /\ r.segment = Some(Segment(c, m))
        /\ r.drew <=> c = drawn + 1
        /\ c = drawn => m > n
  BY DEF SealedShape
<1>3. PICK c \in {drawn, drawn + 1}, m \in 1 .. NONCE_BATCH_SIZE :
        /\ CacheInv(k)
        /\ r.encryptor = IF kind = "Final" THEN None ELSE Some(Encryptor(k, c, m, i + 1))
        /\ kind = "NonFinal" => i + 1 < AEAD_MAX_SEGMENTS
        /\ r.segment = Some(Segment(c, m))
        /\ r.drew <=> c = drawn + 1
        /\ c = drawn => m > n
  BY <1>2
<1>new. PICK new : new = Segment(c, m)
  OBVIOUS
<1> HIDE DEF n
<1>4. /\ encryptor' = IF kind = "Final" THEN None ELSE Some(Encryptor(k, c, m, i + 1))
      /\ drawn' = c /\ drawn' <= MaxBatches
      /\ wire' = wire \cup {new} /\ sent' = Append(sent, plaintext)
      /\ decryptor' = decryptor /\ delivered' = delivered /\ verdict' = verdict
  BY <1>1, <1>3, <1>new DEF Encrypted, None, Some, decVars
<1>5. /\ sent \in Seq(Payloads) /\ sent' \in Seq(Payloads) /\ Len(sent') = i + 1
      /\ \A j \in 1 .. i : sent'[j] = sent[j]
      /\ sent'[i + 1] = plaintext
  BY <1>1, <1>4 DEF OnlineInv, EncryptorInv
<1>6. /\ encryptor # None
      /\ encryptor' = None <=> kind = "Final"
  BY <1>1, <1>4 DEF Some, None
<1>7. /\ new.position = i /\ new.kind = kind /\ new.nonce = <<c, m - 1>>
      /\ new = seal(derive_segment_key(context, masked_position(i)), new.nonce, i, kind, plaintext)
  BY <1>new DEF seal
<1>8. EncryptorInv'
  <2>1. CacheInv(k)'
    BY <1>3 DEF CacheInv, context, Context
  <2>2. drawn' \in 0 .. MaxBatches /\ sent' \in Seq(Payloads) /\ sent' # <<>>
    BY <1>1, <1>3, <1>4, <1>5, OnlineAssumption
  <2>3. \A f \in encryptor' : kind = "NonFinal" /\ f = Encryptor(k, c, m, i + 1)
    BY <1>4 DEF None, Some, Kinds
  <2>4. m \in 0 .. NONCE_BATCH_SIZE
    BY NonceAssumption
  <2> QED BY <1>1, <1>3, <1>4, <1>5, <2>1, <2>2, <2>3, <2>4, EncryptorFields
          DEF EncryptorInv, Some
<1>9. WireInv'
  <2>1. \A s \in wire : s.position \in 0 .. i - 1 /\ SegmentInv(s)
    BY DEF OnlineInv, WireInv, SegmentInv
  <2>2. \A s \in wire : SegmentInv(s)'
    <3> SUFFICES ASSUME NEW s \in wire PROVE SegmentInv(s)'
      OBVIOUS
    <3>1. s.position \in 0 .. Len(sent') - 1 /\ s.position # Len(sent') - 1
      BY <1>1, <1>5, <2>1
    <3>2. sent'[s.position + 1] = sent[s.position + 1]
      BY <1>1, <1>5, <2>1, SMTT(30)
    <3> QED BY <1>6, <2>1, <3>1, <3>2 DEF SegmentInv
  <2>3. SegmentInv(new)'
    BY <1>1, <1>5, <1>6, <1>7 DEF SegmentInv
  <2>4. \A j \in 0 .. Len(sent') - 1 : \E s \in wire' : s.position = j
    BY <1>1, <1>4, <1>5, <1>7, SMTT(30) DEF OnlineInv, WireInv
  <2>5. \A s1, s2 \in wire' : s1.position = s2.position => s1 = s2
    BY <1>1, <1>4, <1>7, <2>1 DEF OnlineInv, WireInv
  <2> QED BY <1>4, <2>2, <2>3, <2>4, <2>5 DEF WireInv
<1>10. NoncesInv'
  <2>1. \A s \in wire : /\ s.nonce[1] \in 0 .. drawn /\ s.nonce[2] \in Nat
                        /\ s.nonce[1] = drawn => s.nonce[2] < n
    BY <1>1 DEF OnlineInv, NoncesInv, NonceInv, Some, n
  <2>2. \A f \in encryptor' : f.state.nonces.next = m
    BY <1>4, EncryptorFields DEF Some, None
  <2>3. \A s \in wire : s.nonce[1] = c => s.nonce[2] < m - 1
    BY <1>1, <1>3, <2>1
  <2>4. \A s \in wire : NonceInv(s)'
    BY <1>1, <1>4, <2>1, <2>2, <2>3 DEF NonceInv
  <2>5. NonceInv(new)'
    BY <1>1, <1>4, <1>7, <2>2 DEF NonceInv
  <2>6. \A s \in wire : s.nonce # new.nonce
    BY <1>1, <1>7, <2>3
  <2> QED BY <1>4, <2>4, <2>5, <2>6 DEF OnlineInv, NoncesInv, NoncesAreUnique
<1>11. DecryptorInv'
  <2>1. /\ Len(delivered) <= Len(sent')
        /\ \A j \in 1 .. Len(delivered) : delivered[j] = sent'[j]
        /\ Len(delivered) # Len(sent')
    BY <1>1, <1>5 DEF OnlineInv, DecryptorInv
  <2> QED BY <1>4, <1>6, <2>1 DEF OnlineInv, DecryptorInv, CacheInv
<1> QED BY <1>4, <1>6, <1>8, <1>9, <1>10, <1>11 DEF OnlineInv

-----------------------------------------------------------------------------
(* What the decryptor accepts. *)

(* Whatever the transport hands over, a segment that opens under the key   *)
(* of a position is, but for its framing, the one sealed at that position: *)
(* damage is detected, and another message has other keys                  *)
(* (open_segment_in_place, derive_segment_key).                            *)
LEMMA OpensOnlyWhatWasSealed ==
    ASSUME OnlineInv, NEW segment \in Arriving, NEW i \in Nat, NEW kind,
           opens(derive_segment_key(context, masked_position(i)), segment, i, kind)
    PROVE  \E s \in wire : s.position = i /\ s.kind = kind /\ s.plaintext = segment.plaintext
<1>1. CASE segment \in wire
  BY <1>1 DEF opens
<1>2. ASSUME segment \in Foreign
      PROVE  FALSE
  <2>1. PICK j \in 0 .. AEAD_MAX_SEGMENTS - 1 :
          segment.key = derive_segment_key(foreign, masked_position(j))
    BY <1>2 DEF Foreign, seal
  <2>2. context.message # foreign.message
    BY DEF context, foreign, Context, derive_message
  <2> QED BY <2>1, <2>2 DEF opens, derive_segment_key
<1>3. ASSUME NEW s \in wire, segment \in Altered(s, {0, SEGMENT_OVERHEAD, SegmentLength})
      PROVE  s.position = i /\ s.kind = kind /\ s.plaintext = segment.plaintext
  <2>1. s = seal(s.key, s.nonce, s.position, s.kind, s.plaintext)
    BY DEF OnlineInv, WireInv, SegmentInv, seal
  <2>2. ~segment.damaged /\ segment.position = i /\ segment.kind = kind
    BY DEF opens
  <2>3. PICK l : segment = [s EXCEPT !.prefix = l]
    BY <1>3, <2>1, <2>2 DEF Altered, seal
  <2> QED BY <2>1, <2>2, <2>3 DEF seal
<1> QED BY <1>1, <1>2, <1>3 DEF Arriving

(* An accepted segment is the next one that was sent; any other call       *)
(* leaves the counter alone (Decryptor::advance).                          *)
Decryptor(k, i, closed) == [keys |-> k, counter |-> [next |-> i, closed |-> closed]]

AcceptedShape(r, i) ==
    \E k : \E s \in wire :
        /\ CacheInv(k)
        /\ s.position = i
        /\ s.kind = "NonFinal" => i # AEAD_MAX_SEGMENTS - 1
        /\ r.decryptor = IF s.kind = "Final" THEN Decryptor(k, i, TRUE)
                                             ELSE Decryptor(k, i + 1, FALSE)
        /\ r.plaintext = Some(s.plaintext)

RejectedShape(r, i, closed) ==
    \E k : CacheInv(k) /\ r.decryptor = Decryptor(k, i, closed) /\ r.plaintext = None

(* A lookup and an opening of a segment (decrypt_segment_into_inner). *)
LEMMA OpenShape ==
    ASSUME OnlineInv, NEW keys, CacheInv(keys), NEW segment \in Arriving, NEW i \in Nat,
           NEW kind, NEW room, NEW fault, NEW r,
           r = open_segment(keys, context, segment, i, kind, room, fault)
    PROVE  /\ CacheInv(r.state)
           /\ r.ok => \E s \in wire : /\ s.position = i /\ s.kind = kind
                                      /\ s.plaintext = r.plaintext
<1> DEFINE found == key_cache_after(keys, context, i, fault)
<1>1. CacheInv(found)
  BY CacheStaysLabelled DEF CacheInv
<1>2. r.state \in {keys, found}
  BY DEF open_segment, Failed
<1>3. ASSUME r.ok
      PROVE  \E s \in wire : s.position = i /\ s.kind = kind /\ s.plaintext = r.plaintext
  <2>1. /\ key_for_position_ok(keys, i, fault)
        /\ opens(key_of(found), segment, i, kind)
        /\ r.plaintext = segment.plaintext
    BY <1>3 DEF open_segment, Failed
  <2>2. key_of(found) = derive_segment_key(context, masked_position(i))
    BY <2>1, LookupReturnsKey DEF CacheInv
  <2> QED BY <2>1, <2>2, OpensOnlyWhatWasSealed
<1> HIDE DEF found
<1> QED BY <1>1, <1>2, <1>3

(* The prefix names one of the two kinds (SegmentFraming::decode). *)
LEMMA FramingNamesKind ==
    ASSUME NEW segment, framing(context.parameters, segment).ok
    PROVE  framing(context.parameters, segment).value.kind \in Kinds
BY DEF framing, decode_framing, Framing, Ok, Err, Kinds

(* Decryptor::framing and advance around the opening. *)
LEMMA ReceiveShape ==
    ASSUME OnlineInv, NEW keys, CacheInv(keys), NEW segment \in Arriving, NEW i \in Nat,
           i < AEAD_MAX_SEGMENTS, NEW closed \in BOOLEAN, NEW room, NEW fault, NEW r,
           r = decrypt_segment(Decryptor(keys, i, closed), context, segment, room, fault)
    PROVE  RejectedShape(r, i, closed) \/ (~closed /\ AcceptedShape(r, i))
<1> DEFINE f == framing(context.parameters, segment)
           counter == [next |-> i, closed |-> closed]
           q == decrypt_segment_framed(keys, context, segment, i, f.value, room, fault)
<1>1. r = IF ~f.ok \/ ~position_for_ok(counter, f.value.kind)
          THEN DecryptorResult(Decryptor(keys, i, closed), None)
          ELSE DecryptorResult(
                  [keys |-> q.state, counter |-> counter_after(counter, f.value.kind, q.ok)],
                  IF q.ok THEN Some(q.plaintext) ELSE None)
  BY DEF decrypt_segment, Decryptor
<1>2. /\ CacheInv(q.state)
      /\ q.ok => \E s \in wire : /\ s.position = i /\ s.kind = f.value.kind
                                 /\ s.plaintext = q.plaintext
  <2> DEFINE o == open_segment(keys, context, segment, i, f.value.kind, room, fault)
  <2>1. \/ q = o
        \/ q.state = keys /\ ~q.ok
    BY DEF decrypt_segment_framed, Failed
  <2>2. /\ CacheInv(o.state)
        /\ o.ok => \E s \in wire : /\ s.position = i /\ s.kind = f.value.kind
                                   /\ s.plaintext = o.plaintext
    BY OpenShape
  <2> HIDE DEF o, q, f
  <2> QED BY <2>1, <2>2
<1>3. f.ok => f.value.kind \in Kinds
  BY FramingNamesKind
<1> HIDE DEF q, f
<1>4. CASE ~f.ok \/ ~position_for_ok(counter, f.value.kind)
  <2>1. r = DecryptorResult(Decryptor(keys, i, closed), None)
    BY <1>1, <1>4
  <2> QED BY <2>1 DEF DecryptorResult, RejectedShape
<1>5. CASE f.ok /\ position_for_ok(counter, f.value.kind) /\ ~q.ok
  <2>1. r = DecryptorResult([keys |-> q.state, counter |-> counter], None)
    BY <1>1, <1>5 DEF counter_after
  <2> QED BY <1>2, <2>1 DEF DecryptorResult, RejectedShape, Decryptor
<1>6. CASE f.ok /\ position_for_ok(counter, f.value.kind) /\ q.ok
  <2>1. PICK s \in wire : s.position = i /\ s.kind = f.value.kind /\ s.plaintext = q.plaintext
    BY <1>2, <1>6
  <2>2. counter_after(counter, f.value.kind, q.ok) = complete(counter, s.kind)
    BY <1>6, <2>1 DEF counter_after
  <2>3. r = DecryptorResult([keys |-> q.state, counter |-> complete(counter, s.kind)],
                            Some(s.plaintext))
    BY <1>1, <1>6, <2>1, <2>2
  <2>4. ~closed /\ (s.kind = "NonFinal" => i # AEAD_MAX_SEGMENTS - 1)
    BY <1>6, <2>1 DEF position_for_ok
  <2>5. closed = FALSE
    BY <2>4
  <2>6. CASE s.kind = "Final"
    <3>1. complete(counter, s.kind) = [next |-> i, closed |-> TRUE]
      BY <2>5, <2>6 DEF complete
    <3>2. r = DecryptorResult(Decryptor(q.state, i, TRUE), Some(s.plaintext))
      BY <2>3, <3>1 DEF Decryptor
    <3>3. r.decryptor = Decryptor(q.state, i, TRUE) /\ r.plaintext = Some(s.plaintext)
      BY <3>2 DEF DecryptorResult
    <3>4. AcceptedShape(r, i)
      BY <1>2, <2>1, <2>4, <2>6, <3>3 DEF AcceptedShape
    <3> QED BY <2>4, <3>4
  <2>7. CASE s.kind = "NonFinal"
    <3>1. complete(counter, s.kind) = [next |-> i + 1, closed |-> FALSE]
      BY <2>5, <2>7, CounterSteps
    <3>2. r = DecryptorResult(Decryptor(q.state, i + 1, FALSE), Some(s.plaintext))
      BY <2>3, <3>1 DEF Decryptor
    <3>3. r.decryptor = Decryptor(q.state, i + 1, FALSE) /\ r.plaintext = Some(s.plaintext)
      BY <3>2 DEF DecryptorResult
    <3>4. AcceptedShape(r, i)
      BY <1>2, <2>1, <2>4, <2>7, <3>3 DEF AcceptedShape
    <3> QED BY <2>4, <3>4
  <2> QED BY <1>3, <1>6, <2>1, <2>6, <2>7 DEF Kinds
<1> QED BY <1>4, <1>5, <1>6

LEMMA DecryptorForm ==
    ASSUME OnlineInv, NEW d \in decryptor
    PROVE  /\ decryptor = Some(d)
           /\ d = Decryptor(d.keys, d.counter.next, d.counter.closed)
           /\ d.counter.next \in Nat /\ d.counter.next < AEAD_MAX_SEGMENTS
           /\ d.counter.closed \in BOOLEAN
           /\ CacheInv(d.keys)
           /\ verdict = "none"
BY ParametersAssumption DEF OnlineInv, DecryptorInv, Decryptor, Some, None

LEMMA DecryptorFields ==
    ASSUME NEW k, NEW i, NEW closed \in BOOLEAN
    PROVE  LET d == Decryptor(k, i, closed)
           IN  /\ d.keys = k /\ d.counter.next = i /\ d.counter.closed = closed
               /\ d = [keys |-> d.keys,
                       counter |-> [next |-> d.counter.next, closed |-> d.counter.closed]]
BY DEF Decryptor

(* A step of the receiver leaves the sender's half of the invariant. *)
LEMMA SenderUntouched ==
    ASSUME OnlineInv, UNCHANGED encVars
    PROVE  /\ EncryptorInv' /\ WireInv' /\ NoncesInv'
           /\ encryptor' = encryptor /\ sent' = sent /\ wire' = wire
BY DEF OnlineInv, encVars, EncryptorInv, CacheInv, WireInv, SegmentInv, NoncesInv, NonceInv,
       NoncesAreUnique

(* A call that returns no plaintext preserves the invariant. *)
LEMMA RejectedKeepsInv ==
    ASSUME OnlineInv, NEW d \in decryptor, NEW r,
           RejectedShape(r, d.counter.next, d.counter.closed), Decrypted(r)
    PROVE  OnlineInv' /\ delivered' = delivered
<1>1. PICK k : /\ CacheInv(k)
               /\ r.decryptor = Decryptor(k, d.counter.next, d.counter.closed)
               /\ r.plaintext = None
  BY DEF RejectedShape
<1>2. /\ decryptor' = Some(r.decryptor) /\ delivered' = delivered /\ verdict' = verdict
      /\ UNCHANGED encVars
  BY <1>1 DEF Decrypted
<1>3. decryptor # None /\ decryptor' # None
  BY <1>2 DEF Some, None
<1>4. d.counter.closed \in BOOLEAN
  BY DecryptorForm
<1>5. CacheInv(k)'
  BY <1>1 DEF CacheInv, context, Context
<1>6. DecryptorInv'
  BY <1>1, <1>2, <1>3, <1>4, <1>5, DecryptorFields, SenderUntouched
  DEF OnlineInv, DecryptorInv, Some
<1> QED BY <1>2, <1>6, SenderUntouched DEF OnlineInv

(* A call that returns a plaintext returns the next one that was sent, and *)
(* preserves the invariant.                                                *)
LEMMA AcceptedKeepsInv ==
    ASSUME OnlineInv, NEW d \in decryptor, NEW r, ~d.counter.closed,
           AcceptedShape(r, d.counter.next), Decrypted(r)
    PROVE  /\ OnlineInv'
           /\ Len(delivered) < Len(sent)
           /\ delivered' = Append(delivered, sent[Len(delivered) + 1])
<1> DEFINE i == d.counter.next
<1>1. PICK k : \E s \in wire :
        /\ CacheInv(k)
        /\ s.position = i
        /\ s.kind = "NonFinal" => i # AEAD_MAX_SEGMENTS - 1
        /\ r.decryptor = IF s.kind = "Final" THEN Decryptor(k, i, TRUE)
                                             ELSE Decryptor(k, i + 1, FALSE)
        /\ r.plaintext = Some(s.plaintext)
  BY DEF AcceptedShape
<1>2. PICK s \in wire :
        /\ CacheInv(k)
        /\ s.position = i
        /\ s.kind = "NonFinal" => i # AEAD_MAX_SEGMENTS - 1
        /\ r.decryptor = IF s.kind = "Final" THEN Decryptor(k, i, TRUE)
                                             ELSE Decryptor(k, i + 1, FALSE)
        /\ r.plaintext = Some(s.plaintext)
  BY <1>1
<1>3. /\ decryptor' = Some(r.decryptor) /\ verdict' = verdict /\ UNCHANGED encVars
      /\ delivered' = Append(delivered, s.plaintext)
  BY <1>2 DEF Decrypted, Some, None
<1>4. /\ i = Len(delivered) /\ i \in Nat /\ i < AEAD_MAX_SEGMENTS
      /\ delivered \in Seq(Payloads) /\ sent \in Seq(Payloads)
  BY DecryptorForm DEF OnlineInv, DecryptorInv, EncryptorInv
<1>5. /\ i < Len(sent) /\ s.plaintext = sent[i + 1] /\ s.kind \in Kinds
      /\ s.kind = "Final" <=> encryptor = None /\ i + 1 = Len(sent)
  <2>1. SegmentInv(s)
    BY DEF OnlineInv, WireInv
  <2>2. s.plaintext = sent[s.position + 1]
    BY <2>1 DEF SegmentInv, seal
  <2> QED BY <1>2, <1>4, <2>1, <2>2 DEF SegmentInv
<1>6. /\ delivered' \in Seq(Payloads) /\ Len(delivered') = i + 1 /\ Len(delivered') <= Len(sent)
      /\ \A j \in 1 .. Len(delivered') : delivered'[j] = sent[j]
  <2>1. sent[i + 1] \in Payloads
    BY <1>4, <1>5
  <2>2. \A j \in 1 .. i : delivered[j] = sent[j]
    BY <1>4 DEF OnlineInv, DecryptorInv
  <2> QED BY <1>3, <1>4, <1>5, <2>1, <2>2
<1>7. decryptor # None /\ decryptor' # None
  BY <1>3 DEF Some, None
<1>8. CacheInv(k)'
  BY <1>2 DEF CacheInv, context, Context
<1> HIDE DEF i
<1>9. DecryptorInv'
  <2>1. /\ delivered' \in Seq(Payloads) /\ Len(delivered') <= Len(sent')
        /\ \A j \in 1 .. Len(delivered') : delivered'[j] = sent'[j]
        /\ verdict' = "none" <=> decryptor' # None
        /\ verdict' \in {"none", "Ok", "Truncated"}
    BY <1>3, <1>6, <1>7, SenderUntouched DEF OnlineInv, DecryptorInv
  <2>2. CASE s.kind = "Final"
    <3>1. decryptor' = Some(Decryptor(k, i, TRUE))
      BY <1>2, <1>3, <2>2
    <3>2. encryptor' = None /\ Len(delivered') = Len(sent')
      BY <1>3, <1>5, <1>6, <2>2, SenderUntouched
    <3>3. i \in 0 .. AEAD_MAX_SEGMENTS - 1
      BY <1>4, ParametersAssumption
    <3> DEFINE f == Decryptor(k, i, TRUE)
    <3>4. /\ f.keys = k /\ f.counter.next = i /\ f.counter.closed = TRUE
          /\ f = [keys |-> f.keys, counter |-> [next |-> f.counter.next,
                                               closed |-> f.counter.closed]]
      BY DecryptorFields
    <3>5. \A g \in decryptor' : decryptor' = Some(g) /\ g = f
      BY <3>1 DEF Some
    <3> HIDE DEF f
    <3> QED BY <1>8, <2>1, <3>2, <3>3, <3>4, <3>5 DEF DecryptorInv
  <2>3. CASE s.kind = "NonFinal"
    <3>1. decryptor' = Some(Decryptor(k, i + 1, FALSE))
      BY <1>2, <1>3, <2>3
    <3>2. ~(encryptor' = None /\ Len(delivered') = Len(sent'))
      BY <1>3, <1>5, <1>6, <2>3, SenderUntouched
    <3>3. i + 1 \in 0 .. AEAD_MAX_SEGMENTS - 1 /\ i + 1 = Len(delivered')
      BY <1>2, <1>4, <1>6, <2>3, ParametersAssumption
    <3> DEFINE f == Decryptor(k, i + 1, FALSE)
    <3>4. /\ f.keys = k /\ f.counter.next = i + 1 /\ f.counter.closed = FALSE
          /\ f = [keys |-> f.keys, counter |-> [next |-> f.counter.next,
                                               closed |-> f.counter.closed]]
      BY DEF Decryptor
    <3>5. \A g \in decryptor' : decryptor' = Some(g) /\ g = f
      BY <3>1 DEF Some
    <3> HIDE DEF f
    <3> QED BY <1>8, <2>1, <3>2, <3>3, <3>4, <3>5 DEF DecryptorInv
  <2> QED BY <1>5, <2>2, <2>3 DEF Kinds
<1> QED BY <1>3, <1>4, <1>5, <1>9, SenderUntouched DEF OnlineInv

-----------------------------------------------------------------------------
(* The steps of the specification. *)

(* What every step shows: the invariant, a step or a stutter of the        *)
(* abstract stream, and that a closed decryptor delivers nothing.          *)
GoodStep ==
    /\ OnlineInv'
    /\ [Stream!Next]_(Stream!vars)
    /\ \A d \in decryptor : d.counter.closed => delivered' = delivered

LEMMA InitEstablishesInv == Init => OnlineInv
<1> SUFFICES ASSUME Init PROVE OnlineInv
  OBVIOUS
<1>1. CacheInv(KeyCache_new(context))
  BY DEF CacheInv, LabelledCache, KeyCache_new, derive, Some
<1>2. Encryptor_new(context)
        = Encryptor(KeyCache_new(context), 0, NONCE_BATCH_SIZE, 0)
  BY DEF Encryptor_new, NonceGenerator_new, counter_new, Encryptor, EncryptionState
<1>3. Decryptor_new(context) = Decryptor(KeyCache_new(context), 0, FALSE)
  BY DEF Decryptor_new, counter_new, Decryptor
<1>4. NONCE_BATCH_SIZE \in 0 .. NONCE_BATCH_SIZE /\ 0 \in 0 .. AEAD_MAX_SEGMENTS - 1
  BY NonceAssumption, ParametersAssumption
<1>5. EncryptorInv
  <2>1. encryptor # None /\ Len(sent) = 0 /\ sent \in Seq(Payloads) /\ 0 < AEAD_MAX_SEGMENTS
    BY ParametersAssumption DEF Init, Some, None
  <2>2. drawn = 0 /\ drawn \in 0 .. MaxBatches
    BY OnlineAssumption DEF Init
  <2>3. \A e \in encryptor : /\ encryptor = Some(e)
                             /\ e = Encryptor(KeyCache_new(context), 0, NONCE_BATCH_SIZE, 0)
    BY <1>2 DEF Init, Some
  <2> QED BY <1>1, <1>4, <2>1, <2>2, <2>3, EncryptorFields DEF EncryptorInv
<1>6. WireInv /\ NoncesInv
  BY DEF Init, WireInv, NoncesInv, NoncesAreUnique
<1>7. DecryptorInv
  <2>1. /\ decryptor # None /\ encryptor # None /\ verdict = "none"
        /\ delivered \in Seq(Payloads) /\ Len(delivered) = 0 /\ Len(sent) = 0
    BY DEF Init, Some, None
  <2> DEFINE f == Decryptor(KeyCache_new(context), 0, FALSE)
  <2>2. /\ f.keys = KeyCache_new(context) /\ f.counter.next = 0 /\ f.counter.closed = FALSE
        /\ f = [keys |-> f.keys, counter |-> [next |-> f.counter.next,
                                             closed |-> f.counter.closed]]
    BY DEF Decryptor
  <2>3. \A d \in decryptor : decryptor = Some(d) /\ d = f
    BY <1>3 DEF Init, Some
  <2> HIDE DEF f
  <2>4. /\ Len(delivered) <= Len(sent)
        /\ \A i \in 1 .. Len(delivered) : delivered[i] = sent[i]
    BY <2>1
  <2>5. ~(encryptor = None /\ Len(delivered) = Len(sent))
    BY <2>1
  <2>6. f.counter.closed \in BOOLEAN /\ ~f.counter.closed
    BY <2>2
  <2>7. f.counter.next \in 0 .. AEAD_MAX_SEGMENTS - 1 /\ CacheInv(f.keys)
        /\ f.counter.next = Len(delivered)
    BY <1>1, <1>4, <2>1, <2>2
  <2> QED BY <2>1, <2>2, <2>3, <2>4, <2>5, <2>6, <2>7 DEF DecryptorInv
<1> QED BY <1>5, <1>6, <1>7 DEF OnlineInv

(* A call of the encryptor is a Send or changes nothing of the stream. *)
LEMMA EncryptIsGood ==
    ASSUME OnlineInv, NEW e \in encryptor, NEW plaintext \in Payloads, NEW r, NEW kind \in Kinds,
           \/ RefusedShape(r, drawn, e.state.nonces.next, Len(sent))
           \/ SealedShape(r, drawn, e.state.nonces.next, Len(sent), kind, plaintext),
           Encrypted(r, plaintext)
    PROVE  GoodStep
<1>1. delivered' = delivered
  BY DEF Encrypted, decVars
<1>2. CASE RefusedShape(r, drawn, e.state.nonces.next, Len(sent))
  <2>1. /\ OnlineInv'
        /\ encryptor # None /\ encryptor' # None
        /\ UNCHANGED <<sent, delivered, verdict>>
    BY <1>2, RefusedKeepsInv
  <2>2. UNCHANGED Stream!vars
    BY <2>1 DEF Stream!vars
  <2> QED BY <1>1, <2>1, <2>2 DEF GoodStep
<1>3. CASE SealedShape(r, drawn, e.state.nonces.next, Len(sent), kind, plaintext)
  <2>1. /\ OnlineInv'
        /\ encryptor # None
        /\ sent' = Append(sent, plaintext) /\ UNCHANGED <<delivered, verdict>>
    BY <1>3, SealedKeepsInv
  <2>2. Stream!Send(plaintext, encryptor' = None)
    BY <2>1 DEF Stream!Send
  <2>3. Stream!Next
    BY <2>2 DEF Stream!Next
  <2> QED BY <1>1, <2>1, <2>3 DEF GoodStep
<1> QED BY <1>2, <1>3

(* A call of the decryptor is a Deliver or changes nothing of the stream. *)
LEMMA ReceiveIsGood ==
    ASSUME OnlineInv, NEW segment \in Arriving, NEW room, NEW fault,
           receive(segment, room, fault)
    PROVE  GoodStep
<1>1. PICK d \in decryptor : Decrypted(decrypt_segment(d, context, segment, room, fault))
  BY DEF receive
<1> DEFINE r == decrypt_segment(d, context, segment, room, fault)
           i == d.counter.next
           closed == d.counter.closed
<1>2. /\ decryptor = Some(d) /\ d = Decryptor(d.keys, i, closed)
      /\ i \in Nat /\ i < AEAD_MAX_SEGMENTS /\ closed \in BOOLEAN
      /\ CacheInv(d.keys) /\ verdict = "none"
  BY DecryptorForm
<1>3. RejectedShape(r, i, closed) \/ (~closed /\ AcceptedShape(r, i))
  <2> HIDE DEF i, closed
  <2> QED BY <1>2, ReceiveShape
<1> HIDE DEF r
<1>4. UNCHANGED <<sent, encryptor, verdict>>
  BY <1>1 DEF Decrypted, encVars
<1>5. CASE RejectedShape(r, i, closed)
  <2>1. OnlineInv' /\ delivered' = delivered
    BY <1>1, <1>5, RejectedKeepsInv DEF r
  <2> QED BY <1>4, <2>1 DEF GoodStep, Stream!vars
<1>6. CASE ~closed /\ AcceptedShape(r, i)
  <2>1. /\ OnlineInv' /\ Len(delivered) < Len(sent)
        /\ delivered' = Append(delivered, sent[Len(delivered) + 1])
    BY <1>1, <1>6, AcceptedKeepsInv DEF r
  <2>2. Stream!Deliver
    BY <1>2, <1>4, <2>1 DEF Stream!Deliver
  <2> QED BY <1>2, <1>6, <2>1, <2>2 DEF GoodStep, Stream!Next, Some
<1> QED BY <1>3, <1>5, <1>6

(* finish is a Finish. *)
LEMMA FinishIsGood ==
    ASSUME OnlineInv, finish_decryption
    PROVE  GoodStep
<1>1. PICK d \in decryptor : verdict' = finish(d)
  BY DEF finish_decryption
<1>2. decryptor' = None /\ delivered' = delivered /\ UNCHANGED encVars
  BY DEF finish_decryption
<1>3. /\ verdict = "none"
      /\ d.counter.closed <=> encryptor = None /\ Len(delivered) = Len(sent)
      /\ delivered \in Seq(Payloads) /\ sent \in Seq(Payloads)
      /\ \A i \in 1 .. Len(delivered) : delivered[i] = sent[i]
  BY DecryptorForm DEF OnlineInv, DecryptorInv, EncryptorInv
<1>4. delivered = sent <=> Len(delivered) = Len(sent)
  BY <1>3
<1>5. verdict' = IF encryptor = None /\ delivered = sent THEN "Ok" ELSE "Truncated"
  BY <1>1, <1>3, <1>4 DEF finish
<1>6. DecryptorInv'
  BY <1>2, <1>5, SenderUntouched DEF OnlineInv, DecryptorInv, None
<1>7. Stream!Finish
  BY <1>2, <1>3, <1>5, SenderUntouched DEF Stream!Finish
<1> QED BY <1>2, <1>6, <1>7, SenderUntouched DEF GoodStep, OnlineInv, Stream!Next

LEMMA NextIsGood == OnlineInv /\ [Next]_vars => GoodStep
<1> SUFFICES ASSUME OnlineInv, [Next]_vars
             PROVE  GoodStep
  OBVIOUS
<1>1. ASSUME NEW plaintext \in Payloads, NEW room \in BOOLEAN, NEW fault \in Faults,
             encrypt_non_final_segment(plaintext, room, fault)
      PROVE  GoodStep
  <2>1. PICK e \in encryptor :
          Encrypted(encrypt_non_final(e, context, plaintext, room, fault, drawn + 1), plaintext)
    BY <1>1 DEF encrypt_non_final_segment
  <2> DEFINE r == encrypt_non_final(e, context, plaintext, room, fault, drawn + 1)
             k == e.state.keys
             n == e.state.nonces.next
             i == Len(sent)
  <2>2. /\ e = Encryptor(k, drawn, n, i) /\ CacheInv(k) /\ n \in 0 .. NONCE_BATCH_SIZE
        /\ drawn \in Nat /\ i \in Nat /\ i < AEAD_MAX_SEGMENTS
    BY EncryptorForm
  <2>3. RefusedShape(r, drawn, n, i) \/ SealedShape(r, drawn, n, i, "NonFinal", plaintext)
    <3> HIDE DEF k, n, i
    <3> QED BY <2>2, NonFinalShape
  <2> HIDE DEF r
  <2> QED BY <2>1, <2>3, EncryptIsGood DEF r, Kinds
<1>2. ASSUME NEW plaintext \in Payloads, NEW room \in BOOLEAN, NEW fault \in Faults,
             encrypt_final_segment(plaintext, room, fault)
      PROVE  GoodStep
  <2>1. PICK e \in encryptor :
          Encrypted(encrypt_final(e, context, plaintext, room, fault, drawn + 1), plaintext)
    BY <1>2 DEF encrypt_final_segment
  <2> DEFINE r == encrypt_final(e, context, plaintext, room, fault, drawn + 1)
             k == e.state.keys
             n == e.state.nonces.next
             i == Len(sent)
  <2>2. /\ e = Encryptor(k, drawn, n, i) /\ CacheInv(k) /\ n \in 0 .. NONCE_BATCH_SIZE
        /\ drawn \in Nat /\ i \in Nat /\ i < AEAD_MAX_SEGMENTS
    BY EncryptorForm
  <2>3. RefusedShape(r, drawn, n, i) \/ SealedShape(r, drawn, n, i, "Final", plaintext)
    <3> HIDE DEF k, n, i
    <3> QED BY <2>2, FinalShape
  <2> HIDE DEF r
  <2> QED BY <2>1, <2>3, EncryptIsGood DEF r, Kinds
<1>3. ASSUME UNCHANGED vars
      PROVE  GoodStep
  <2>1. UNCHANGED encVars /\ UNCHANGED decVars
    BY <1>3 DEF vars
  <2>2. DecryptorInv'
    BY <2>1 DEF encVars, decVars, OnlineInv, DecryptorInv, CacheInv
  <2> QED BY <2>1, <2>2, SenderUntouched DEF GoodStep, OnlineInv, Stream!vars, encVars, decVars
<1> QED BY <1>1, <1>2, <1>3, ReceiveIsGood, FinishIsGood DEF Next

-----------------------------------------------------------------------------
(* The theorems. *)

(* The invariant holds in every state of every behaviour. *)
THEOREM Invariance == Spec => []OnlineInv
<1>1. OnlineInv /\ [Next]_vars => OnlineInv'
  BY NextIsGood DEF GoodStep
<1> QED BY <1>1, InitEstablishesInv, PTL DEF Spec

(* The counters stay below the position limit and the encryptor's never    *)
(* closes while it exists (SegmentCounter, NonceGenerator).                *)
THEOREM Typing == Spec => []TypeInvariant
<1>1. OnlineInv => TypeInvariant
  <2> SUFFICES ASSUME OnlineInv PROVE TypeInvariant
    OBVIOUS
  <2>1. ASSUME NEW e \in encryptor
        PROVE  /\ e.counter.next \in 0 .. AEAD_MAX_SEGMENTS - 1
               /\ e.counter.closed = FALSE
               /\ e.state.nonces.next \in 0 .. NONCE_BATCH_SIZE
               /\ e.state.nonces.batch \in 0 .. drawn
    <3> DEFINE n == e.state.nonces.next
    <3>1. /\ e = Encryptor(e.state.keys, drawn, n, Len(sent))
          /\ n \in 0 .. NONCE_BATCH_SIZE /\ drawn \in Nat
          /\ Len(sent) \in Nat /\ Len(sent) < AEAD_MAX_SEGMENTS
      BY EncryptorForm
    <3>2. /\ e.counter = [next |-> Len(sent), closed |-> FALSE]
          /\ e.state.nonces = [batch |-> drawn, next |-> n]
      BY <3>1 DEF Encryptor, EncryptionState
    <3> HIDE DEF n
    <3> QED BY <3>1, <3>2, ParametersAssumption DEF n
  <2> QED BY <2>1 DEF OnlineInv, EncryptorInv, DecryptorInv, TypeInvariant
<1> QED BY <1>1, Invariance, PTL

(* No retry, fault or refill makes two segments of a message share a nonce *)
(* (NonceGenerator::next).                                                 *)
THEOREM NonceUniqueness == Spec => []NoncesAreUnique
<1>1. OnlineInv => NoncesAreUnique
  BY DEF OnlineInv, NoncesInv
<1> QED BY <1>1, Invariance, PTL

(* The sealed segments are one per position, without gaps, each with its   *)
(* position's payload, and only the last one is final (Encryptor::advance  *)
(* and finalize).                                                          *)
THEOREM PositionsAreUsedOnce == Spec => []OneSegmentPerPosition
<1>1. OnlineInv => OneSegmentPerPosition
  <2> SUFFICES ASSUME OnlineInv PROVE OneSegmentPerPosition
    OBVIOUS
  <2>1. \A s \in wire : /\ s.position \in 0 .. Len(sent) - 1
                        /\ s.plaintext = sent[s.position + 1]
                        /\ s.kind = "Final" <=> encryptor = None /\ s.position = Len(sent) - 1
    BY DEF OnlineInv, WireInv, SegmentInv, seal
  <2>2. {s.position : s \in wire} = 0 .. Len(sent) - 1
    BY <2>1 DEF OnlineInv, WireInv
  <2> QED BY <2>1, <2>2 DEF OnlineInv, WireInv, OneSegmentPerPosition
<1> QED BY <1>1, Invariance, PTL

(* A live encryptor can always seal an empty final segment: the limit on   *)
(* non-final segments keeps the last position for it                       *)
(* (SegmentCounter::position_for).                                         *)
THEOREM Finalizable == Spec => []AlwaysFinalizable
<1>1. OnlineInv => AlwaysFinalizable
  <2> SUFFICES ASSUME OnlineInv, NEW e \in encryptor
               PROVE  encrypt_final(e, context, [length |-> 0, data |-> <<>>], TRUE, "none",
                                    drawn + 1).encryptor = None
    BY DEF AlwaysFinalizable
  <2> DEFINE k == e.state.keys
             n == e.state.nonces.next
             i == Len(sent)
             empty == [length |-> 0, data |-> <<>>]
             q == encrypt_segment(e.state, context, empty, e.counter.next, "Final", TRUE,
                                  "none", drawn + 1)
  <2>1. e = Encryptor(k, drawn, n, i) /\ i \in Nat /\ i < AEAD_MAX_SEGMENTS
    BY EncryptorForm
  <2>2. e.counter = [next |-> i, closed |-> FALSE]
    BY <2>1 DEF Encryptor
  <2>3. position_for_ok(e.counter, "Final")
    BY <2>1, <2>2, CounterSteps
  <2>4. is_payload_length(context.parameters, empty.length, "Final")
    BY OnlineAssumption, ParametersAssumption
    DEF is_payload_length, plaintext_segment_length, context, Context,
        VALID_SEGMENT_LENGTHS, SEGMENT_OVERHEAD
  <2>5. /\ next_nonce_ok(e.state.nonces, "none")
        /\ key_for_position_ok(e.state.keys, e.counter.next, "none")
    BY <2>1, <2>2 DEF next_nonce_ok, key_for_position_ok
  <2>6. q.ok
    BY <2>4, <2>5 DEF encrypt_segment
  <2> DEFINE r == encrypt_final(e, context, empty, TRUE, "none", drawn + 1)
  <2>7. r = EncryptorResult(None, Some(q.segment), q.state.nonces.batch = drawn + 1)
    <3> HIDE DEF empty
    <3> QED BY <2>3, <2>6 DEF encrypt_final
  <2> HIDE DEF q, r
  <2>8. r.encryptor = None
    BY <2>7 DEF EncryptorResult
  <2> QED BY <2>8 DEF r
<1> QED BY <1>1, Invariance, PTL

(* A decryptor that authenticated a final segment delivers nothing more    *)
(* (SegmentCounter::complete).                                             *)
THEOREM FinalIsFinal == Spec => NothingAfterFinal
<1>1. OnlineInv /\ [Next]_vars
        => [\A d \in decryptor : d.counter.closed => delivered' = delivered]_vars
  BY NextIsGood DEF GoodStep
<1> QED BY <1>1, Invariance, PTL DEF Spec, NothingAfterFinal

(* The encryptor, the transport and the decryptor together implement the   *)
(* abstract stream, whatever the transport does.                           *)
THEOREM Refinement == Spec => ImplementsStream
<1>1. Init => Stream!Init
  BY DEF Init, Stream!Init, Some, None
<1>2. OnlineInv /\ [Next]_vars => [Stream!Next]_(Stream!vars)
  BY NextIsGood DEF GoodStep
<1> QED BY <1>1, <1>2, Invariance, PTL DEF Spec, ImplementsStream, Stream!Spec

-----------------------------------------------------------------------------
(* That the decryptor accepts the next segment. *)

(* A sealed segment has a payload length its kind allows, and a non-final  *)
(* one leaves a position behind it (ciphertext_segment_size,               *)
(* SegmentCounter::position_for).                                          *)
Framed(s) ==
    /\ is_payload_length(SegmentLength, s.plaintext.length, s.kind)
    /\ s.kind = "NonFinal" => s.position # AEAD_MAX_SEGMENTS - 1

FramedInv == \A s \in wire : Framed(s)

(* What encrypt_segment seals has the length it checked. *)
LEMMA SealsCheckedLength ==
    ASSUME NEW state, NEW plaintext, NEW i, NEW kind, NEW room, NEW fault, NEW batch, NEW q,
           q = encrypt_segment(state, context, plaintext, i, kind, room, fault, batch), q.ok
    PROVE  /\ is_payload_length(SegmentLength, plaintext.length, kind)
           /\ q.segment.plaintext = plaintext /\ q.segment.kind = kind
           /\ q.segment.position = i
<1>1. context.parameters = SegmentLength
  BY DEF context, Context
<1>2. /\ is_payload_length(context.parameters, plaintext.length, kind)
      /\ \E key, nonce : q.segment = seal(key, nonce, i, kind, plaintext)
  BY DEF encrypt_segment, Failed
<1> QED BY <1>1, <1>2 DEF seal

(* A segment an encryptor returns is framed. *)
LEMMA EncryptorFrames ==
    ASSUME NEW e, NEW plaintext, NEW room, NEW fault, NEW batch, NEW r,
           \/ r = encrypt_non_final(e, context, plaintext, room, fault, batch)
           \/ r = encrypt_final(e, context, plaintext, room, fault, batch)
    PROVE  \A s \in r.segment : Framed(s)
<1> SUFFICES ASSUME NEW s \in r.segment
             PROVE  Framed(s)
  OBVIOUS
<1>1. CASE r = encrypt_non_final(e, context, plaintext, room, fault, batch)
  <2> DEFINE q == encrypt_segment(e.state, context, plaintext, e.counter.next, "NonFinal",
                                  room, fault, batch)
  <2>1. position_for_ok(e.counter, "NonFinal") /\ q.ok /\ s = q.segment
    BY <1>1 DEF encrypt_non_final, EncryptorResult, Some, None
  <2>2. /\ is_payload_length(SegmentLength, plaintext.length, "NonFinal")
        /\ q.segment.plaintext = plaintext /\ q.segment.kind = "NonFinal"
        /\ q.segment.position = e.counter.next
    BY <2>1, SealsCheckedLength
  <2> HIDE DEF q
  <2> QED BY <2>1, <2>2 DEF Framed, position_for_ok
<1>2. CASE r = encrypt_final(e, context, plaintext, room, fault, batch)
  <2> DEFINE q == encrypt_segment(e.state, context, plaintext, e.counter.next, "Final",
                                  room, fault, batch)
  <2>1. q.ok /\ s = q.segment
    BY <1>2 DEF encrypt_final, EncryptorResult, Some, None
  <2>2. /\ is_payload_length(SegmentLength, plaintext.length, "Final")
        /\ q.segment.plaintext = plaintext /\ q.segment.kind = "Final"
    BY <2>1, SealsCheckedLength
  <2> HIDE DEF q
  <2> QED BY <2>1, <2>2 DEF Framed
<1> QED BY <1>1, <1>2

(* Every step keeps the segments framed. *)
LEMMA FramedSegments == Spec => []FramedInv
<1>1. Init => FramedInv
  BY DEF Init, FramedInv
<1>2. FramedInv /\ [Next]_vars => FramedInv'
  <2> SUFFICES ASSUME FramedInv, [Next]_vars
               PROVE  FramedInv'
    OBVIOUS
  <2>1. CASE wire' = wire
    BY <2>1 DEF FramedInv, Framed
  <2>2. ASSUME NEW e, NEW plaintext, NEW room, NEW fault, NEW r, Encrypted(r, plaintext),
               \/ r = encrypt_non_final(e, context, plaintext, room, fault, drawn + 1)
               \/ r = encrypt_final(e, context, plaintext, room, fault, drawn + 1)
        PROVE  FramedInv'
    <3>1. \A s \in r.segment : Framed(s)
      BY <2>2, EncryptorFrames
    <3>2. wire' = wire \cup r.segment
      BY <2>2 DEF Encrypted
    <3> QED BY <3>1, <3>2 DEF FramedInv, Framed
  <2>3. CASE \E plaintext \in Payloads, room \in BOOLEAN, fault \in Faults :
               \/ encrypt_non_final_segment(plaintext, room, fault)
               \/ encrypt_final_segment(plaintext, room, fault)
    BY <2>2, <2>3 DEF encrypt_non_final_segment, encrypt_final_segment
  <2>4. CASE \E segment \in Arriving, room \in BOOLEAN, fault \in Faults :
               receive(segment, room, fault)
    BY <2>1, <2>4 DEF receive, Decrypted, encVars
  <2>5. CASE finish_decryption
    BY <2>1, <2>5 DEF finish_decryption, encVars
  <2>6. CASE UNCHANGED vars
    BY <2>1, <2>6 DEF vars, encVars
  <2> QED BY <2>3, <2>4, <2>5, <2>6 DEF Next
<1> QED BY <1>1, <1>2, PTL DEF Spec

(* A framed segment declares itself: its prefix decodes to its kind and    *)
(* length (SegmentFraming::decode).                                        *)
LEMMA FramedDecodes ==
    ASSUME OnlineInv, FramedInv, NEW s \in wire
    PROVE  LET f == framing(context.parameters, s)
           IN  f.ok /\ f.value.kind = s.kind /\ f.value.ciphertext_length = s.length
<1> DEFINE n == s.plaintext.length
<1>1. context.parameters = SegmentLength
  BY DEF context, Context
<1>2. /\ s.kind \in Kinds /\ s.position \in 0 .. Len(sent) - 1
      /\ s.length = SEGMENT_OVERHEAD + n /\ s.prefix = segment_prefix(s.kind, s.length)
      /\ s.plaintext = sent[s.position + 1]
  BY DEF OnlineInv, WireInv, SegmentInv, seal
<1>3. n \in Nat
  <2>1. s.plaintext \in Payloads
    BY <1>2 DEF OnlineInv, EncryptorInv
  <2> QED BY <2>1, SegmentLengths, OnlineAssumption DEF Payloads
<1>4. is_payload_length(SegmentLength, n, s.kind)
  BY DEF FramedInv, Framed
<1> HIDE DEF n
<1>5. /\ SEGMENT_OVERHEAD \in Nat \ {0} /\ SegmentLength \in Nat /\ SegmentLength < U32_MAX
      /\ SegmentLength = SEGMENT_OVERHEAD + plaintext_segment_length(SegmentLength)
      /\ plaintext_segment_length(SegmentLength) \in Nat \ {0}
  BY SegmentLengths, OnlineAssumption
<1>6. s.length >= SEGMENT_PREFIX_LENGTH /\ s.length \in Nat
  BY <1>2, <1>3, ParametersAssumption DEF SEGMENT_OVERHEAD
<1>7. framing(SegmentLength, s) = decode_framing(SegmentLength, s.prefix)
  BY <1>6, ParametersAssumption DEF framing
<1>8. CASE s.kind = "NonFinal"
  <2>1. s.prefix = U32_MAX /\ s.length = SegmentLength
    BY <1>2, <1>4, <1>5, <1>8 DEF segment_prefix, is_payload_length
  <2>2. decode_framing(SegmentLength, s.prefix) = Ok(Framing(SegmentLength, "NonFinal"))
    BY <2>1, Zenon DEF decode_framing
  <2> QED BY <1>1, <1>7, <1>8, <2>1, <2>2 DEF Ok, Framing
<1>9. CASE s.kind = "Final"
  <2>1. s.prefix = s.length /\ s.length \in SEGMENT_OVERHEAD .. SegmentLength /\ s.length # U32_MAX
    BY <1>2, <1>3, <1>4, <1>5, <1>9, ParametersAssumption DEF segment_prefix, is_payload_length
  <2>2. decode_framing(SegmentLength, s.prefix) = Ok(Framing(s.length, "Final"))
    BY <2>1, Zenon DEF decode_framing
  <2> QED BY <1>1, <1>7, <1>9, <2>1, <2>2 DEF Ok, Framing
<1> QED BY <1>2, <1>8, <1>9 DEF Kinds

(* The two ways a prefix can be accepted. *)
LEMMA DecodedForm ==
    ASSUME NEW segment, framing(context.parameters, segment).ok
    PROVE  LET f == framing(context.parameters, segment)
           IN  \/ segment.prefix = U32_MAX /\ f.value.kind = "NonFinal"
               \/ f.value.kind = "Final" /\ f.value.ciphertext_length = segment.prefix
<1> DEFINE p == context.parameters
           x == segment.prefix
<1>1. framing(p, segment) = decode_framing(p, x)
  BY DEF framing, Err
<1> HIDE DEF p, x
<1>2. CASE x = U32_MAX
  <2>1. decode_framing(p, x) = Ok(Framing(p, "NonFinal"))
    BY <1>2, Zenon DEF decode_framing
  <2> QED BY <1>1, <1>2, <2>1 DEF Ok, Framing, p, x
<1>3. CASE x # U32_MAX /\ x \in SEGMENT_OVERHEAD .. p
  <2>1. decode_framing(p, x) = Ok(Framing(x, "Final"))
    BY <1>3, Zenon DEF decode_framing
  <2> QED BY <1>1, <2>1 DEF Ok, Framing, p, x
<1>4. CASE x # U32_MAX /\ x \notin SEGMENT_OVERHEAD .. p
  <2>1. decode_framing(p, x) = Err("InvalidCiphertextLength")
    BY <1>4, Zenon DEF decode_framing
  <2> QED BY <1>1, <2>1 DEF Err, p, x
<1> QED BY <1>2, <1>3, <1>4

(* A segment that is framed as it opens is unaltered: the prefix is not    *)
(* authenticated, but the kind and the length it declares are.             *)
LEMMA OpensOnlyUnaltered ==
    ASSUME OnlineInv, NEW segment \in Arriving, NEW i \in Nat,
           framing(context.parameters, segment).ok,
           segment.length = framing(context.parameters, segment).value.ciphertext_length,
           opens(derive_segment_key(context, masked_position(i)), segment, i,
                 framing(context.parameters, segment).value.kind)
    PROVE  segment \in wire /\ segment.position = i
<1> DEFINE f == framing(context.parameters, segment)
<1>1. \/ segment.prefix = U32_MAX /\ f.value.kind = "NonFinal"
      \/ f.value.kind = "Final" /\ f.value.ciphertext_length = segment.prefix
  BY DecodedForm
<1>2. /\ ~segment.damaged /\ segment.position = i /\ segment.kind = f.value.kind
      /\ segment.key = derive_segment_key(context, masked_position(i))
      /\ segment.length = f.value.ciphertext_length
  BY DEF opens
<1> HIDE DEF f
<1>3. ASSUME segment \in Foreign
      PROVE  FALSE
  <2>1. PICK j \in 0 .. AEAD_MAX_SEGMENTS - 1 :
          segment.key = derive_segment_key(foreign, masked_position(j))
    BY <1>3 DEF Foreign, seal
  <2>2. context.message # foreign.message
    BY DEF context, foreign, Context, derive_message
  <2> QED BY <1>2, <2>1, <2>2 DEF derive_segment_key
<1>4. ASSUME NEW s \in wire, segment \in Altered(s, {0, SEGMENT_OVERHEAD, SegmentLength})
      PROVE  segment \in wire
  <2>1. s = seal(s.key, s.nonce, s.position, s.kind, s.plaintext)
    BY DEF OnlineInv, WireInv, SegmentInv, seal
  <2>2. PICK l : segment = [s EXCEPT !.prefix = l]
    BY <1>2, <1>4, <2>1 DEF Altered, seal
  <2>3. segment.prefix = l /\ segment.kind = s.kind /\ segment.length = s.length
    BY <2>1, <2>2 DEF seal
  <2>4. s.prefix = IF s.kind = "NonFinal" THEN U32_MAX ELSE s.length
    BY <2>1 DEF seal, segment_prefix
  <2>5. s.prefix = l
    BY <1>1, <1>2, <2>3, <2>4
  <2>6. segment = s
    BY <2>1, <2>2, <2>5 DEF seal
  <2> QED BY <2>6
<1> QED BY <1>2, <1>3, <1>4 DEF Arriving

(* The decryptor's checks, at a position. *)
Acceptable(segment, f, i, closed) ==
    /\ f.ok /\ position_for_ok([next |-> i, closed |-> closed], f.value.kind)
    /\ segment.length = f.value.ciphertext_length
    /\ opens(derive_segment_key(context, masked_position(i)), segment, i, f.value.kind)

Accepts(d, segment) == decrypt_segment(d, context, segment, TRUE, "none").plaintext # None

(* What a decryptor with a labelled cache accepts, when the backend does   *)
(* not fail.                                                               *)
LEMMA AcceptanceTest ==
    ASSUME NEW keys, CacheInv(keys), NEW i \in Nat, i < AEAD_MAX_SEGMENTS,
           NEW closed \in BOOLEAN, NEW segment, NEW f, NEW d, d = Decryptor(keys, i, closed),
           f = framing(context.parameters, segment)
    PROVE  Accepts(d, segment) <=> Acceptable(segment, f, i, closed)
<1> DEFINE q == decrypt_segment_framed(keys, context, segment, i, f.value, TRUE, "none")
           counter == [next |-> i, closed |-> closed]
           r == decrypt_segment(d, context, segment, TRUE, "none")
           found == key_cache_after(keys, context, i, "none")
<1>1. r = IF ~f.ok \/ ~position_for_ok(counter, f.value.kind)
          THEN DecryptorResult(Decryptor(keys, i, closed), None)
          ELSE DecryptorResult(
                  [keys |-> q.state, counter |-> counter_after(counter, f.value.kind, q.ok)],
                  IF q.ok THEN Some(q.plaintext) ELSE None)
  BY DEF decrypt_segment, Decryptor
<1>2. r.plaintext # None <=> f.ok /\ position_for_ok(counter, f.value.kind) /\ q.ok
  <2> HIDE DEF q, r, counter
  <2>1. CASE ~f.ok \/ ~position_for_ok(counter, f.value.kind)
    BY <1>1, <2>1 DEF DecryptorResult, None
  <2>2. CASE f.ok /\ position_for_ok(counter, f.value.kind)
    BY <1>1, <2>2 DEF DecryptorResult, None, Some
  <2> QED BY <2>1, <2>2
<1>3. key_for_position_ok(keys, i, "none")
  BY DEF key_for_position_ok
<1>4. key_of(found) = derive_segment_key(context, masked_position(i))
  BY <1>3, LookupReturnsKey DEF CacheInv
<1>5. q.ok <=> /\ segment.length = f.value.ciphertext_length
               /\ opens(key_of(found), segment, i, f.value.kind)
  BY <1>3 DEF decrypt_segment_framed, open_segment, Failed
<1>6. Accepts(d, segment) <=> r.plaintext # None
  BY DEF Accepts
<1> HIDE DEF q, r, found
<1> QED BY <1>2, <1>4, <1>5, <1>6 DEF Acceptable

(* Whatever was rejected, replayed or failed before, the decryptor accepts *)
(* the segment after what it has delivered, as soon as that one is sealed, *)
(* and nothing else (Decryptor::decrypt_segment).                          *)
THEOREM NextIsAccepted == Spec => []AcceptsExactlyTheNext
<1>1. OnlineInv /\ FramedInv => AcceptsExactlyTheNext
  <2> SUFFICES ASSUME OnlineInv, FramedInv, NEW d \in decryptor, NEW segment \in Arriving
               PROVE  decrypt_segment(d, context, segment, TRUE, "none").plaintext # None
                        <=> segment \in wire /\ segment.position = Len(delivered)
    BY DEF AcceptsExactlyTheNext
  <2> DEFINE i == d.counter.next
             closed == d.counter.closed
             f == framing(context.parameters, segment)
             counter == [next |-> i, closed |-> closed]
             accepted == decrypt_segment(d, context, segment, TRUE, "none").plaintext # None
  <2>1. /\ d = Decryptor(d.keys, i, closed) /\ CacheInv(d.keys)
        /\ i \in Nat /\ i < AEAD_MAX_SEGMENTS /\ closed \in BOOLEAN
    BY DecryptorForm
  <2>2. /\ ~closed => i = Len(delivered)
        /\ closed <=> encryptor = None /\ Len(delivered) = Len(sent)
    BY DEF OnlineInv, DecryptorInv
  <2>3. accepted <=> /\ f.ok /\ position_for_ok(counter, f.value.kind)
                     /\ segment.length = f.value.ciphertext_length
                     /\ opens(derive_segment_key(context, masked_position(i)), segment, i,
                              f.value.kind)
    <3>1. accepted <=> Accepts(d, segment)
      BY DEF Accepts
    <3>2. PICK g : g = f
      OBVIOUS
    <3>3. g = framing(context.parameters, segment)
      BY <3>2
    <3>4. PICK k : k = d.keys
      OBVIOUS
    <3>5. d = Decryptor(k, i, closed) /\ CacheInv(k)
      BY <2>1, <3>4
    <3> HIDE DEF i, closed, f, accepted
    <3>6. Accepts(d, segment) <=> Acceptable(segment, g, i, closed)
      BY <2>1, <3>3, <3>5, AcceptanceTest
    <3> QED BY <3>1, <3>2, <3>6 DEF Acceptable
  <2>4. ASSUME accepted
        PROVE  segment \in wire /\ segment.position = Len(delivered)
    <3>1. ~closed
      BY <2>3, <2>4 DEF position_for_ok
    <3>2. segment \in wire /\ segment.position = i
      <4> HIDE DEF i, closed, accepted
      <4> QED BY <2>1, <2>3, <2>4, OpensOnlyUnaltered
    <3> QED BY <2>2, <3>1, <3>2
  <2>5. ASSUME segment \in wire, segment.position = Len(delivered)
        PROVE  accepted
    <3>1. SegmentInv(segment) /\ Framed(segment)
      BY <2>5 DEF OnlineInv, WireInv, FramedInv
    <3>2. f.ok /\ f.value.kind = segment.kind /\ f.value.ciphertext_length = segment.length
      BY <2>5, FramedDecodes
    <3>3. sent \in Seq(Payloads) /\ delivered \in Seq(Payloads)
      BY DEF OnlineInv, EncryptorInv, DecryptorInv
    <3>4. ~closed
      BY <2>2, <2>5, <3>1, <3>3 DEF SegmentInv
    <3>5. i = segment.position
      BY <2>2, <2>5, <3>4
    <3>6. opens(derive_segment_key(context, masked_position(i)), segment, i, segment.kind)
      BY <3>1, <3>5 DEF SegmentInv, opens, seal
    <3>7. position_for_ok(counter, segment.kind)
      BY <2>1, <3>1, <3>4, <3>5 DEF position_for_ok, Framed
    <3> HIDE DEF f, i, closed, accepted
    <3> QED BY <2>3, <3>2, <3>6, <3>7
  <2> QED BY <2>4, <2>5
<1> QED BY <1>1, Invariance, FramedSegments, PTL

-----------------------------------------------------------------------------
(* The in-place calls. *)

(* A payload is its bytes. *)
LEMMA PayloadBytes ==
    ASSUME NEW p \in Payloads
    PROVE  plaintext_of(p.data) = p
<1>1. PICK n \in 0 .. plaintext_segment_length(SegmentLength) + 1, d \in Data :
        p = [length |-> n, data |-> [i \in 1 .. n |-> d]]
  BY DEF Payloads
<1>2. n \in Nat
  OBVIOUS
<1>3. Len([i \in 1 .. n |-> d]) = n
  BY <1>2
<1> QED BY <1>1, <1>3 DEF plaintext_of

(* What the caller's buffer holds, whatever calls succeeded or failed on   *)
(* it: a payload that could be sent, or a segment that can arrive.         *)
BufferInv ==
    /\ IsBuffer(buffer)
    /\ holds_plaintext(buffer) => plaintext_of(buffer.payload) \in Payloads
    /\ holds_ciphertext(buffer) => \E s \in Arriving : buffer.segment = Some(s)

(* A buffer prepared, marked or cleared, in the next state. *)
LEMMA NextBuffer ==
    ASSUME NEW b, IsBuffer(b), NEW x,
           \/ buffer' = prepare_plaintext(b, x) /\ plaintext_of(x) \in Payloads
           \/ buffer' = prepare_ciphertext(b, x) /\ x \in Arriving'
           \/ buffer' = clear(b)
    PROVE  BufferInv'
<1>1. /\ prepare_plaintext(b, x) = Buffer(b.parameters, "Plaintext", x, None)
      /\ prepare_ciphertext(b, x) = Buffer(b.parameters, "Ciphertext", <<>>, Some(x))
      /\ clear(b) = Buffer(b.parameters, "Empty", <<>>, None)
  BY BufferOperations
<1>2. PICK p : p = b.parameters
  OBVIOUS
<1>3. CASE buffer' = Buffer(p, "Plaintext", x, None) /\ plaintext_of(x) \in Payloads
  <2>1. /\ IsBuffer(buffer)' /\ buffer'.payload = x /\ ~holds_ciphertext(buffer')
    BY <1>3, BufferFields
  <2> QED BY <1>3, <2>1 DEF BufferInv
<1>4. CASE buffer' = Buffer(p, "Ciphertext", <<>>, Some(x)) /\ x \in Arriving'
  <2>1. /\ IsBuffer(buffer)' /\ buffer'.segment = Some(x) /\ ~holds_plaintext(buffer')
    BY <1>4, BufferFields
  <2> QED BY <1>4, <2>1 DEF BufferInv
<1>5. CASE buffer' = Buffer(p, "Empty", <<>>, None)
  <2>1. /\ IsBuffer(buffer)' /\ ~holds_plaintext(buffer') /\ ~holds_ciphertext(buffer')
    BY <1>5, BufferFields
  <2> QED BY <2>1 DEF BufferInv
<1> QED BY <1>1, <1>2, <1>3, <1>4, <1>5

(* More segments on the wire take nothing away from what can arrive. *)
LEMMA MoreArrives ==
    ASSUME wire \subseteq wire'
    PROVE  Arriving \subseteq Arriving'
<1>1. Foreign' = Foreign
  BY DEF Foreign, Payloads
<1> QED BY <1>1 DEF Arriving

LEMMA SameBuffer ==
    ASSUME BufferInv, buffer' = buffer, wire \subseteq wire'
    PROVE  BufferInv'
BY MoreArrives DEF BufferInv

(* An in-place encryption refuses the buffer and does nothing, or is the   *)
(* copying call on the buffer's payload and leaves its result there.       *)
AllOrNothing(r, e, q) ==
    \/ /\ r.call = EncryptorResult(Some(e), None, FALSE)
       /\ r.buffer = buffer /\ ~r.ok
    \/ /\ r.call = q /\ plaintext_of(buffer.payload) \in Payloads
       /\ r.buffer = after_encryption(buffer, q.segment)
       /\ r.ok <=> q.segment # None

LEMMA InPlaceForm ==
    ASSUME BufferInv, NEW e, NEW fault, NEW batch, NEW r, NEW q,
           \/ /\ r = encrypt_non_final_in_place(e, context, buffer, fault, batch)
              /\ q = encrypt_non_final(e, context, plaintext_of(buffer.payload), TRUE, fault, batch)
           \/ /\ r = encrypt_final_in_place(e, context, buffer, fault, batch)
              /\ q = encrypt_final(e, context, plaintext_of(buffer.payload), TRUE, fault, batch)
    PROVE  AllOrNothing(r, e, q)
<1>1. \/ r = InPlaceResult(EncryptorResult(Some(e), None, FALSE), buffer)
      \/ ~refuses(buffer, context) /\ r = InPlaceResult(q, after_encryption(buffer, q.segment))
  BY DEF encrypt_non_final_in_place, encrypt_final_in_place
<1>2. CASE r = InPlaceResult(EncryptorResult(Some(e), None, FALSE), buffer)
  BY <1>2 DEF InPlaceResult, EncryptorResult, AllOrNothing
<1>3. CASE ~refuses(buffer, context) /\ r = InPlaceResult(q, after_encryption(buffer, q.segment))
  <2>1. holds_plaintext(buffer)
    BY <1>3 DEF refuses
  <2>2. /\ r.call = q /\ r.buffer = after_encryption(buffer, q.segment)
        /\ r.ok <=> q.segment # None
    BY <1>3 DEF InPlaceResult
  <2> QED BY <2>1, <2>2 DEF BufferInv, AllOrNothing
<1> QED BY <1>1, <1>2, <1>3

(* What CallsAreAllOrNothing says of a step. *)
WholeOrNothing ==
    /\ last'.op = "decrypt" =>
          IF delivered' # delivered
          THEN /\ holds_plaintext(buffer')
               /\ plaintext_of(buffer'.payload) = delivered'[Len(delivered')]
          ELSE buffer' = buffer_new(buffer.parameters)
    /\ last'.op = "encrypt" /\ ~last'.ok =>
          \/ buffer' = buffer_new(buffer.parameters)
          \/ buffer' = buffer /\ encryptor' = encryptor

(* What the proofs need of a step: it is one of Online or changes nothing  *)
(* there, and it keeps the buffer's invariant.                             *)
GoodInPlace == [Next]_vars /\ BufferInv' /\ WholeOrNothing

(* An encryption call returns one segment or none. *)
LEMMA SegmentOption ==
    ASSUME NEW e, NEW plaintext, NEW fault, NEW batch, NEW q, q.segment # None,
           \/ q = encrypt_non_final(e, context, plaintext, TRUE, fault, batch)
           \/ q = encrypt_final(e, context, plaintext, TRUE, fault, batch)
    PROVE  \E s : q.segment = Some(s)
<1>1. CASE q = encrypt_non_final(e, context, plaintext, TRUE, fault, batch)
  <2> DEFINE x == encrypt_segment(e.state, context, plaintext, e.counter.next, "NonFinal",
                                  TRUE, fault, batch)
  <2>1. q.segment \in {None, Some(x.segment)}
    BY <1>1 DEF encrypt_non_final, EncryptorResult
  <2> QED BY <2>1
<1>2. CASE q = encrypt_final(e, context, plaintext, TRUE, fault, batch)
  <2> DEFINE x == encrypt_segment(e.state, context, plaintext, e.counter.next, "Final",
                                  TRUE, fault, batch)
  <2>1. q.segment \in {None, Some(x.segment)}
    BY <1>2 DEF encrypt_final, EncryptorResult
  <2> QED BY <2>1
<1> QED BY <1>1, <1>2

(* Encryptor::encrypt_non_final_segment_in_place and its final sibling. *)
LEMMA EncryptsInPlace ==
    ASSUME OnlineInv, BufferInv, NEW e \in encryptor, NEW fault \in Faults, NEW r, NEW q,
           \/ /\ r = encrypt_non_final_in_place(e, context, buffer, fault, drawn + 1)
              /\ q = encrypt_non_final(e, context, plaintext_of(buffer.payload), TRUE, fault,
                                       drawn + 1)
           \/ /\ r = encrypt_final_in_place(e, context, buffer, fault, drawn + 1)
              /\ q = encrypt_final(e, context, plaintext_of(buffer.payload), TRUE, fault,
                                   drawn + 1),
           Encrypted(r.call, plaintext_of(buffer.payload)),
           buffer' = r.buffer, last' = [op |-> "encrypt", ok |-> r.ok]
    PROVE  GoodInPlace
<1>1. AllOrNothing(r, e, q)
  BY InPlaceForm
<1>2. last'.op = "encrypt" /\ last'.op # "decrypt" /\ last'.ok = r.ok
  OBVIOUS
<1>3. IsBuffer(buffer) /\ encryptor = Some(e)
  BY EncryptorForm DEF BufferInv
<1>4. CASE r.call = EncryptorResult(Some(e), None, FALSE) /\ r.buffer = buffer /\ ~r.ok
  <2>1. /\ r.call.encryptor = Some(e) /\ r.call.segment = None /\ ~r.call.drew
    BY <1>4 DEF EncryptorResult
  <2>2. UNCHANGED vars /\ encryptor' = encryptor
    BY <1>3, <2>1 DEF Encrypted, vars, encVars, None
  <2>3. BufferInv'
    BY <1>4, <2>2, SameBuffer DEF vars, encVars
  <2> QED BY <1>2, <1>4, <2>2, <2>3 DEF GoodInPlace, WholeOrNothing
<1>5. CASE /\ r.call = q /\ plaintext_of(buffer.payload) \in Payloads
           /\ r.buffer = after_encryption(buffer, q.segment)
           /\ r.ok <=> q.segment # None
  <2>1. Next
    BY <1>5 DEF Next, encrypt_non_final_segment, encrypt_final_segment
  <2>2. CASE q.segment = None
    <3>1. buffer' = clear(buffer)
      BY <1>5, <2>2 DEF after_encryption
    <3>2. BufferInv'
      BY <1>3, <3>1, NextBuffer
    <3> QED BY <1>2, <2>1, <3>1, <3>2 DEF GoodInPlace, WholeOrNothing, clear
  <2>3. CASE q.segment # None
    <3>1. PICK s : q.segment = Some(s)
      BY <2>3, SegmentOption
    <3>2. (CHOOSE x \in q.segment : TRUE) = s
      BY <3>1, ChooseSome
    <3>3. buffer' = mark_ciphertext(buffer, CHOOSE x \in q.segment : TRUE)
      BY <1>5, <2>3 DEF after_encryption
    <3>4. buffer' = prepare_ciphertext(buffer, s)
      BY <3>2, <3>3 DEF mark_ciphertext
    <3>5. s \in Arriving'
      BY <1>5, <3>1 DEF Encrypted, Arriving, Some
    <3>6. BufferInv'
      BY <1>3, <3>4, <3>5, NextBuffer
    <3> QED BY <1>2, <1>5, <2>1, <2>3, <3>6 DEF GoodInPlace, WholeOrNothing
  <2> QED BY <2>2, <2>3
<1> QED BY <1>1, <1>4, <1>5 DEF AllOrNothing

(* Decryptor::decrypt_segment_in_place returns the copying call's          *)
(* plaintext in the buffer, or leaves it empty.                            *)
LEMMA DecryptsInPlace ==
    ASSUME OnlineInv, BufferInv, NEW fault \in Faults, decrypt_segment_in_place(fault)
    PROVE  GoodInPlace
<1>1. PICK d \in decryptor :
        LET r == decrypt_in_place(d, context, buffer, fault)
        IN  /\ Decrypted(r.call)
            /\ buffer' = r.buffer
            /\ last' = [op |-> "decrypt", ok |-> r.call.plaintext # None]
  BY DEF decrypt_segment_in_place
<1> DEFINE held == CHOOSE s \in buffer.segment : TRUE
           refused == ~holds_ciphertext(buffer) \/ buffer.parameters # context.parameters
<1>2. PICK r, q : /\ r = decrypt_in_place(d, context, buffer, fault)
                  /\ q = decrypt_segment(d, context, held, TRUE, fault)
  OBVIOUS
<1>3. r = IF refused
          THEN [call |-> DecryptorResult(d, None), buffer |-> decrypt_with(buffer, None)]
          ELSE [call |-> q, buffer |-> decrypt_with(buffer, q.plaintext)]
  BY <1>2 DEF decrypt_in_place
<1>4. /\ Decrypted(r.call) /\ buffer' = r.buffer
      /\ last'.op = "decrypt" /\ last'.op # "encrypt"
  BY <1>1, <1>2
<1>5. /\ IsBuffer(buffer) /\ decryptor = Some(d) /\ delivered \in Seq(Payloads)
  BY DecryptorForm DEF BufferInv, OnlineInv, DecryptorInv
<1>6. r.buffer = decrypt_with(buffer, r.call.plaintext)
  <2> HIDE DEF refused
  <2> QED BY <1>3 DEF DecryptorResult
<1>7. [Next]_vars
  <2>1. CASE refused
    <3>1. r.call = DecryptorResult(d, None)
      BY <1>3, <2>1
    <3>2. r.call.decryptor = d /\ r.call.plaintext = None
      BY <3>1 DEF DecryptorResult
    <3> QED BY <1>4, <1>5, <3>2 DEF Decrypted, vars, decVars
  <2>2. CASE ~refused
    <3>1. PICK s \in Arriving : buffer.segment = Some(s)
      BY <2>2 DEF BufferInv
    <3>2. held = s
      BY <3>1, ChooseSome
    <3>3. r.call = q
      BY <1>3, <2>2
    <3> HIDE DEF held
    <3>4. r.call = decrypt_segment(d, context, s, TRUE, fault)
      BY <1>2, <3>2, <3>3
    <3>5. receive(s, TRUE, fault)
      BY <1>4, <3>4 DEF receive
    <3> QED BY <3>5 DEF Next
  <2> QED BY <2>1, <2>2
<1>8. CASE r.call.plaintext = None
  <2>1. buffer' = clear(buffer)
    BY <1>4, <1>6, <1>8 DEF decrypt_with
  <2>2. BufferInv'
    BY <1>5, <2>1, NextBuffer
  <2>3. delivered' = delivered
    BY <1>4, <1>8 DEF Decrypted
  <2> QED BY <1>4, <1>7, <2>1, <2>2, <2>3 DEF GoodInPlace, WholeOrNothing, clear
<1>9. CASE r.call.plaintext # None
  <2>1. PICK p : p = CHOOSE x \in r.call.plaintext : TRUE
    OBVIOUS
  <2>2. delivered' = Append(delivered, p)
    BY <1>4, <1>9, <2>1 DEF Decrypted
  <2>3. delivered' \in Seq(Payloads)
    BY <1>7, NextIsGood DEF GoodStep, OnlineInv, DecryptorInv
  <2>4. /\ Len(delivered') = Len(delivered) + 1 /\ Len(delivered) \in Nat
        /\ delivered'[Len(delivered')] = p
    BY <1>5, <2>2, AppendToSeq DEF IsSeq
  <2>5. p \in Payloads
    BY <2>3, <2>4, ElementOfSeq
  <2>6. plaintext_of(p.data) = p
    BY <2>5, PayloadBytes
  <2>7. buffer' = prepare_plaintext(buffer, p.data)
    BY <1>4, <1>6, <1>9, <2>1 DEF decrypt_with
  <2>8. BufferInv'
    BY <1>5, <2>5, <2>6, <2>7, NextBuffer
  <2>9. holds_plaintext(buffer') /\ buffer'.payload = p.data
    BY <1>5, <2>7, BufferOperations, BufferFields
  <2>10. delivered' # delivered
    BY <2>4
  <2> QED BY <1>4, <1>7, <2>4, <2>6, <2>8, <2>9, <2>10 DEF GoodInPlace, WholeOrNothing
<1> QED BY <1>8, <1>9

(* Every step of InPlace, the caller's handling of the buffer included. *)
LEMMA InPlaceIsGood ==
    ASSUME OnlineInv, BufferInv, [NextInPlace]_varsInPlace
    PROVE  [Next]_vars /\ BufferInv' /\ [WholeOrNothing]_varsInPlace
<1>1. IsBuffer(buffer)
  BY DEF BufferInv
<1>2. ASSUME Next, UNCHANGED buffer, last' = [op |-> "copying", ok |-> TRUE]
      PROVE  GoodInPlace
  <2>1. wire \subseteq wire'
    BY <1>2 DEF Next, encrypt_non_final_segment, encrypt_final_segment, Encrypted, receive,
                Decrypted, finish_decryption, encVars
  <2>2. last'.op # "encrypt" /\ last'.op # "decrypt"
    BY <1>2
  <2> QED BY <1>2, <2>1, <2>2, SameBuffer DEF GoodInPlace, WholeOrNothing
<1>3. ASSUME NEW plaintext \in Payloads, prepare(plaintext)
      PROVE  GoodInPlace
  <2>1. last'.op # "encrypt" /\ last'.op # "decrypt"
    BY <1>3 DEF prepare
  <2>2. plaintext_of(plaintext.data) \in Payloads
    BY PayloadBytes
  <2>3. BufferInv'
    BY <1>1, <1>3, <2>2, NextBuffer DEF prepare
  <2> QED BY <1>3, <2>1, <2>3 DEF GoodInPlace, WholeOrNothing, prepare
<1>4. ASSUME NEW segment \in Arriving, load(segment)
      PROVE  GoodInPlace
  <2>1. last'.op # "encrypt" /\ last'.op # "decrypt"
    BY <1>4 DEF load
  <2>2. segment \in Arriving'
    BY <1>4, MoreArrives DEF load, vars, encVars
  <2>3. BufferInv'
    BY <1>1, <1>4, <2>2, NextBuffer DEF load
  <2> QED BY <1>4, <2>1, <2>3 DEF GoodInPlace, WholeOrNothing, load
<1>5. ASSUME clear_buffer
      PROVE  GoodInPlace
  <2>1. last'.op # "encrypt" /\ last'.op # "decrypt"
    BY <1>5 DEF clear_buffer
  <2>2. BufferInv'
    BY <1>1, <1>5, NextBuffer DEF clear_buffer
  <2> QED BY <1>5, <2>1, <2>2 DEF GoodInPlace, WholeOrNothing, clear_buffer
<1>6. ASSUME NEW fault \in Faults,
             \/ encrypt_non_final_segment_in_place(fault)
             \/ encrypt_final_segment_in_place(fault)
      PROVE  GoodInPlace
  BY <1>6, EncryptsInPlace
  DEF encrypt_non_final_segment_in_place, encrypt_final_segment_in_place
<1>7. CASE UNCHANGED varsInPlace
  <2>1. UNCHANGED vars /\ buffer' = buffer
    BY <1>7 DEF varsInPlace
  <2>2. BufferInv'
    BY <2>1, SameBuffer DEF vars, encVars
  <2> QED BY <1>7, <2>1, <2>2
<1>8. CASE NextInPlace
  <2>1. GoodInPlace
    BY <1>2, <1>3, <1>4, <1>5, <1>6, <1>8, DecryptsInPlace DEF NextInPlace
  <2> QED BY <2>1 DEF GoodInPlace
<1> QED BY <1>7, <1>8

LEMMA InPlaceInit ==
    ASSUME InitInPlace
    PROVE  Init /\ BufferInv
<1>1. PICK p : buffer = Buffer(p, "Empty", <<>>, None)
  BY DEF InitInPlace, buffer_new, Buffer
<1>2. IsBuffer(buffer) /\ ~holds_plaintext(buffer) /\ ~holds_ciphertext(buffer)
  BY <1>1, BufferFields
<1> QED BY <1>2 DEF InitInPlace, BufferInv

LEMMA InPlaceInvariance == SpecInPlace => [](OnlineInv /\ BufferInv)
<1>1. InitInPlace => OnlineInv /\ BufferInv
  BY InPlaceInit, InitEstablishesInv
<1>2. OnlineInv /\ BufferInv /\ [NextInPlace]_varsInPlace => (OnlineInv /\ BufferInv)'
  BY InPlaceIsGood, NextIsGood DEF GoodStep
<1> QED BY <1>1, <1>2, PTL DEF SpecInPlace

(* The in-place calls, mixed with the copying ones on one message and on   *)
(* a buffer that is prepared, reused or refused in any order, do nothing   *)
(* to a message that the copying calls alone could not do.                 *)
THEOREM InPlaceRefinement == SpecInPlace => Spec
<1>1. InitInPlace => Init
  BY InPlaceInit
<1>2. OnlineInv /\ BufferInv /\ [NextInPlace]_varsInPlace => [Next]_vars
  BY InPlaceIsGood
<1> QED BY <1>1, <1>2, InPlaceInvariance, PTL DEF SpecInPlace, Spec

(* So everything proved of Online holds with in-place calls: uniqueness of *)
(* nonces and positions, an end for every message, acceptance of exactly   *)
(* the next segment and the in-order stream.                               *)
THEOREM InPlaceKeepsGuarantees ==
    SpecInPlace => /\ [](TypeInvariant /\ NoncesAreUnique /\ OneSegmentPerPosition)
                   /\ [](AlwaysFinalizable /\ AcceptsExactlyTheNext)
                   /\ ImplementsStream
BY InPlaceRefinement, Typing, NonceUniqueness, PositionsAreUsedOnce, Finalizable,
   NextIsAccepted, Refinement, PTL

(* An in-place call leaves the whole result in the buffer or, unless it    *)
(* refused the buffer before it did anything, nothing at all               *)
(* (decrypt_with, EncryptionState::encrypt_segment_in_place_at).           *)
THEOREM InPlaceAllOrNothing == SpecInPlace => CallsAreAllOrNothing
<1>1. OnlineInv /\ BufferInv /\ [NextInPlace]_varsInPlace => [WholeOrNothing]_varsInPlace
  BY InPlaceIsGood
<1> QED BY <1>1, InPlaceInvariance, PTL DEF SpecInPlace, CallsAreAllOrNothing, WholeOrNothing

=============================================================================
