------------------------- MODULE SharedStatesProofs -------------------------
(***************************************************************************)
(* Proofs about SharedStates and SegmentWorkers, for every format, message *)
(* and number of tasks, batches and faults; about Layout, which says what  *)
(* positions the tasks share out; and about the loop of ReadFully.         *)
(***************************************************************************)
EXTENDS SegmentWorkers, Layout, ReadFully, SegmentProofs, FiniteSetTheorems

-----------------------------------------------------------------------------
(* The inductive invariant. *)

(* A task's encryption state: its cache is labelled for the message, its   *)
(* generator has a batch that was drawn, or none (batch 0, all used up).   *)
EncryptionStateInv(e) ==
    /\ e = EncryptionState(e.keys, e.nonces.batch, e.nonces.next)
    /\ LabelledCache(e.keys, context)
    /\ e.nonces.batch \in 0 .. drawn
    /\ e.nonces.next \in 0 .. NONCE_BATCH_SIZE
    /\ e.nonces.batch = 0 => e.nonces.next = NONCE_BATCH_SIZE

(* No batch belongs to the generators of two tasks. *)
EncTasksInv ==
    /\ drawn \in Nat
    /\ DOMAIN enc = EncTasks
    /\ \A t \in EncTasks : \A e \in enc[t] : enc[t] = {e} /\ EncryptionStateInv(e)
    /\ \A t, u \in EncTasks : \A e \in enc[t], f \in enc[u] :
          e.nonces.batch = f.nonces.batch => t = u \/ e.nonces.batch = 0

(* A sealed segment is that of a laid-out position, under the key of that  *)
(* position, with a nonce that its batch's generator has passed.           *)
SealedInv ==
    /\ \A s \in sealed :
         /\ \E i \in 0 .. layout.segment_count - 1 :
              /\ s = seal(derive_segment_key(context, masked_position(i)), s.nonce, i,
                          KindAt(layout, i), s.plaintext)
              /\ s.plaintext.length = PayloadAt(layout, i)
         /\ s.nonce[1] \in 1 .. drawn
         /\ s.nonce = <<s.nonce[1], s.nonce[2]>>
         /\ s.nonce[2] \in 0 .. NONCE_BATCH_SIZE - 1
         /\ \A t \in EncTasks : \A e \in enc[t] :
              s.nonce[1] = e.nonces.batch => s.nonce[2] < e.nonces.next
    /\ \A s1, s2 \in sealed : s1.position = s2.position => s1 = s2
    /\ \A s1, s2 \in sealed : s1.nonce = s2.nonce => s1 = s2

EncInv == EncTasksInv /\ SealedInv

(* There is one decryption context, of a header that was written; the      *)
(* caches are labelled for it.                                             *)
DecInv ==
    /\ header \subseteq {Header(MessageKey, SegmentLength, MessageIv, MessageAad)}
    /\ decContext \subseteq {context, foreign}
    /\ \A c1, c2 \in decContext : c1 = c2
    /\ DOMAIN dec = DecTasks
    /\ decContext = None => ~decShared /\ \A t \in DecTasks : dec[t] = None
    /\ \A t \in DecTasks : \A keys \in dec[t], ctx \in decContext : LabelledCache(keys, ctx)

-----------------------------------------------------------------------------
(* The layout and what is laid out. *)

LEMMA MessageLayoutIsGood == GoodLayout(layout) /\ layout.parameters = SegmentLength
BY SharedStatesAssumption, PlaintextLayoutIsGood, LayoutFields DEF layout

LEMMA SegmentsLaidOut ==
    /\ \A g \in Segments : \E i \in 0 .. layout.segment_count - 1 : g = SegmentAt(layout, i)
    /\ \A i \in 0 .. layout.segment_count - 1 : SegmentAt(layout, i) \in Segments
BY MessageLayoutIsGood, SegmentForPosition DEF Segments, Some

LEMMA SegmentFields ==
    ASSUME NEW i \in 0 .. layout.segment_count - 1
    PROVE  LET g == SegmentAt(layout, i)
           IN  /\ g.position = i /\ g.kind = KindAt(layout, i)
               /\ g.parameters = SegmentLength
               /\ g.plaintext_length = PayloadAt(layout, i)
               /\ g.ciphertext_length = SEGMENT_OVERHEAD + PayloadAt(layout, i)
               /\ i \in Nat /\ i < AEAD_MAX_SEGMENTS
<1>1. i \in Nat /\ i < AEAD_MAX_SEGMENTS
  BY MessageLayoutIsGood, ParametersAssumption DEF GoodLayout
<1> QED BY <1>1, MessageLayoutIsGood DEF SegmentAt

-----------------------------------------------------------------------------
(* Encryption. *)

(* A state that has drawn no batch disturbs nothing: start_encryption,     *)
(* into_shared and fork.                                                   *)
LEMMA FreshStateKeepsInv ==
    ASSUME EncInv, NEW t \in EncTasks, NEW state,
           state = None \/ \E k : /\ LabelledCache(k, context)
                                  /\ state = Some(EncryptionState(k, 0, NONCE_BATCH_SIZE)),
           enc' = [enc EXCEPT ![t] = state],
           UNCHANGED <<drawn, sealed>>
    PROVE  EncInv'
<1>1. drawn' = drawn /\ sealed' = sealed /\ drawn \in Nat
  BY DEF EncInv, EncTasksInv
<1>2. DOMAIN enc' = EncTasks
  BY DEF EncInv, EncTasksInv
<1>3. enc'[t] = state /\ \A u \in EncTasks \ {t} : enc'[u] = enc[u]
  BY DEF EncInv, EncTasksInv
<1>4. \A e \in state : /\ e.nonces.batch = 0 /\ e.nonces.next = NONCE_BATCH_SIZE
                       /\ state = {e} /\ EncryptionStateInv(e)'
  <2>1. SUFFICES ASSUME NEW k, LabelledCache(k, context),
                        state = Some(EncryptionState(k, 0, NONCE_BATCH_SIZE)),
                        NEW e \in state
                 PROVE  /\ e.nonces.batch = 0 /\ e.nonces.next = NONCE_BATCH_SIZE
                        /\ state = {e} /\ EncryptionStateInv(e)'
    BY DEF None
  <2>2. e = EncryptionState(k, 0, NONCE_BATCH_SIZE) /\ state = {e}
    BY <2>1 DEF Some
  <2>3. e.keys = k /\ e.nonces.batch = 0 /\ e.nonces.next = NONCE_BATCH_SIZE
    BY <2>2, StateFields
  <2>4. EncryptionStateInv(e)
    BY <1>1, <2>1, <2>2, <2>3, NonceAssumption DEF EncryptionStateInv
  <2>5. EncryptionStateInv(e)'
    BY <1>1, <2>4 DEF EncryptionStateInv, LabelledCache
  <2> QED BY <2>2, <2>3, <2>5
<1>5. \A u \in EncTasks : \A e \in enc'[u] : enc'[u] = {e} /\ EncryptionStateInv(e)'
  <2>1. \A u \in EncTasks : \A e \in enc[u] : enc[u] = {e} /\ EncryptionStateInv(e)
    BY DEF EncInv, EncTasksInv
  <2>2. \A e : EncryptionStateInv(e) => EncryptionStateInv(e)'
    BY <1>1 DEF EncryptionStateInv
  <2> QED BY <1>3, <1>4, <2>1, <2>2
<1>6. \A u, v \in EncTasks : \A e \in enc'[u], f \in enc'[v] :
          e.nonces.batch = f.nonces.batch => u = v \/ e.nonces.batch = 0
  BY <1>3, <1>4 DEF EncInv, EncTasksInv
<1>7. EncTasksInv'
  BY <1>1, <1>2, <1>5, <1>6 DEF EncTasksInv
<1>8. SealedInv'
  <2>1. ASSUME NEW s \in sealed, NEW u \in EncTasks, NEW e \in enc'[u],
               s.nonce[1] = e.nonces.batch
        PROVE  s.nonce[2] < e.nonces.next
    <3>1. CASE u = t
      <4>1. e.nonces.batch = 0 /\ e.nonces.next = NONCE_BATCH_SIZE
        BY <1>3, <1>4, <2>1, <3>1
      <4> QED BY <2>1, <4>1 DEF EncInv, SealedInv
    <3>2. CASE u # t
      BY <1>3, <2>1, <3>2 DEF EncInv, SealedInv
    <3> QED BY <3>1, <3>2
  <2> QED BY <1>1, <2>1 DEF EncInv, SealedInv
<1> QED BY <1>7, <1>8 DEF EncInv

(* What a call does to the task's state, the batches and the segments, for *)
(* a position that no task has encrypted and a payload of its length.      *)
EncryptedAt(t, segment, plaintext, room, fault) ==
    /\ segment.position \notin {s.position : s \in sealed}
    /\ plaintext.length = segment.plaintext_length
    /\ \E state \in enc[t] :
         LET r == encrypt_segment(state, context, plaintext, segment.position,
                                  segment.kind, room, fault, drawn + 1)
         IN  /\ enc' = [enc EXCEPT ![t] = Some(r.state)]
             /\ drawn' = IF r.state.nonces.batch = drawn + 1 THEN drawn + 1 ELSE drawn
             /\ sealed' = IF r.ok THEN sealed \cup {r.segment} ELSE sealed

(* One call (encrypt_segment and its variants): whatever fails, the task's *)
(* generator keeps its own batch or has just drawn a new one.              *)
LEMMA EncryptKeepsInv ==
    ASSUME EncInv, NEW t \in EncTasks, NEW segment \in Segments, NEW plaintext,
           NEW room, NEW fault, EncryptedAt(t, segment, plaintext, room, fault)
    PROVE  EncInv'
<1>1. PICK i \in 0 .. layout.segment_count - 1 : segment = SegmentAt(layout, i)
  BY SegmentsLaidOut
<1>2. /\ segment.position = i /\ segment.kind = KindAt(layout, i) /\ i \in Nat
      /\ segment.plaintext_length = PayloadAt(layout, i)
  BY <1>1, SegmentFields
<1>3. PICK state \in enc[t] :
        LET r == encrypt_segment(state, context, plaintext, segment.position,
                                 segment.kind, room, fault, drawn + 1)
        IN  /\ enc' = [enc EXCEPT ![t] = Some(r.state)]
            /\ drawn' = IF r.state.nonces.batch = drawn + 1 THEN drawn + 1 ELSE drawn
            /\ sealed' = IF r.ok THEN sealed \cup {r.segment} ELSE sealed
  BY DEF EncryptedAt
<1> DEFINE b == state.nonces.batch
           n == state.nonces.next
           d == drawn + 1
           r == encrypt_segment(state, context, plaintext, i, KindAt(layout, i), room, fault, d)
<1>4. /\ enc' = [enc EXCEPT ![t] = Some(r.state)]
      /\ drawn' = IF r.state.nonces.batch = d THEN d ELSE drawn
      /\ sealed' = IF r.ok THEN sealed \cup {r.segment} ELSE sealed
  BY <1>2, <1>3
<1>5. /\ state = EncryptionState(state.keys, b, n) /\ LabelledCache(state.keys, context)
      /\ b \in 0 .. drawn /\ n \in 0 .. NONCE_BATCH_SIZE
      /\ b = 0 => n = NONCE_BATCH_SIZE
      /\ drawn \in Nat
  BY DEF EncInv, EncTasksInv, EncryptionStateInv
<1>6. SegmentShape(r, context, b, d, n, i, KindAt(layout, i), plaintext)
  <2>1. d \in Nat \ {b} /\ b \in Nat
    BY <1>5
  <2>2. r = encrypt_segment(EncryptionState(state.keys, b, n), context, plaintext, i,
                            KindAt(layout, i), room, fault, d)
    BY <1>5
  <2> HIDE DEF r, b, n, d
  <2> QED BY <1>2, <1>5, <2>1, <2>2, EncryptSegmentShape
<1> HIDE DEF r
<1>7. PICK k : \E c \in {b, d}, m \in 0 .. NONCE_BATCH_SIZE :
        /\ LabelledCache(k, context)
        /\ r.state = EncryptionState(k, c, m)
        /\ c = b => m >= n
        /\ r.ok => /\ m >= 1
                   /\ c = b => m > n
                   /\ r.segment = seal(derive_segment_key(context, masked_position(i)),
                                       <<c, m - 1>>, i, KindAt(layout, i), plaintext)
  BY <1>6 DEF SegmentShape
<1>8. PICK c \in {b, d}, m \in 0 .. NONCE_BATCH_SIZE :
        /\ LabelledCache(k, context)
        /\ r.state = EncryptionState(k, c, m)
        /\ c = b => m >= n
        /\ r.ok => /\ m >= 1
                   /\ c = b => m > n
                   /\ r.segment = seal(derive_segment_key(context, masked_position(i)),
                                       <<c, m - 1>>, i, KindAt(layout, i), plaintext)
  BY <1>7
<1> DEFINE e == EncryptionState(k, c, m)
<1>9. e.keys = k /\ e.nonces.batch = c /\ e.nonces.next = m
  BY StateFields
<1>10. /\ enc'[t] = {e} /\ \A u \in EncTasks \ {t} : enc'[u] = enc[u]
       /\ DOMAIN enc' = EncTasks
  BY <1>4, <1>8 DEF EncInv, EncTasksInv, Some
<1> HIDE DEF e
<1>11. /\ drawn' \in Nat /\ drawn <= drawn' /\ drawn' \in {drawn, d}
       /\ c \in 0 .. drawn' /\ (c = d => drawn' = d)
       /\ c = 0 => m = NONCE_BATCH_SIZE
  BY <1>4, <1>5, <1>8, <1>9 DEF e
<1>12. EncryptionStateInv(e)'
  <2>1. LabelledCache(k, context)'
    BY <1>8 DEF LabelledCache
  <2>2. EncryptionState(k, c, m) = EncryptionState(e.keys, e.nonces.batch, e.nonces.next)
    BY <1>9
  <2>3. e = EncryptionState(e.keys, e.nonces.batch, e.nonces.next)
    BY <2>2 DEF e
  <2> QED BY <1>8, <1>9, <1>11, <2>1, <2>3 DEF EncryptionStateInv
<1>13. \A f : EncryptionStateInv(f) => EncryptionStateInv(f)'
  BY <1>5, <1>11 DEF EncryptionStateInv
<1>14. \A u \in EncTasks : \A f \in enc'[u] : enc'[u] = {f} /\ EncryptionStateInv(f)'
  BY <1>10, <1>12, <1>13 DEF EncInv, EncTasksInv
<1>15. \A u \in EncTasks \ {t} : \A f \in enc[u] : f.nonces.batch = c => c = 0
  <2>1. ASSUME NEW u \in EncTasks \ {t}, NEW f \in enc[u], f.nonces.batch = c
        PROVE  c = 0
    <3>1. f.nonces.batch \in 0 .. drawn
      BY <2>1 DEF EncInv, EncTasksInv, EncryptionStateInv
    <3>2. c = b
      BY <1>5, <1>8, <2>1, <3>1
    <3> QED BY <2>1, <3>2 DEF EncInv, EncTasksInv
  <2> QED BY <2>1
<1>16. EncTasksInv'
  <2>1. \A u, v \in EncTasks : \A f \in enc'[u], g \in enc'[v] :
          f.nonces.batch = g.nonces.batch => u = v \/ f.nonces.batch = 0
    BY <1>9, <1>10, <1>15 DEF EncInv, EncTasksInv
  <2> QED BY <1>10, <1>11, <1>14, <2>1 DEF EncTasksInv
<1>17. ASSUME NEW s \in sealed, NEW u \in EncTasks, NEW f \in enc'[u],
              s.nonce[1] = f.nonces.batch
       PROVE  s.nonce[2] < f.nonces.next
  <2>1. CASE u # t
    BY <1>10, <1>17, <2>1 DEF EncInv, SealedInv
  <2>2. CASE u = t
    <3>1. f = e /\ s.nonce[1] = c
      BY <1>9, <1>10, <1>17, <2>2
    <3>2. s.nonce[1] \in 1 .. drawn /\ s.nonce[2] \in Nat
      BY NonceAssumption DEF EncInv, SealedInv
    <3>3. c = b
      BY <1>5, <1>8, <3>1, <3>2
    <3>4. s.nonce[2] < n
      BY <3>1, <3>3 DEF EncInv, SealedInv
    <3> QED BY <1>5, <1>8, <1>9, <3>1, <3>2, <3>3, <3>4
  <2> QED BY <2>1, <2>2
<1>18. CASE ~r.ok
  <2>1. sealed' = sealed
    BY <1>4, <1>18
  <2> QED BY <1>5, <1>11, <1>16, <1>17, <2>1 DEF EncInv, SealedInv
<1>19. CASE r.ok
  <2> DEFINE new == r.segment
  <2>1. sealed' = sealed \cup {new}
    BY <1>4, <1>19
  <2>2. /\ new = seal(derive_segment_key(context, masked_position(i)), new.nonce, i,
                      KindAt(layout, i), new.plaintext)
        /\ new.nonce = <<c, m - 1>> /\ new.position = i /\ new.plaintext = plaintext
    BY <1>8, <1>19, SealFields
  <2>3. m - 1 \in 0 .. NONCE_BATCH_SIZE - 1 /\ c \in 1 .. drawn'
    BY <1>5, <1>8, <1>11, <1>19, NonceAssumption
  <2>4. \A s \in sealed : s.position # i
    BY <1>2 DEF EncryptedAt
  <2>5. \A s \in sealed : s.nonce # new.nonce
    <3>1. SUFFICES ASSUME NEW s \in sealed, s.nonce = <<c, m - 1>> PROVE FALSE
      BY <2>2
    <3>2. s.nonce[1] = c /\ s.nonce[2] = m - 1 /\ s.nonce[1] \in 1 .. drawn
      BY <3>1 DEF EncInv, SealedInv
    <3>3. c = b
      BY <1>5, <1>8, <3>2
    <3>4. m - 1 < n
      BY <3>2, <3>3 DEF EncInv, SealedInv
    <3> QED BY <1>5, <1>8, <1>19, <3>3, <3>4
  <2>6. ASSUME NEW u \in EncTasks, NEW f \in enc'[u], new.nonce[1] = f.nonces.batch
        PROVE  new.nonce[2] < f.nonces.next
    <3>1. new.nonce[1] = c /\ new.nonce[2] = m - 1
      BY <2>2
    <3>2. u = t
      <4>1. SUFFICES ASSUME u # t PROVE FALSE
        OBVIOUS
      <4>2. f \in enc[u] /\ u \in EncTasks \ {t} /\ f.nonces.batch = c
        BY <1>10, <2>6, <3>1, <4>1
      <4> QED BY <1>11, <1>15, <2>3, <4>2
    <3> QED BY <1>8, <1>9, <1>10, <3>1, <3>2
  <2>7. ASSUME NEW s \in sealed'
        PROVE  /\ \E j \in 0 .. layout.segment_count - 1 :
                    /\ s = seal(derive_segment_key(context, masked_position(j)), s.nonce, j,
                                KindAt(layout, j), s.plaintext)
                    /\ s.plaintext.length = PayloadAt(layout, j)
               /\ s.nonce[1] \in 1 .. drawn'
               /\ s.nonce = <<s.nonce[1], s.nonce[2]>>
               /\ s.nonce[2] \in 0 .. NONCE_BATCH_SIZE - 1
               /\ \A u \in EncTasks : \A f \in enc'[u] :
                    s.nonce[1] = f.nonces.batch => s.nonce[2] < f.nonces.next
    <3>1. CASE s \in sealed
      BY <1>5, <1>11, <1>17, <3>1 DEF EncInv, SealedInv
    <3>2. CASE s = new
      <4>1. new.plaintext.length = PayloadAt(layout, i)
        BY <1>2, <2>2 DEF EncryptedAt
      <4> QED BY <2>2, <2>3, <2>6, <3>2, <4>1
    <3> QED BY <2>1, <2>7, <3>1, <3>2
  <2>8. \A s1, s2 \in sealed' : s1.position = s2.position => s1 = s2
    BY <2>1, <2>2, <2>4 DEF EncInv, SealedInv
  <2>9. \A s1, s2 \in sealed' : s1.nonce = s2.nonce => s1 = s2
    BY <2>1, <2>5 DEF EncInv, SealedInv
  <2> QED BY <1>16, <2>7, <2>8, <2>9 DEF EncInv, SealedInv
<1> QED BY <1>18, <1>19

-----------------------------------------------------------------------------
(* Decryption. *)

LEMMA OptionStep ==
    ASSUME NEW f, NEW S, DOMAIN f = S, NEW t \in S, NEW x
    PROVE  LET g == [f EXCEPT ![t] = x]
           IN  DOMAIN g = S /\ g[t] = x /\ \A u \in S \ {t} : g[u] = f[u]
OBVIOUS

(* start_decryption yields a context only for a header that was written:   *)
(* the tag binds the key, the parameters, the IV and the associated data.  *)
LEMMA AcceptedHeader ==
    ASSUME DecInv, NEW key, NEW aad, NEW parameters, NEW given \in HeadersGiven,
           accepts_header(key, aad, parameters, given)
    PROVE  Context(key, parameters, given.iv, aad) \in {context, foreign}
<1> DEFINE h == Header(MessageKey, SegmentLength, MessageIv, MessageAad)
           g == Header(MessageKey, SegmentLength, "other iv", MessageAad)
<1>1. given \in {h, g, [h EXCEPT !.parameters = OtherLength], [h EXCEPT !.iv = "other iv"]}
  BY DEF HeadersGiven, DecInv
<1>2. /\ given.tag = <<key, parameters, given.iv, aad>>
      /\ given.parameters = parameters
  BY DEF accepts_header, derive_message
<1>3. h.tag = <<MessageKey, SegmentLength, MessageIv, MessageAad>> /\ h.iv = MessageIv
      /\ g.tag = <<MessageKey, SegmentLength, "other iv", MessageAad>> /\ g.iv = "other iv"
      /\ [h EXCEPT !.parameters = OtherLength].tag = h.tag
      /\ [h EXCEPT !.parameters = OtherLength].iv = h.iv
      /\ [h EXCEPT !.iv = "other iv"].tag = h.tag
      /\ [h EXCEPT !.iv = "other iv"].iv = "other iv"
  BY DEF Header, derive_message
<1>4. MessageIv # "other iv"
  BY DEF MessageIv
<1>5. CASE given \in {h, [h EXCEPT !.parameters = OtherLength]}
  <2>1. <<key, parameters, given.iv, aad>>
          = <<MessageKey, SegmentLength, MessageIv, MessageAad>>
    BY <1>2, <1>3, <1>5
  <2> QED BY <2>1 DEF context
<1>6. CASE given = g
  <2>1. <<key, parameters, given.iv, aad>>
          = <<MessageKey, SegmentLength, "other iv", MessageAad>>
    BY <1>2, <1>3, <1>6
  <2> QED BY <2>1 DEF foreign
<1>7. CASE given = [h EXCEPT !.iv = "other iv"]
  <2>1. <<key, parameters, "other iv", aad>>
          = <<MessageKey, SegmentLength, MessageIv, MessageAad>>
    BY <1>2, <1>3, <1>7
  <2> QED BY <1>4, <2>1
<1> QED BY <1>1, <1>5, <1>6, <1>7

(* A decryption leaves the cache labelled, whatever it was given. *)
LEMMA DecryptKeepsLabels ==
    ASSUME NEW keys, NEW ctx, LabelledCache(keys, ctx), NEW presented, NEW segment,
           NEW room, NEW fault
    PROVE  LabelledCache(decrypt_result(keys, ctx, presented, segment, room, fault).state, ctx)
<1> DEFINE r == decrypt_result(keys, ctx, presented, segment, room, fault)
           found == key_cache_after(keys, ctx, segment.position, fault)
<1>1. r.state \in {keys, found}
  BY DEF decrypt_result, decrypt_segment_at, open_segment, Failed
<1>2. LabelledCache(found, ctx)
  BY CacheStaysLabelled
<1> QED BY <1>1, <1>2

LEMMA RawDecryptKeepsLabels ==
    ASSUME NEW keys, NEW ctx, LabelledCache(keys, ctx), NEW presented, NEW spare, NEW segment,
           NEW fault
    PROVE  LabelledCache(decrypt_raw_result(keys, ctx, presented, spare, segment, fault).state,
                         ctx)
<1> DEFINE r == decrypt_raw_result(keys, ctx, presented, spare, segment, fault)
           found == key_cache_after(keys, ctx, segment.position, fault)
<1>1. r.state \in {keys, found}
  BY DEF decrypt_raw_result, decrypt_segment_at, open_segment, Failed
<1>2. LabelledCache(found, ctx)
  BY CacheStaysLabelled
<1> QED BY <1>1, <1>2

(* A call that replaces a task's cache by a labelled one. *)
LEMMA CacheStep ==
    ASSUME DecInv, header' = header, NEW t \in DecTasks, NEW new, NEW ctx \in decContext,
           LabelledCache(new, ctx), dec' = [dec EXCEPT ![t] = Some(new)],
           UNCHANGED <<decContext, decShared>>
    PROVE  DecInv'
<1>1. DOMAIN dec = DecTasks
  BY DEF DecInv
<1>2. /\ DOMAIN dec' = DecTasks /\ dec'[t] = {new}
      /\ \A u \in DecTasks \ {t} : dec'[u] = dec[u]
      /\ decContext' = decContext /\ decShared' = decShared
  BY <1>1, OptionStep DEF Some
<1>3. \A x \in decContext : x = ctx
  BY DEF DecInv
<1> QED BY <1>2, <1>3 DEF DecInv, None

LEMMA DecryptionKeepsInv ==
    ASSUME DecInv, header' = header,
           \/ \E key, aad, parameters : \E given \in HeadersGiven :
                 start_decryption(key, aad, parameters, given)
           \/ into_shared_decryption
           \/ \E t \in DecTasks : fork_decryption(t)
           \/ \E t \in DecTasks, presented \in sealed \cup Foreign, segment \in Segments,
                room \in BOOLEAN, fault \in Faults \ {"rng"} :
                decrypt(t, presented, segment, room, fault)
           \/ \E t \in DecTasks, presented \in sealed \cup Foreign, spare \in Spare \ {0},
                segment \in Segments, fault \in Faults \ {"rng"} :
                decrypt_segment_in_place_raw(t, presented, spare, segment, fault)
    PROVE  DecInv'
<1>0. Main \in DecTasks /\ DOMAIN dec = DecTasks
  BY SharedStatesAssumption DEF DecInv
<1>1. ASSUME NEW key, NEW aad, NEW parameters, NEW given \in HeadersGiven,
             start_decryption(key, aad, parameters, given)
      PROVE  DecInv'
  <2> DEFINE ctx == Context(key, parameters, given.iv, aad)
  <2>1. ctx \in {context, foreign}
    BY <1>1, AcceptedHeader DEF start_decryption
  <2>2. decContext = None /\ decContext' = {ctx} /\ decShared' = decShared
    BY <1>1 DEF start_decryption, Some
  <2>3. /\ DOMAIN dec' = DecTasks /\ dec'[Main] = {KeyCache_new(ctx)}
        /\ \A u \in DecTasks \ {Main} : dec'[u] = dec[u]
    BY <1>0, <1>1, OptionStep DEF start_decryption, Some
  <2>4. \A u \in DecTasks : dec[u] = {}
    BY <2>2 DEF DecInv, None
  <2>5. LabelledCache(KeyCache_new(ctx), ctx)
    BY DEF LabelledCache, KeyCache_new, derive, Some
  <2> HIDE DEF ctx
  <2>6. \A u \in DecTasks : \A keys \in dec'[u], x \in decContext' : LabelledCache(keys, x)
    BY <2>2, <2>3, <2>4, <2>5
  <2> QED BY <2>1, <2>2, <2>3, <2>6 DEF DecInv, None
<1>2. CASE into_shared_decryption
  <2>1. /\ DOMAIN dec' = DecTasks /\ dec'[Main] = {}
        /\ \A u \in DecTasks \ {Main} : dec'[u] = dec[u]
        /\ decContext' = decContext /\ dec[Main] # None
    BY <1>0, <1>2, OptionStep DEF into_shared_decryption, None
  <2> QED BY <1>0, <2>1 DEF DecInv
<1>3. ASSUME NEW t \in DecTasks, fork_decryption(t) PROVE DecInv'
  <2>1. /\ DOMAIN dec' = DecTasks /\ dec'[t] = {{}}
        /\ \A u \in DecTasks \ {t} : dec'[u] = dec[u]
        /\ decContext' = decContext /\ decShared /\ decShared' = decShared
    BY <1>0, <1>3, OptionStep DEF fork_decryption, None, Some, KeyCache_empty
  <2>2. \A ctx : LabelledCache({}, ctx)
    BY DEF LabelledCache
  <2>3. decContext # None
    BY <2>1 DEF DecInv
  <2>4. \A u \in DecTasks : \A keys \in dec'[u], ctx \in decContext' : LabelledCache(keys, ctx)
    <3> SUFFICES ASSUME NEW u \in DecTasks, NEW keys \in dec'[u], NEW ctx \in decContext'
                 PROVE  LabelledCache(keys, ctx)
      OBVIOUS
    <3>1. CASE u = t
      <4>1. keys = {}
        BY <2>1, <3>1
      <4> QED BY <2>2, <4>1
    <3>2. CASE u # t
      <4>1. keys \in dec[u] /\ ctx \in decContext
        BY <2>1, <3>2
      <4> QED BY <4>1 DEF DecInv
    <3> QED BY <3>1, <3>2
  <2> QED BY <2>1, <2>3, <2>4 DEF DecInv
<1>4. ASSUME NEW t \in DecTasks, NEW presented, NEW segment, NEW room, NEW fault,
             decrypt(t, presented, segment, room, fault)
      PROVE  DecInv'
  <2>1. PICK keys \in dec[t], ctx \in decContext :
          dec' = [dec EXCEPT ![t] =
                    Some(decrypt_result(keys, ctx, presented, segment, room, fault).state)]
    BY <1>4 DEF decrypt
  <2>2. LabelledCache(decrypt_result(keys, ctx, presented, segment, room, fault).state, ctx)
    BY DecryptKeepsLabels DEF DecInv
  <2>3. UNCHANGED <<decContext, decShared>>
    BY <1>4 DEF decrypt
  <2> QED BY <2>1, <2>2, <2>3, CacheStep
<1>5. ASSUME NEW t \in DecTasks, NEW presented, NEW spare, NEW segment, NEW fault,
             decrypt_segment_in_place_raw(t, presented, spare, segment, fault)
      PROVE  DecInv'
  <2>1. PICK keys \in dec[t], ctx \in decContext :
          dec' = [dec EXCEPT ![t] =
                    Some(decrypt_raw_result(keys, ctx, presented, spare, segment, fault).state)]
    BY <1>5 DEF decrypt_segment_in_place_raw
  <2>2. LabelledCache(decrypt_raw_result(keys, ctx, presented, spare, segment, fault).state, ctx)
    BY RawDecryptKeepsLabels DEF DecInv
  <2>3. UNCHANGED <<decContext, decShared>>
    BY <1>5 DEF decrypt_segment_in_place_raw
  <2> QED BY <2>1, <2>2, <2>3, CacheStep
<1> QED BY <1>1, <1>2, <1>3, <1>4, <1>5

-----------------------------------------------------------------------------
(* The invariant holds in every reachable state. *)

SharedInv == EncInv /\ DecInv

LEMMA InitIsGood == Init => SharedInv
<1> SUFFICES ASSUME Init PROVE SharedInv
  OBVIOUS
<1>1. EncInv
  BY DEF Init, EncInv, EncTasksInv, SealedInv, None
<1>2. DecInv
  BY DEF Init, DecInv, None
<1> QED BY <1>1, <1>2 DEF SharedInv

LEMMA NextIsGood == SharedInv /\ [Next]_vars => SharedInv'
<1> SUFFICES ASSUME SharedInv, [Next]_vars PROVE SharedInv'
  OBVIOUS
<1> USE DEF SharedInv
<1>0. Main \in EncTasks
  BY SharedStatesAssumption
<1>1. UNCHANGED decVars /\ header' = header => DecInv'
  BY DEF decVars, DecInv
<1>2. UNCHANGED encVars => EncInv' /\ header' = header
  BY DEF encVars, EncInv, EncTasksInv, EncryptionStateInv, SealedInv
<1>3. CASE start_encryption
  <2> DEFINE k == KeyCache_new(context)
  <2>1. LabelledCache(k, context)
    BY DEF LabelledCache, KeyCache_new, derive, Some
  <2>2. [keys |-> k, nonces |-> NonceGenerator_new] = EncryptionState(k, 0, NONCE_BATCH_SIZE)
    BY DEF EncryptionState, NonceGenerator_new
  <2>3. EncInv'
    BY <1>0, <1>3, <2>1, <2>2, FreshStateKeepsInv DEF start_encryption
  <2>4. DecInv'
    BY <1>3 DEF start_encryption, decVars, DecInv, Some
  <2> QED BY <2>3, <2>4
<1>4. CASE into_shared_encryption
  <2>1. EncInv'
    BY <1>0, <1>4, FreshStateKeepsInv DEF into_shared_encryption
  <2> QED BY <1>1, <1>4, <2>1 DEF into_shared_encryption
<1>5. ASSUME NEW t \in EncTasks, fork_encryption(t) PROVE SharedInv'
  <2>1. LabelledCache({}, context)
    BY DEF LabelledCache
  <2>2. fork_state = EncryptionState({}, 0, NONCE_BATCH_SIZE)
    BY DEF fork_state, EncryptionState, NonceGenerator_new, KeyCache_empty, None
  <2>3. EncInv'
    BY <1>5, <2>1, <2>2, FreshStateKeepsInv DEF fork_encryption
  <2> QED BY <1>1, <1>5, <2>3 DEF fork_encryption
<1>6. ASSUME NEW t \in EncTasks, NEW segment \in Segments, NEW room \in BOOLEAN,
             NEW fault \in Faults, encrypt(t, segment, PlaintextOf(segment), room, fault)
      PROVE  SharedInv'
  <2>1. EncInv'
    <3>1. EncryptedAt(t, segment, PlaintextOf(segment), room, fault)
      BY <1>6 DEF encrypt, EncryptedAt
    <3> QED BY <3>1, EncryptKeepsInv
  <2> QED BY <1>1, <1>6, <2>1 DEF encrypt
<1>7. ASSUME NEW key, NEW aad, NEW parameters, NEW given \in HeadersGiven,
             start_decryption(key, aad, parameters, given)
      PROVE  SharedInv'
  <2>1. UNCHANGED encVars
    BY <1>7 DEF start_decryption
  <2> QED BY <1>2, <1>7, <2>1, DecryptionKeepsInv
<1>8. CASE into_shared_decryption
  <2>1. UNCHANGED encVars
    BY <1>8 DEF into_shared_decryption
  <2> QED BY <1>2, <1>8, <2>1, DecryptionKeepsInv
<1>9. ASSUME NEW t \in DecTasks, fork_decryption(t) PROVE SharedInv'
  <2>1. UNCHANGED encVars
    BY <1>9 DEF fork_decryption
  <2> QED BY <1>2, <1>9, <2>1, DecryptionKeepsInv
<1>10. ASSUME NEW t \in DecTasks, NEW presented \in sealed \cup Foreign, NEW segment \in Segments,
              NEW room \in BOOLEAN, NEW fault \in Faults \ {"rng"},
              decrypt(t, presented, segment, room, fault)
       PROVE  SharedInv'
  <2>1. UNCHANGED encVars
    BY <1>10 DEF decrypt
  <2> QED BY <1>2, <1>10, <2>1, DecryptionKeepsInv
<1>11. ASSUME NEW t \in DecTasks, NEW presented \in sealed \cup Foreign, NEW spare \in Spare \ {0},
              NEW segment \in Segments, NEW fault \in Faults \ {"rng"},
              decrypt_segment_in_place_raw(t, presented, spare, segment, fault)
       PROVE  SharedInv'
  <2>1. UNCHANGED encVars
    BY <1>11 DEF decrypt_segment_in_place_raw
  <2> QED BY <1>2, <1>11, <2>1, DecryptionKeepsInv
<1>12. CASE UNCHANGED vars
  BY <1>1, <1>2, <1>12 DEF vars
<1> QED
  BY <1>3, <1>4, <1>5, <1>6, <1>7, <1>8, <1>9, <1>10, <1>11, <1>12 DEF Next

LEMMA SharedInvariance == Spec => []SharedInv
BY InitIsGood, NextIsGood, PTL DEF Spec

-----------------------------------------------------------------------------
(* Theorems. *)

(* Each property follows from the invariant (encryption nonces). *)
LEMMA InvGivesNonces == SharedInv => NoncesAreUnique
BY DEF SharedInv, EncInv, SealedInv, NoncesAreUnique

(* However many tasks encrypt one message concurrently, each from its own  *)
(* fork with its own nonce generator, and whatever calls fail for want of  *)
(* randomness, keys or room, no two segments share a key and a nonce: a    *)
(* batch belongs to one generator, which never goes back in it.            *)
THEOREM NonceUniqueness == Spec => []NoncesAreUnique
BY InvGivesNonces, SharedInvariance, PTL

(* Headers, from the invariant. *)
LEMMA InvGivesHeaders == SharedInv => HeadersAreAuthentic
BY DEF SharedInv, DecInv, HeadersAreAuthentic

(* A decryption state comes only from a header that an encryptor wrote.    *)
THEOREM HeaderAuthenticity == Spec => []HeadersAreAuthentic
BY InvGivesHeaders, SharedInvariance, PTL

(* What SealedInv says of one segment, field by field. *)
LEMMA SealedForm ==
    ASSUME SealedInv, NEW s \in sealed
    PROVE  /\ s.position \in 0 .. layout.segment_count - 1
           /\ s.key = derive_segment_key(context, masked_position(s.position))
           /\ s.kind = KindAt(layout, s.position)
           /\ ~s.damaged
           /\ s.length = SEGMENT_OVERHEAD + PayloadAt(layout, s.position)
           /\ s.prefix = segment_prefix(s.kind, s.length)
<1>1. PICK i \in 0 .. layout.segment_count - 1 :
        /\ s = seal(derive_segment_key(context, masked_position(i)), s.nonce, i,
                    KindAt(layout, i), s.plaintext)
        /\ s.plaintext.length = PayloadAt(layout, i)
  BY DEF SealedInv
<1>2. s.position = i
  BY <1>1, SealFields
<1> QED BY <1>1, <1>2, SealFields

(* The segments under one key inject into a rotation period. *)
LEMMA InvGivesRotation == SharedInv => KeysRotate
<1>1. SUFFICES ASSUME SharedInv, NEW s \in sealed
               PROVE  Cardinality({x \in sealed : x.key = s.key}) <= ROTATION_PERIOD
  BY DEF KeysRotate
<1> DEFINE X == {x \in sealed : x.key = s.key}
           m == masked_position(s.position)
           T == m .. m + ROTATION_PERIOD - 1
           f == [x \in X |-> x.position]
<1>2. SealedInv
  BY <1>1 DEF SharedInv, EncInv
<1>3. \A x \in sealed : x.position \in Nat
  BY <1>2, SealedForm, SegmentFields
<1>4. \A x \in X : masked_position(x.position) = m
  BY <1>2, SealedForm DEF derive_segment_key
<1>5. \A x \in X : x.position \in T
  BY <1>3, <1>4, MaskedGroup
<1>6. \A x, y \in X : x.position = y.position => x = y
  BY <1>2 DEF SealedInv
<1>7. m \in Nat /\ ROTATION_PERIOD \in Nat \ {0}
  BY <1>1, <1>3, MaskedGroup, ParametersAssumption
<1>8. IsFiniteSet(T) /\ Cardinality(T) = ROTATION_PERIOD
  BY <1>7, FS_Interval, SMTT(30)
<1> HIDE DEF X, T, m
<1>9. f \in Injection(X, T)
  BY <1>5, <1>6 DEF Injection, IsInjective
<1>10. Cardinality(X) <= Cardinality(T)
  BY <1>8, <1>9, FS_Injection
<1> QED BY <1>8, <1>10 DEF X

(* No key seals more than one rotation period of segments, in whatever     *)
(* order the tasks take the positions: the segments under a key have       *)
(* different positions of one period.                                      *)
THEOREM KeyRotation == Spec => []KeysRotate
BY InvGivesRotation, SharedInvariance, PTL

-----------------------------------------------------------------------------
(* Exactness of decryption. *)

(* s was sealed under a context's key of its own position, for the layout  *)
(* that both messages have.                                                *)
SealedUnder(s, ctx) ==
    /\ s.position \in 0 .. layout.segment_count - 1
    /\ s.key = derive_segment_key(ctx, masked_position(s.position))
    /\ s.kind = KindAt(layout, s.position)
    /\ s.length = SEGMENT_OVERHEAD + PayloadAt(layout, s.position)

LEMMA SealedSegments ==
    ASSUME SealedInv, NEW s \in sealed \cup Foreign
    PROVE  \E ctx \in {context, foreign} : SealedUnder(s, ctx)
<1>1. CASE s \in sealed
  BY <1>1, SealedForm DEF SealedUnder
<1>2. CASE s \in Foreign
  <2>1. PICK g \in Segments :
          s = seal(derive_segment_key(foreign, masked_position(g.position)), <<0, 0>>,
                   g.position, g.kind, PlaintextOf(g))
    BY <1>2 DEF Foreign
  <2>2. PICK i \in 0 .. layout.segment_count - 1 : g = SegmentAt(layout, i)
    BY SegmentsLaidOut
  <2>3. /\ g.position = i /\ g.kind = KindAt(layout, i)
        /\ g.plaintext_length = PayloadAt(layout, i)
    BY <2>2, SegmentFields
  <2>4. PlaintextOf(g).length = PayloadAt(layout, i)
    BY <2>3 DEF PlaintextOf
  <2>5. SealedUnder(s, foreign)
    BY <2>1, <2>3, <2>4, SealFields DEF SealedUnder
  <2> QED BY <2>5
<1> QED BY <1>1, <1>2

(* A presented segment carries what a sealed one binds, and its length     *)
(* too unless it is damaged.                                               *)
LEMMA PresentedForm ==
    ASSUME SealedInv, NEW presented \in Presented \cup Stored
    PROVE  \E s \in sealed \cup Foreign :
               /\ presented.key = s.key /\ presented.position = s.position
               /\ presented.kind = s.kind /\ presented.plaintext = s.plaintext
               /\ ~presented.damaged => presented.length = s.length
<1>1. CASE presented \in sealed \cup Foreign
  BY <1>1
<1>2. ASSUME NEW s \in sealed, NEW lengths,
             presented \in {[s EXCEPT !.damaged = TRUE]} \cup Altered(s, lengths)
      PROVE  /\ presented.key = s.key /\ presented.position = s.position
             /\ presented.kind = s.kind /\ presented.plaintext = s.plaintext
             /\ ~presented.damaged => presented.length = s.length
  <2>1. s = seal(s.key, s.nonce, s.position, s.kind, s.plaintext)
    <3>1. PICK i \in 0 .. layout.segment_count - 1 :
            s = seal(derive_segment_key(context, masked_position(i)), s.nonce, i,
                     KindAt(layout, i), s.plaintext)
      BY DEF SealedInv
    <3> HIDE DEF SealedInv
    <3> QED BY <3>1, SealFields
  <2>2. CASE presented = [s EXCEPT !.damaged = TRUE]
    BY <2>1, <2>2 DEF seal
  <2>3. CASE \E l : presented = [s EXCEPT !.prefix = l]
    BY <2>1, <2>3 DEF seal
  <2>4. CASE \E l : presented = [s EXCEPT !.length = l, !.damaged = TRUE]
    BY <2>1, <2>4 DEF seal
  <2> QED BY <1>2, <2>2, <2>3, <2>4 DEF Altered
<1>3. CASE presented \in Arriving
  BY <1>1, <1>2, <1>3 DEF Arriving
<1>4. CASE \E s \in sealed : \E lengths : presented \in Altered(s, lengths)
  BY <1>2, <1>4
<1> QED BY <1>3, <1>4 DEF Presented, Stored

LEMMA MessageParameters ==
    ASSUME NEW ctx \in {context, foreign}
    PROVE  ctx.parameters = SegmentLength
<1>1. context.parameters = SegmentLength /\ foreign.parameters = SegmentLength
  BY DEF context, foreign, Context
<1> QED BY <1>1

(* Whatever storage begins with is a segment, with a length and damage.    *)
LEMMA StoredFields ==
    ASSUME SealedInv, NEW presented \in Stored
    PROVE  {"length", "damaged"} \subseteq DOMAIN presented
<1>1. \A s \in sealed \cup Foreign : {"length", "damaged"} \subseteq DOMAIN s
  <2>1. \A key, nonce, position, kind, plaintext :
          {"length", "damaged"} \subseteq DOMAIN seal(key, nonce, position, kind, plaintext)
    BY DEF seal
  <2>2. ASSUME NEW s \in sealed
        PROVE  \E key, nonce, position, kind, plaintext :
                  s = seal(key, nonce, position, kind, plaintext)
    BY DEF SealedInv
  <2>3. ASSUME NEW s \in Foreign
        PROVE  \E key, nonce, position, kind, plaintext :
                  s = seal(key, nonce, position, kind, plaintext)
    BY DEF Foreign
  <2> QED BY <2>1, <2>2, <2>3
<1>2. CASE presented \in sealed \cup Foreign
  BY <1>1, <1>2
<1>3. ASSUME NEW s \in sealed, presented \in Altered(s, {SEGMENT_OVERHEAD, s.length})
      PROVE  DOMAIN presented = DOMAIN s
  BY <1>3 DEF Altered
<1>4. ASSUME NEW s \in sealed, presented = [s EXCEPT !.damaged = TRUE]
      PROVE  DOMAIN presented = DOMAIN s
  BY <1>4
<1> QED BY <1>1, <1>2, <1>3, <1>4 DEF Stored, Arriving

(* An opening at a layout position, of a segment of the length laid out    *)
(* there: accepted, with a labelled cache and no fault, if the prefix is   *)
(* the right one and the AEAD opens it under the position's key.           *)
OpensAt(r, ctx, presented, i) ==
    LET g == SegmentAt(layout, i)
    IN  /\ r.ok <=>
             /\ presented.prefix = segment_prefix(g.kind, presented.length)
             /\ opens(derive_segment_key(ctx, masked_position(i)), presented, i, g.kind)
        /\ r.ok => r.plaintext = presented.plaintext

LEMMA OpeningForm ==
    ASSUME NEW keys, NEW ctx \in {context, foreign}, LabelledCache(keys, ctx),
           NEW i \in 0 .. layout.segment_count - 1, NEW presented,
           presented.length = SegmentAt(layout, i).ciphertext_length
    PROVE  OpensAt(decrypt_segment_at(keys, ctx, presented, i, SegmentAt(layout, i).kind,
                                      TRUE, "none"),
                   ctx, presented, i)
<1> DEFINE g == SegmentAt(layout, i)
           r == decrypt_segment_at(keys, ctx, presented, i, g.kind, TRUE, "none")
           found == key_cache_after(keys, ctx, i, "none")
           key == derive_segment_key(ctx, masked_position(i))
<1>1. /\ g.position = i /\ g.kind = KindAt(layout, i) /\ g.parameters = SegmentLength
      /\ g.ciphertext_length = SEGMENT_OVERHEAD + PayloadAt(layout, i)
      /\ i \in Nat /\ i < AEAD_MAX_SEGMENTS
  BY SegmentFields
<1>2. ctx.parameters = SegmentLength
  BY MessageParameters
<1>3. key_for_position_ok(keys, i, "none")
  BY <1>1 DEF key_for_position_ok
<1>4. key_of(found) = key
  BY <1>1, <1>3, LookupReturnsKey
<1> HIDE DEF found, key
<1>5. open_segment(keys, ctx, presented, i, g.kind, TRUE, "none") =
        IF opens(key, presented, i, g.kind)
        THEN [ok |-> TRUE, state |-> found, plaintext |-> presented.plaintext]
        ELSE Failed(found, "AuthenticationFailed")
  BY <1>3, <1>4 DEF open_segment, found
<1>6. validate_segment(SegmentLength, presented, g.kind)
        <=> presented.prefix = segment_prefix(g.kind, presented.length)
  <2> DEFINE d == plaintext_segment_length(SegmentLength)
             a == PayloadAt(layout, i)
  <2>1. a \in 0 .. d /\ (i + 1 # layout.segment_count => a = d)
    BY MessageLayoutIsGood, SegmentBounds
  <2>2. /\ SegmentLength = SEGMENT_OVERHEAD + d /\ SEGMENT_OVERHEAD \in Nat /\ d \in Nat
        /\ SegmentLength \in Nat
    BY SharedStatesAssumption, SegmentLengths
  <2>3. presented.length = SEGMENT_OVERHEAD + a
    BY <1>1
  <2> HIDE DEF d, a, g
  <2>4. CASE i + 1 = layout.segment_count
    <3>1. g.kind = "Final"
      BY <1>1, <2>4 DEF KindAt
    <3>2. SEGMENT_OVERHEAD + a \in SEGMENT_OVERHEAD .. SegmentLength
      BY <2>1, <2>2
    <3> QED BY <2>3, <3>1, <3>2
            DEF validate_segment, validate_ciphertext_segment_length, segment_prefix
  <2>5. CASE i + 1 # layout.segment_count
    <3>1. g.kind = "NonFinal" /\ a = d
      BY <1>1, <2>1, <2>5 DEF KindAt
    <3> QED BY <2>2, <2>3, <3>1 DEF validate_segment, segment_prefix
  <2> QED BY <2>4, <2>5
<1> HIDE DEF r, g
<1>7. r = IF /\ validate_segment(SegmentLength, presented, g.kind)
             /\ opens(key, presented, i, g.kind)
          THEN [ok |-> TRUE, state |-> found, plaintext |-> presented.plaintext]
          ELSE IF ~validate_segment(SegmentLength, presented, g.kind)
          THEN Failed(keys, "InvalidSegment")
          ELSE Failed(found, "AuthenticationFailed")
  BY <1>2, <1>5 DEF decrypt_segment_at, r
<1>8. \A x, y : ~Failed(x, y).ok
  BY DEF Failed
<1>9. /\ r.ok <=> /\ validate_segment(SegmentLength, presented, g.kind)
                  /\ opens(key, presented, i, g.kind)
      /\ r.ok => r.plaintext = presented.plaintext
  BY <1>7, <1>8
<1> QED BY <1>6, <1>9 DEF r, g, key, OpensAt

(* What a call at a layout position accepts, by copying or in raw storage: *)
(* the right length and prefix, and an AEAD opening under the position's   *)
(* key.                                                                    *)
OpensAtPosition(r, ctx, presented, i) ==
    LET g == SegmentAt(layout, i)
    IN  /\ r.ok <=>
             /\ presented.length = g.ciphertext_length
             /\ presented.prefix = segment_prefix(g.kind, presented.length)
             /\ opens(derive_segment_key(ctx, masked_position(i)), presented, i, g.kind)
        /\ r.ok => r.plaintext = presented.plaintext

LEMMA DecryptResultForm ==
    ASSUME NEW keys, NEW ctx \in {context, foreign}, LabelledCache(keys, ctx),
           NEW i \in 0 .. layout.segment_count - 1, NEW presented
    PROVE  OpensAtPosition(decrypt_result(keys, ctx, presented, SegmentAt(layout, i), TRUE, "none"),
                           ctx, presented, i)
<1> DEFINE g == SegmentAt(layout, i)
           r == decrypt_result(keys, ctx, presented, g, TRUE, "none")
           opening == decrypt_segment_at(keys, ctx, presented, i, g.kind, TRUE, "none")
<1>1. g.position = i /\ g.parameters = SegmentLength
  BY SegmentFields
<1>2. ctx.parameters = SegmentLength
  BY MessageParameters
<1>3. r = IF presented.length = g.ciphertext_length
          THEN opening ELSE Failed(keys, "InvalidCiphertextLength")
  BY <1>1, <1>2 DEF decrypt_result
<1>4. presented.length = g.ciphertext_length => OpensAt(opening, ctx, presented, i)
  BY OpeningForm
<1>5. \A x, y : ~Failed(x, y).ok
  BY DEF Failed
<1> HIDE DEF r, opening
<1> QED BY <1>3, <1>4, <1>5 DEF r, OpensAt, OpensAtPosition

(* The raw call takes the segment from the front of longer storage; what   *)
(* is cut out of a segment of another length is not authentic.             *)
LEMMA RawResultForm ==
    ASSUME NEW keys, NEW ctx \in {context, foreign}, LabelledCache(keys, ctx),
           NEW i \in 0 .. layout.segment_count - 1, NEW spare \in Nat,
           NEW presented, {"length", "damaged"} \subseteq DOMAIN presented
    PROVE  OpensAtPosition(
               decrypt_raw_result(keys, ctx, presented, spare, SegmentAt(layout, i), "none"),
               ctx, presented, i)
<1> DEFINE g == SegmentAt(layout, i)
           r == decrypt_raw_result(keys, ctx, presented, spare, g, "none")
           cut == segment_at_front(presented, g.ciphertext_length)
           opening == decrypt_segment_at(keys, ctx, cut, i, g.kind, TRUE, "none")
<1>1. g.position = i /\ g.parameters = SegmentLength /\ g.ciphertext_length \in Nat
  <2>1. /\ g.position = i /\ g.parameters = SegmentLength
        /\ g.ciphertext_length = SEGMENT_OVERHEAD + PayloadAt(layout, i)
    BY SegmentFields
  <2>2. PayloadAt(layout, i) \in Nat
    BY MessageLayoutIsGood, SegmentBounds, SharedStatesAssumption, SegmentLengths
  <2>3. SEGMENT_OVERHEAD \in Nat
    BY SharedStatesAssumption, SegmentLengths
  <2> QED BY <2>1, <2>2, <2>3
<1>2. ctx.parameters = SegmentLength
  BY MessageParameters
<1>3. r = IF presented.length + spare >= g.ciphertext_length
          THEN opening ELSE Failed(keys, "InvalidCiphertextLength")
  BY <1>1, <1>2 DEF decrypt_raw_result
<1>4. /\ cut.length = g.ciphertext_length
      /\ presented.length = g.ciphertext_length => cut = presented
      /\ presented.length # g.ciphertext_length => cut.damaged
  BY DEF segment_at_front
<1>5. OpensAt(opening, ctx, cut, i)
  BY <1>4, OpeningForm
<1>6. \A x, y : ~Failed(x, y).ok
  BY DEF Failed
<1> HIDE DEF r, opening, cut, g
<1>7. CASE presented.length = g.ciphertext_length
  <2>1. r = opening /\ cut = presented
    BY <1>1, <1>3, <1>4, <1>7
  <2> QED BY <1>5, <1>7, <2>1 DEF r, g, OpensAt, OpensAtPosition
<1>8. CASE presented.length # g.ciphertext_length
  <2>1. ~opening.ok
    BY <1>4, <1>5, <1>8 DEF OpensAt, opens
  <2> QED BY <1>3, <1>6, <1>8, <2>1 DEF r, g, OpensAtPosition
<1> QED BY <1>7, <1>8

(* A result of that form is exact, for anything that is presented.         *)
LEMMA FormIsExact ==
    ASSUME SealedInv, NEW ctx \in {context, foreign}, NEW presented \in Presented \cup Stored,
           NEW i \in 0 .. layout.segment_count - 1, NEW r, OpensAtPosition(r, ctx, presented, i)
    PROVE  AcceptsExactly(r, ctx, presented, SegmentAt(layout, i))
<1> DEFINE segment == SegmentAt(layout, i)
           key == derive_segment_key(ctx, masked_position(i))
<1>1. /\ segment.position = i /\ segment.kind = KindAt(layout, i)
      /\ segment.ciphertext_length = SEGMENT_OVERHEAD + PayloadAt(layout, i)
  BY SegmentFields
<1>2. /\ r.ok <=> /\ presented.length = segment.ciphertext_length
                  /\ presented.prefix = segment_prefix(segment.kind, presented.length)
                  /\ opens(key, presented, i, segment.kind)
      /\ r.ok => r.plaintext = presented.plaintext
  BY DEF OpensAtPosition
<1>3. PICK s \in sealed \cup Foreign :
        /\ presented.key = s.key /\ presented.position = s.position
        /\ presented.kind = s.kind /\ presented.plaintext = s.plaintext
        /\ ~presented.damaged => presented.length = s.length
  BY PresentedForm
<1>4. PICK from \in {context, foreign} : SealedUnder(s, from)
  BY SealedSegments
<1>5. key[1] = ctx.message /\ s.key[1] = from.message
  BY <1>4 DEF SealedUnder, derive_segment_key
<1> HIDE DEF key, segment
<1>6. ASSUME r.ok
      PROVE  /\ ~presented.damaged
             /\ presented.prefix = segment_prefix(segment.kind, presented.length)
             /\ presented.key[1] = ctx.message
             /\ presented.position = segment.position
  BY <1>1, <1>2, <1>5, <1>6 DEF opens
<1>7. ASSUME ~presented.damaged,
              presented.prefix = segment_prefix(segment.kind, presented.length),
              presented.key[1] = ctx.message,
              presented.position = segment.position
       PROVE  r.ok
  <2>1. s.position = i
    BY <1>1, <1>3, <1>7
  <2>2. presented.key = key
    BY <1>3, <1>4, <1>5, <1>7, <2>1 DEF SealedUnder, derive_segment_key, key
  <2>3. presented.kind = segment.kind /\ presented.length = segment.ciphertext_length
    BY <1>1, <1>3, <1>4, <1>7, <2>1 DEF SealedUnder
  <2> QED BY <1>1, <1>2, <1>7, <2>2, <2>3 DEF opens
<1>8. r.ok => \E x \in sealed \cup Foreign :
                  /\ x.key[1] = ctx.message
                  /\ x.position = segment.position
                  /\ r.plaintext = x.plaintext
  BY <1>2, <1>3, <1>6
<1> QED BY <1>6, <1>7, <1>8 DEF AcceptsExactly, segment

(* A labelled cache and sealed segments make decryption exact. *)
LEMMA InvGivesExactness == SharedInv => DecryptionIsExact
<1>0. SUFFICES ASSUME SharedInv PROVE DecryptionIsExact
  OBVIOUS
<1>1. SUFFICES ASSUME NEW t \in DecTasks, NEW keys \in dec[t], NEW ctx \in decContext,
                      NEW segment \in Segments
               PROVE  /\ \A presented \in Presented :
                            AcceptsExactly(decrypt_result(keys, ctx, presented, segment, TRUE,
                                                          "none"),
                                           ctx, presented, segment)
                      /\ \A presented \in Stored, spare \in Spare :
                            AcceptsExactly(decrypt_raw_result(keys, ctx, presented, spare, segment,
                                                              "none"),
                                           ctx, presented, segment)
  BY DEF DecryptionIsExact
<1>2. SealedInv /\ LabelledCache(keys, ctx) /\ ctx \in {context, foreign}
  BY <1>0 DEF SharedInv, EncInv, DecInv
<1>3. PICK i \in 0 .. layout.segment_count - 1 : segment = SegmentAt(layout, i)
  BY SegmentsLaidOut
<1>4. ASSUME NEW presented \in Presented
      PROVE  AcceptsExactly(decrypt_result(keys, ctx, presented, segment, TRUE, "none"),
                            ctx, presented, segment)
  BY <1>2, <1>3, DecryptResultForm, FormIsExact
<1>5. ASSUME NEW presented \in Stored, NEW spare \in Spare
      PROVE  AcceptsExactly(decrypt_raw_result(keys, ctx, presented, spare, segment, "none"),
                            ctx, presented, segment)
  <2>1. spare \in Nat
    BY SharedStatesAssumption, SegmentLengths DEF Spare
  <2>2. {"length", "damaged"} \subseteq DOMAIN presented
    BY <1>2, StoredFields
  <2>3. OpensAtPosition(decrypt_raw_result(keys, ctx, presented, spare, segment, "none"),
                        ctx, presented, i)
    BY <1>2, <1>3, <2>1, <2>2, RawResultForm
  <2> QED BY <1>2, <1>3, <2>3, FormIsExact
<1> QED BY <1>4, <1>5

(* Decrypting at a layout position accepts exactly the segment that some   *)
(* task sealed for it under the same message, after whatever positions     *)
(* and failures, and returns its plaintext.                                *)
THEOREM ExactDecryption == Spec => []DecryptionIsExact
BY InvGivesExactness, SharedInvariance, PTL

-----------------------------------------------------------------------------
(* Workers: in-place calls on buffers that are used again. *)

Used(b, g) ==
    /\ ~holds_plaintext(b)
    /\ b.segment \subseteq {s \in sealed : s.position = g.position}

Opened(b, g) ==
    /\ ~holds_ciphertext(b)
    /\ holds_plaintext(b) =>
          \E s \in sealed \cup Foreign :
             /\ decContext = Some([parameters |-> SegmentLength, message |-> s.key[1]])
             /\ s.position = g.position
             /\ s.plaintext = plaintext_of(b.payload)

(* What a buffer may hold, given what its task did last. *)
BufferInv(b, o) ==
    /\ IsBuffer(b)
    /\ holds_ciphertext(b) => \E s \in Arriving : b.segment = Some(s)
    /\ \/ o = From("caller", None)
       \/ \E g : o = From("used", Some(g)) /\ Used(b, g)
       \/ \E g : o = From("opened", Some(g)) /\ Opened(b, g)

WorkerInv ==
    /\ SharedInv
    /\ DOMAIN buffers = Workers /\ DOMAIN origin = Workers
    /\ \A s \in sealed : s.plaintext = plaintext_of(s.plaintext.data)
    /\ \A t \in Workers : BufferInv(buffers[t], origin[t])

(* More segments and a first decryption context take nothing away. *)
LEMMA BufferInvStable ==
    ASSUME NEW b, NEW o, BufferInv(b, o), sealed \subseteq sealed',
           decContext' = decContext \/ decContext = None
    PROVE  BufferInv(b, o)'
<1>1. Foreign' = Foreign
  BY DEF Foreign, PlaintextOf, Segments
<1>2. Arriving \subseteq Arriving'
  BY <1>1 DEF Arriving
<1>3. \A g : Used(b, g) => Used(b, g)'
  BY DEF Used, holds_plaintext
<1>4. \A g : Opened(b, g) => Opened(b, g)'
  <2>1. SUFFICES ASSUME NEW g, Opened(b, g), holds_plaintext(b)
                 PROVE  \E s \in sealed' \cup Foreign' :
                           /\ decContext' = Some([parameters |-> SegmentLength,
                                                  message |-> s.key[1]])
                           /\ s.position = g.position
                           /\ s.plaintext = plaintext_of(b.payload)
    BY DEF Opened, holds_plaintext, holds_ciphertext
  <2>2. PICK s \in sealed \cup Foreign :
           /\ decContext = Some([parameters |-> SegmentLength, message |-> s.key[1]])
           /\ s.position = g.position
           /\ s.plaintext = plaintext_of(b.payload)
    BY <2>1 DEF Opened
  <2>3. decContext' = decContext
    BY <2>2, ChooseSome
  <2> QED BY <1>1, <2>2, <2>3
<1>5. IsBuffer(b)' <=> IsBuffer(b)
  BY DEF IsBuffer
<1>6. holds_ciphertext(b)' <=> holds_ciphertext(b)
  BY DEF holds_ciphertext
<1> QED BY <1>2, <1>3, <1>4, <1>5, <1>6 DEF BufferInv

(* An accepted segment opens under the key of the position asked for, and  *)
(* yields the plaintext it was sealed with.                                *)
AuthenticOpening(r, ctx, presented, segment) ==
    r.ok =>
       /\ opens(derive_segment_key(ctx, masked_position(segment.position)),
                presented, segment.position, segment.kind)
       /\ r.plaintext = presented.plaintext

(* An opening that succeeds authenticated the segment under the key of the *)
(* position it was asked for.                                              *)
LEMMA OpenedIsAuthentic ==
    ASSUME NEW keys, NEW ctx, LabelledCache(keys, ctx), NEW presented, NEW segment,
           segment.position \in Nat, NEW fault,
           NEW r, r = decrypt_result(keys, ctx, presented, segment, TRUE, fault)
    PROVE  AuthenticOpening(r, ctx, presented, segment)
<1> SUFFICES ASSUME r.ok
             PROVE  /\ opens(derive_segment_key(ctx, masked_position(segment.position)),
                             presented, segment.position, segment.kind)
                    /\ r.plaintext = presented.plaintext
  BY DEF AuthenticOpening
<1> DEFINE i == segment.position
           found == key_cache_after(keys, ctx, i, fault)
<1>1. /\ key_for_position_ok(keys, i, fault)
      /\ opens(key_of(found), presented, i, segment.kind)
      /\ r.plaintext = presented.plaintext
  BY DEF decrypt_result, decrypt_segment_at, open_segment, Failed
<1>2. key_of(found) = derive_segment_key(ctx, masked_position(i))
  BY <1>1, LookupReturnsKey
<1> QED BY <1>1, <1>2

LEMMA InitWorkersIsGood == InitWorkers => WorkerInv
<1> SUFFICES ASSUME InitWorkers PROVE WorkerInv
  OBVIOUS
<1>1. SharedInv /\ sealed = {}
  BY InitIsGood DEF InitWorkers, Init
<1>2. DOMAIN buffers = Workers /\ DOMAIN origin = Workers
  BY DEF InitWorkers
<1>3. ASSUME NEW t \in Workers PROVE BufferInv(buffers[t], origin[t])
  <2>1. PICK p : buffers[t] = buffer_new(p)
    BY DEF InitWorkers
  <2>2. origin[t] = From("caller", None)
    BY DEF InitWorkers
  <2>3. buffers[t] = Buffer(p, "Empty", <<>>, None)
    BY <2>1 DEF buffer_new, Buffer
  <2>4. IsBuffer(buffers[t]) /\ ~holds_ciphertext(buffers[t])
    BY <2>3, BufferFields
  <2> QED BY <2>2, <2>4 DEF BufferInv
<1> QED BY <1>1, <1>2, <1>3 DEF WorkerInv

(* A step that only changes one task's buffer, to one that is honest about *)
(* its new origin, and that seals nothing.                                 *)
LEMMA BufferStep ==
    ASSUME WorkerInv, SharedInv', NEW t \in Workers, NEW b, NEW o,
           buffers' = [buffers EXCEPT ![t] = b], origin' = [origin EXCEPT ![t] = o],
           BufferInv(b, o)', sealed \subseteq sealed', decContext' = decContext,
           \A s \in sealed' : s.plaintext = plaintext_of(s.plaintext.data)
    PROVE  WorkerInv'
<1>1. DOMAIN buffers = Workers /\ DOMAIN origin = Workers
  BY DEF WorkerInv
<1>2. /\ DOMAIN buffers' = Workers /\ buffers'[t] = b
      /\ \A u \in Workers \ {t} : buffers'[u] = buffers[u]
  BY <1>1, OptionStep
<1>3. /\ DOMAIN origin' = Workers /\ origin'[t] = o
      /\ \A u \in Workers \ {t} : origin'[u] = origin[u]
  BY <1>1, OptionStep
<1>4. ASSUME NEW u \in Workers PROVE BufferInv(buffers[u], origin[u])'
  <2>1. CASE u = t
    BY <1>2, <1>3, <2>1
  <2>2. CASE u # t
    <3>1. PICK c, q : c = buffers[u] /\ q = origin[u]
      OBVIOUS
    <3>2. BufferInv(c, q)
      BY <3>1 DEF WorkerInv
    <3>3. BufferInv(c, q)'
      BY <3>2, BufferInvStable
    <3>4. buffers'[u] = c /\ origin'[u] = q
      BY <1>2, <1>3, <2>2, <3>1
    <3> QED BY <3>3, <3>4
  <2> QED BY <2>1, <2>2
<1>5. Workers' = Workers
  BY DEF Workers
<1> QED BY <1>2, <1>3, <1>4, <1>5 DEF WorkerInv

LEMMA PrepareKeepsInv ==
    ASSUME WorkerInv, NEW t \in Workers, NEW segment, prepare(t, segment)
    PROVE  WorkerInv'
<1> DEFINE x == PlaintextOf(segment).data
<1>1. PICK b : b = prepare_plaintext(buffers[t], x)
  OBVIOUS
<1>2. IsBuffer(buffers[t])
  BY DEF WorkerInv, BufferInv
<1>3. IsBuffer(b) /\ ~holds_ciphertext(b)
  BY <1>1, <1>2, BufferOperations, BufferFields
<1>4. BufferInv(b, From("caller", None))'
  BY <1>3 DEF BufferInv, IsBuffer, holds_ciphertext
<1>5. SharedInv' /\ sealed' = sealed /\ decContext' = decContext
  BY NextIsGood DEF WorkerInv, prepare, vars, encVars, decVars
<1>6. buffers' = [buffers EXCEPT ![t] = b] /\ origin' = [origin EXCEPT ![t] = From("caller", None)]
  BY <1>1 DEF prepare, WorkerInv
<1> QED BY <1>4, <1>5, <1>6, BufferStep DEF WorkerInv

LEMMA LoadKeepsInv ==
    ASSUME WorkerInv, NEW t \in DecTasks, NEW presented \in Arriving, load(t, presented)
    PROVE  WorkerInv'
<1>0. t \in Workers
  BY DEF Workers
<1>1. PICK b : b = prepare_ciphertext(buffers[t], presented)
  OBVIOUS
<1>2. IsBuffer(buffers[t])
  BY <1>0 DEF WorkerInv, BufferInv
<1>3. IsBuffer(b) /\ b.segment = Some(presented)
  BY <1>1, <1>2, BufferOperations, BufferFields
<1>4. SharedInv' /\ sealed' = sealed /\ decContext' = decContext
  BY NextIsGood DEF WorkerInv, load, vars, encVars, decVars
<1>5. Arriving' = Arriving
  BY <1>4 DEF Arriving, Foreign, PlaintextOf, Segments
<1>6. BufferInv(b, From("caller", None))'
  BY <1>3, <1>5 DEF BufferInv, IsBuffer
<1>7. buffers' = [buffers EXCEPT ![t] = b] /\ origin' = [origin EXCEPT ![t] = From("caller", None)]
  BY <1>0, <1>1 DEF load, WorkerInv
<1> QED BY <1>0, <1>4, <1>6, <1>7, BufferStep DEF WorkerInv

(* A successful call leaves the sealed segment in the buffer, a failed one *)
(* nothing (EncryptionState::encrypt_segment_in_place).                    *)
LEMMA EncryptInPlaceKeepsInv ==
    ASSUME WorkerInv, NEW t \in EncTasks, NEW segment \in Segments, NEW fault,
           encrypt_segment_in_place(t, segment, fault)
    PROVE  WorkerInv'
<1>0. t \in Workers /\ IsBuffer(buffers[t])
  BY DEF Workers, WorkerInv, BufferInv
<1>1. PICK plaintext : plaintext = plaintext_of(buffers[t].payload)
  OBVIOUS
<1>2. plaintext.length = segment.plaintext_length /\ plaintext = plaintext_of(plaintext.data)
  BY <1>1 DEF encrypt_segment_in_place, refuses_segment, plaintext_of
<1>3. PICK state \in enc[t] :
        LET r == encrypt_segment(state, context, plaintext, segment.position, segment.kind,
                                 TRUE, fault, drawn + 1)
            answer == IF r.ok THEN Some(r.segment) ELSE None
        IN  /\ enc' = [enc EXCEPT ![t] = Some(r.state)]
            /\ drawn' = IF r.state.nonces.batch = drawn + 1 THEN drawn + 1 ELSE drawn
            /\ sealed' = sealed \cup answer
            /\ buffers' = [buffers EXCEPT ![t] = after_encryption(@, answer)]
  BY <1>1 DEF encrypt_segment_in_place
<1>4. PICK r : r = encrypt_segment(state, context, plaintext, segment.position, segment.kind,
                                   TRUE, fault, drawn + 1)
  OBVIOUS
<1>5. PICK answer : answer = IF r.ok THEN Some(r.segment) ELSE None
  OBVIOUS
<1>6. /\ enc' = [enc EXCEPT ![t] = Some(r.state)]
      /\ drawn' = IF r.state.nonces.batch = drawn + 1 THEN drawn + 1 ELSE drawn
      /\ sealed' = sealed \cup answer
      /\ buffers' = [buffers EXCEPT ![t] = after_encryption(@, answer)]
  BY <1>3, <1>4, <1>5
<1>7. r.ok => /\ r.segment.position = segment.position
              /\ r.segment.plaintext = plaintext
  BY <1>4, SealFields DEF encrypt_segment, Failed
<1>8. sealed' = IF r.ok THEN sealed \cup {r.segment} ELSE sealed
  BY <1>5, <1>6 DEF Some, None
<1>9. EncryptedAt(t, segment, plaintext, TRUE, fault)
  BY <1>2, <1>4, <1>6, <1>8 DEF EncryptedAt, encrypt_segment_in_place
<1>10. SharedInv'
  <2>1. EncInv'
    BY <1>9, EncryptKeepsInv DEF WorkerInv, SharedInv
  <2>2. DecInv'
    BY DEF WorkerInv, SharedInv, encrypt_segment_in_place, decVars, DecInv
  <2> QED BY <2>1, <2>2 DEF SharedInv
<1>11. decContext' = decContext /\ sealed \subseteq sealed'
  BY <1>8 DEF encrypt_segment_in_place, decVars
<1>12. PICK b : b = after_encryption(buffers[t], answer)
  OBVIOUS
<1>13. PICK o : o = From("used", Some(segment))
  OBVIOUS
<1>14. BufferInv(b, o)'
  <2>1. CASE r.ok
    <3>1. answer = Some(r.segment) /\ r.segment \in sealed'
      BY <1>5, <1>8, <2>1
    <3>2. b = mark_ciphertext(buffers[t], r.segment)
      <4>1. (CHOOSE s \in answer : TRUE) = r.segment /\ answer # None
        BY <3>1, ChooseSome
      <4> QED BY <1>12, <4>1 DEF after_encryption
    <3>3. /\ IsBuffer(b) /\ ~holds_plaintext(b) /\ b.segment = Some(r.segment)
      BY <1>0, <3>2, BufferOperations, BufferFields
    <3>4. Used(b, segment)'
      BY <1>7, <2>1, <3>1, <3>3 DEF Used, holds_plaintext, Some
    <3>5. r.segment \in Arriving'
      BY <3>1 DEF Arriving
    <3> QED BY <1>13, <3>3, <3>4, <3>5 DEF BufferInv, IsBuffer
  <2>2. CASE ~r.ok
    <3>1. b = clear(buffers[t])
      BY <1>5, <1>12, <2>2 DEF after_encryption
    <3>2. IsBuffer(b) /\ ~holds_plaintext(b) /\ ~holds_ciphertext(b) /\ b.segment = {}
      BY <1>0, <3>1, BufferOperations, BufferFields DEF None
    <3>3. Used(b, segment)'
      BY <3>2 DEF Used, holds_plaintext
    <3> QED BY <1>13, <3>2, <3>3 DEF BufferInv, IsBuffer, holds_ciphertext
  <2> QED BY <2>1, <2>2
<1>15. buffers' = [buffers EXCEPT ![t] = b]
  BY <1>0, <1>6, <1>12 DEF WorkerInv
<1>16. origin' = [origin EXCEPT ![t] = o]
  BY <1>13 DEF encrypt_segment_in_place
<1>17. \A s \in sealed' : s.plaintext = plaintext_of(s.plaintext.data)
  BY <1>2, <1>7, <1>8 DEF WorkerInv
<1> QED BY <1>0, <1>10, <1>11, <1>14, <1>15, <1>16, <1>17, BufferStep

(* A successful call leaves the authenticated plaintext in the buffer, a   *)
(* failed one nothing (DecryptionState::decrypt_segment_in_place).         *)
LEMMA DecryptInPlaceKeepsInv ==
    ASSUME WorkerInv, NEW t \in DecTasks, NEW segment \in Segments, NEW fault,
           decrypt_segment_in_place(t, segment, fault)
    PROVE  WorkerInv'
<1>0. t \in Workers /\ IsBuffer(buffers[t]) /\ DOMAIN dec = DecTasks
  BY DEF Workers, WorkerInv, BufferInv, SharedInv, DecInv
<1>1. PICK keys \in dec[t], ctx \in decContext :
        LET r == opened_in_place(keys, ctx, buffers[t], segment, fault)
            answer == IF r.ok THEN Some(r.plaintext) ELSE None
        IN  /\ dec' = [dec EXCEPT ![t] = Some(r.state)]
            /\ buffers' = [buffers EXCEPT ![t] = decrypt_with(@, answer)]
  BY DEF decrypt_segment_in_place
<1>2. PICK r : r = opened_in_place(keys, ctx, buffers[t], segment, fault)
  OBVIOUS
<1>3. PICK answer : answer = IF r.ok THEN Some(r.plaintext) ELSE None
  OBVIOUS
<1>4. PICK b : b = decrypt_with(buffers[t], answer)
  OBVIOUS
<1>5. /\ dec' = [dec EXCEPT ![t] = Some(r.state)]
      /\ buffers' = [buffers EXCEPT ![t] = b]
  BY <1>0, <1>1, <1>2, <1>3, <1>4 DEF WorkerInv
<1>6. /\ decContext' = decContext /\ decShared' = decShared
      /\ sealed' = sealed /\ UNCHANGED encVars
  BY DEF decrypt_segment_in_place, encVars
<1>7. LabelledCache(keys, ctx) /\ ctx \in {context, foreign} /\ decContext = {ctx}
  BY DEF WorkerInv, SharedInv, DecInv
<1>8. LabelledCache(r.state, ctx)
  BY <1>2, <1>7, DecryptKeepsLabels DEF opened_in_place, Failed
<1>9. SharedInv'
  <2>1. EncInv' /\ header' = header
    BY <1>6 DEF WorkerInv, SharedInv, encVars, EncInv, EncTasksInv, EncryptionStateInv, SealedInv
  <2>2. /\ DOMAIN dec' = DecTasks /\ dec'[t] = {r.state}
        /\ \A u \in DecTasks \ {t} : dec'[u] = dec[u]
    BY <1>0, <1>5, OptionStep DEF Some
  <2>3. \A u \in DecTasks : \A k \in dec'[u], x \in decContext' : LabelledCache(k, x)
    BY <1>6, <1>7, <1>8, <2>2 DEF WorkerInv, SharedInv, DecInv
  <2>4. DecInv'
    BY <1>6, <1>7, <2>1, <2>2, <2>3 DEF WorkerInv, SharedInv, DecInv, None
  <2> QED BY <2>1, <2>4 DEF SharedInv
<1>10. PICK o : o = From("opened", Some(segment))
  OBVIOUS
<1>11. BufferInv(b, o)'
  <2>1. CASE ~r.ok
    <3>1. b = clear(buffers[t])
      BY <1>3, <1>4, <2>1 DEF decrypt_with
    <3>2. IsBuffer(b) /\ ~holds_plaintext(b) /\ ~holds_ciphertext(b)
      BY <1>0, <3>1, BufferOperations, BufferFields
    <3>3. Opened(b, segment)'
      BY <3>2 DEF Opened, holds_plaintext, holds_ciphertext
    <3> QED BY <1>10, <3>2, <3>3 DEF BufferInv, IsBuffer, holds_ciphertext
  <2>2. CASE r.ok
    <3>1. holds_ciphertext(buffers[t])
      BY <1>2, <2>2 DEF opened_in_place, Failed
    <3>2. PICK presented \in Arriving : buffers[t].segment = Some(presented)
      BY <1>0, <3>1 DEF WorkerInv, BufferInv
    <3>3. (CHOOSE s \in buffers[t].segment : TRUE) = presented
      BY <3>2, ChooseSome
    <3>4. r = decrypt_result(keys, ctx, presented, segment, TRUE, fault)
      BY <1>2, <2>2, <3>3 DEF opened_in_place, Failed
    <3>5. segment.position \in Nat
      BY SegmentsLaidOut, SegmentFields
    <3>6. /\ opens(derive_segment_key(ctx, masked_position(segment.position)),
                   presented, segment.position, segment.kind)
          /\ r.plaintext = presented.plaintext
      <4>1. LabelledCache(keys, ctx)
        BY <1>7
      <4>2. AuthenticOpening(r, ctx, presented, segment)
        BY <3>4, <3>5, <4>1, OpenedIsAuthentic
      <4> QED BY <2>2, <4>2 DEF AuthenticOpening
    <3>7. PICK s \in sealed \cup Foreign :
            /\ presented.key = s.key /\ presented.position = s.position
            /\ presented.plaintext = s.plaintext
      BY PresentedForm DEF WorkerInv, SharedInv, EncInv, Presented
    <3>8. s.key[1] = ctx.message /\ s.position = segment.position
      BY <3>6, <3>7 DEF opens, derive_segment_key
    <3>9. decContext' = Some([parameters |-> SegmentLength, message |-> s.key[1]])
      <4>1. ctx = [parameters |-> SegmentLength, message |-> ctx.message]
        <5>1. /\ context = [parameters |-> SegmentLength, message |-> context.message]
              /\ foreign = [parameters |-> SegmentLength, message |-> foreign.message]
          BY DEF context, foreign, Context
        <5> QED BY <1>7, <5>1
      <4> QED BY <1>6, <1>7, <3>8, <4>1 DEF Some
    <3>10. s.plaintext = plaintext_of(s.plaintext.data)
      <4>1. CASE s \in sealed
        BY <4>1 DEF WorkerInv
      <4>2. CASE s \in Foreign
        <5>1. PICK g \in Segments : s.plaintext = PlaintextOf(g)
          BY <4>2, SealFields DEF Foreign
        <5>2. PICK i \in 0 .. layout.segment_count - 1 : g = SegmentAt(layout, i)
          BY SegmentsLaidOut
        <5>3. g.plaintext_length \in Nat
          BY <5>2, SegmentFields, SegmentBounds, MessageLayoutIsGood, SegmentLengths,
             SharedStatesAssumption
        <5>4. Len(PlaintextOf(g).data) = g.plaintext_length
          BY <5>3 DEF PlaintextOf
        <5>5. PlaintextOf(g) = plaintext_of(PlaintextOf(g).data)
          BY <5>4 DEF PlaintextOf, plaintext_of
        <5> QED BY <5>1, <5>5
      <4> QED BY <3>7, <4>1, <4>2
    <3>11. b = prepare_plaintext(buffers[t], s.plaintext.data)
      <4>1. answer = Some(s.plaintext)
        BY <1>3, <2>2, <3>6, <3>7
      <4>2. (CHOOSE p \in answer : TRUE) = s.plaintext /\ answer # None
        BY <4>1, ChooseSome
      <4> QED BY <1>4, <4>2 DEF decrypt_with
    <3>12. IsBuffer(b) /\ ~holds_ciphertext(b) /\ b.payload = s.plaintext.data
      BY <1>0, <3>11, BufferOperations, BufferFields
    <3>13. s \in sealed' \cup Foreign'
      BY <1>6 DEF Foreign, PlaintextOf, Segments
    <3>14. Opened(b, segment)'
      BY <3>8, <3>9, <3>10, <3>12, <3>13 DEF Opened, holds_ciphertext
    <3> QED BY <1>10, <3>12, <3>14 DEF BufferInv, IsBuffer, holds_ciphertext
  <2> QED BY <2>1, <2>2
<1>12. origin' = [origin EXCEPT ![t] = o]
  BY <1>10 DEF decrypt_segment_in_place
<1> QED BY <1>0, <1>5, <1>6, <1>9, <1>11, <1>12, BufferStep DEF WorkerInv

LEMMA LifecycleKeepsInv ==
    ASSUME WorkerInv, Lifecycle \/ UNCHANGED vars, UNCHANGED <<buffers, origin>>
    PROVE  WorkerInv'
<1>1. [Next]_vars
  BY DEF Lifecycle, Next
<1>2. SharedInv'
  BY <1>1, NextIsGood DEF WorkerInv
<1>3. sealed' = sealed /\ (decContext' = decContext \/ decContext = None)
  BY DEF Lifecycle, start_encryption, into_shared_encryption, fork_encryption,
         start_decryption, into_shared_decryption, fork_decryption, vars, encVars, decVars
<1>4. ASSUME NEW t \in Workers PROVE BufferInv(buffers[t], origin[t])'
  <2>1. PICK b, o : b = buffers[t] /\ o = origin[t]
    OBVIOUS
  <2>2. BufferInv(b, o)
    BY <2>1 DEF WorkerInv
  <2>3. BufferInv(b, o)'
    BY <1>3, <2>2, BufferInvStable
  <2>4. buffers'[t] = b /\ origin'[t] = o
    BY <2>1
  <2> QED BY <2>3, <2>4
<1>5. Workers' = Workers
  BY DEF Workers
<1> QED BY <1>2, <1>3, <1>4, <1>5 DEF WorkerInv

LEMMA NextWorkersIsGood == WorkerInv /\ [NextWorkers]_workerVars => WorkerInv'
BY PrepareKeepsInv, LoadKeepsInv, EncryptInPlaceKeepsInv, DecryptInPlaceKeepsInv,
   LifecycleKeepsInv DEF NextWorkers, workerVars

LEMMA WorkerInvariance == SpecWorkers => []WorkerInv
BY InitWorkersIsGood, NextWorkersIsGood, PTL DEF SpecWorkers

(* A buffer that a task uses again never passes for more than it is: no    *)
(* payload outlives an encryption that began on it, and what a decryption  *)
(* leaves is the authenticated plaintext of the segment asked for.         *)
THEOREM HonestBuffers == SpecWorkers => []BuffersAreHonest
<1>1. WorkerInv => BuffersAreHonest
  <2> SUFFICES ASSUME WorkerInv PROVE BuffersAreHonest
    OBVIOUS
  <2>1. ASSUME NEW t \in Workers, NEW g \in origin[t].segment
        PROVE  \/ origin[t].kind = "used" /\ Used(buffers[t], g)
               \/ origin[t].kind = "opened" /\ Opened(buffers[t], g)
    BY <2>1 DEF WorkerInv, BufferInv, From, Some, None
  <2> QED BY <2>1 DEF BuffersAreHonest, Used, Opened
<1> QED BY <1>1, WorkerInvariance, PTL

(* In-place calls keep what the copying calls guarantee: no two segments   *)
(* share a key and a nonce, keys rotate, headers are authentic, and        *)
(* decryption is exact.                                                    *)
THEOREM WorkersKeepGuarantees ==
    SpecWorkers => [](NoncesAreUnique /\ KeysRotate /\ HeadersAreAuthentic /\ DecryptionIsExact)
<1>1. SharedInv => NoncesAreUnique /\ KeysRotate /\ HeadersAreAuthentic /\ DecryptionIsExact
  BY InvGivesNonces, InvGivesRotation, InvGivesHeaders, InvGivesExactness
<1>2. WorkerInv => SharedInv
  BY DEF WorkerInv
<1> QED BY <1>1, <1>2, WorkerInvariance, PTL

-----------------------------------------------------------------------------
(* The layout constructors and the double-ended iterator, for every        *)
(* format: the references of Layout, the round trip between the two        *)
(* constructors, and what the iterator has yielded after any interleaving  *)
(* of next and next_back.                                                  *)

(* The layout of a request that succeeded. *)
RequestInv == request \in Requests /\ result = layout_for(request)

(* The facts about a request that every proof below starts from. *)
LEMMA RequestFields ==
    ASSUME RequestInv
    PROVE  /\ request.parameters \in VALID_SEGMENT_LENGTHS
           /\ request.length \in Nat /\ request.length <= U64_MAX
           /\ request.from \in {"plaintext", "ciphertext"}
           /\ request.from = "plaintext" =>
                 result = plaintext_layout(request.parameters, request.length)
           /\ request.from = "ciphertext" =>
                 result = ciphertext_layout(request.parameters, request.length)
BY LayoutAssumption, ParametersAssumption DEF RequestInv, Requests, layout_for

(* Every layout that a constructor returns is good, and its ciphertext     *)
(* length is a u64.                                                        *)
LEMMA ResultIsGood ==
    ASSUME RequestInv, result.ok
    PROVE  /\ GoodLayout(result.value)
           /\ result.value.parameters = request.parameters
           /\ result.value.ciphertext_length <= U64_MAX
<1>1. CASE request.from = "plaintext"
  <2>1. /\ GoodLayout(result.value) /\ result.value.ciphertext_length <= U64_MAX
        /\ result.value = LayoutRecord(request.parameters, request.length,
               CiphertextLengthFor(request.parameters, request.length),
               SegmentCountFor(request.parameters, request.length))
    BY <1>1, RequestFields, PlaintextLayoutIsGood
  <2> QED BY <2>1, LayoutFields
<1>2. CASE request.from = "ciphertext"
  BY <1>2, RequestFields, CiphertextLayoutIsGood
<1> QED BY <1>1, <1>2, RequestFields

-----------------------------------------------------------------------------
(* The constructors against their references. *)

(* plaintext_layout succeeds exactly when some admissible number of        *)
(* segments holds the message, and returns the least.                      *)
LEMMA PlaintextIsLeast == RequestInv => PlaintextLayoutIsLeast
<1> SUFFICES ASSUME RequestInv, request.from = "plaintext"
             PROVE  PlaintextLayoutIsLeast
  BY DEF PlaintextLayoutIsLeast
<1> DEFINE p == request.parameters
           n == request.length
           d == plaintext_segment_length(p)
           count == SegmentCountFor(p, n)
           Holds(k) == k * d >= n
           Fits(k) == HEADER_LENGTH + n + k * SEGMENT_OVERHEAD <= U64_MAX
           Counts == {k \in 1 .. AEAD_MAX_SEGMENTS : Holds(k) /\ Fits(k)}
<1>1. p \in VALID_SEGMENT_LENGTHS /\ n \in Nat /\ result = plaintext_layout(p, n)
  BY RequestFields
<1>2. /\ d \in Nat \ {0} /\ SEGMENT_OVERHEAD \in Nat /\ HEADER_LENGTH \in Nat
      /\ AEAD_MAX_SEGMENTS \in Nat /\ U64_MAX \in Nat
  BY <1>1, SegmentLengths, ParametersAssumption
<1>3. /\ count \in Nat \ {0} /\ n <= count * d /\ (count > 1 => (count - 1) * d < n)
      /\ CiphertextLengthFor(p, n) = HEADER_LENGTH + n + count * SEGMENT_OVERHEAD
  BY <1>1, SegmentCountBounds DEF CiphertextLengthFor
<1>4. result.ok <=> count <= AEAD_MAX_SEGMENTS /\ CiphertextLengthFor(p, n) <= U64_MAX
  BY <1>1, PlaintextLayoutForm
<1>5. result.ok => result.value.segment_count = count
  BY <1>1, PlaintextLayoutForm, LayoutFields
<1>6. PlaintextLayoutIsLeast <=>
        /\ result.ok <=> Counts # {}
        /\ result.ok => /\ result.value.segment_count \in Counts
                        /\ \A k \in Counts : result.value.segment_count <= k
  BY DEF PlaintextLayoutIsLeast
<1> HIDE DEF p, n, d, count
<1>7. result.ok => count \in Counts
  BY <1>2, <1>3, <1>4
<1>8. ASSUME NEW k \in Counts PROVE count <= k
  <2>1. k \in Nat \ {0} /\ n <= k * d
    BY <1>2, <1>1
  <2>2. CASE count > 1
    <3>1. (count - 1) * d < k * d
      BY <1>1, <1>2, <1>3, <2>1, <2>2
    <3>2. count - 1 < k
      BY <1>2, <1>3, <2>1, <3>1
    <3> QED BY <1>3, <2>1, <3>2
  <2> QED BY <1>3, <2>1, <2>2
<1>9. ASSUME NEW k \in Counts PROVE result.ok
  <2>1. k \in Nat /\ k <= AEAD_MAX_SEGMENTS
        /\ HEADER_LENGTH + n + k * SEGMENT_OVERHEAD <= U64_MAX
    BY <1>2
  <2>2. count <= k
    BY <1>8
  <2>3. count * SEGMENT_OVERHEAD <= k * SEGMENT_OVERHEAD
    BY <1>2, <1>3, <2>1, <2>2
  <2>4. CiphertextLengthFor(p, n) <= U64_MAX
    BY <1>1, <1>2, <1>3, <2>1, <2>3
  <2> QED BY <1>2, <1>3, <1>4, <2>1, <2>2, <2>4
<1> HIDE DEF Counts
<1> QED BY <1>5, <1>6, <1>7, <1>8, <1>9

(* ciphertext_layout accepts exactly the lengths of a header, full         *)
(* segments and one final segment, and reports their number and payload.   *)
LEMMA CiphertextIsExact == RequestInv => CiphertextLayoutIsExact
<1> SUFFICES ASSUME RequestInv, request.from = "ciphertext"
             PROVE  CiphertextLayoutIsExact
  BY DEF CiphertextLayoutIsExact
<1> DEFINE p == request.parameters
           l == request.length
           d == plaintext_segment_length(p)
           body == l - HEADER_LENGTH
           count == DivCeil(body, p)
           Shapes == {sh \in (1 .. AEAD_MAX_SEGMENTS) \X (0 .. d) :
                         l = HEADER_LENGTH + (sh[1] - 1) * p + SEGMENT_OVERHEAD + sh[2]}
<1>1. p \in VALID_SEGMENT_LENGTHS /\ l \in Nat /\ result = ciphertext_layout(p, l)
  BY RequestFields
<1>2. /\ d \in Nat \ {0} /\ SEGMENT_OVERHEAD \in Nat \ {0} /\ p = SEGMENT_OVERHEAD + d
      /\ p \in Nat \ {0} /\ HEADER_LENGTH \in Nat /\ AEAD_MAX_SEGMENTS \in Nat
  BY <1>1, SegmentLengths, ParametersAssumption
<1>3. /\ result.ok <=> /\ body > 0 /\ count <= AEAD_MAX_SEGMENTS
                       /\ body - (count - 1) * p >= SEGMENT_OVERHEAD
      /\ result.ok => result = Ok(LayoutRecord(p, body - count * SEGMENT_OVERHEAD, l, count))
  BY <1>1, CiphertextLayoutForm
<1>4. result.ok => /\ result.value.segment_count = count
                   /\ result.value.plaintext_length = body - count * SEGMENT_OVERHEAD
  BY <1>3, LayoutFields
<1>5. body > 0 => count \in Nat \ {0} /\ body <= p * count /\ p * (count - 1) < body
  <2> SUFFICES ASSUME body > 0
               PROVE  count \in Nat \ {0} /\ body <= p * count /\ p * (count - 1) < body
    OBVIOUS
  <2>1. body \in Nat /\ p \in Nat \ {0}
    BY <1>1, <1>2
  <2> HIDE DEF body, p
  <2>2. count \in Nat /\ body <= p * count /\ count > 0 /\ p * (count - 1) < body
    BY <2>1, DivCeilBounds
  <2> QED BY <2>2
<1>6. CiphertextLayoutIsExact <=>
        /\ result.ok <=> Shapes # {}
        /\ result.ok => \A sh \in Shapes :
              /\ result.value.segment_count = sh[1]
              /\ result.value.plaintext_length = (sh[1] - 1) * d + sh[2]
  BY DEF CiphertextLayoutIsExact
<1>7. l = HEADER_LENGTH + body /\ body \in Int
  BY <1>1, <1>2
<1> HIDE DEF p, l, d, body, count
<1>8. ASSUME result.ok PROVE Shapes # {}
  <2> DEFINE m == body - (count - 1) * p - SEGMENT_OVERHEAD
  <2>1. body > 0 /\ count \in 1 .. AEAD_MAX_SEGMENTS
    BY <1>2, <1>3, <1>5, <1>8
  <2>2. p * count = (count - 1) * p + p /\ (count - 1) * p \in Int
    BY <1>2, <1>5, <2>1
  <2>3. m \in 0 .. d
    BY <1>2, <1>3, <1>5, <1>7, <1>8, <2>1, <2>2
  <2>4. l = HEADER_LENGTH + (count - 1) * p + SEGMENT_OVERHEAD + m
    BY <1>2, <1>7, <2>2
  <2> HIDE DEF m
  <2>5. <<count, m>> \in Shapes
    BY <2>1, <2>3, <2>4
  <2> QED BY <2>5
<1>9. ASSUME NEW sh \in Shapes
      PROVE  /\ result.ok /\ count = sh[1]
             /\ body - count * SEGMENT_OVERHEAD = (sh[1] - 1) * d + sh[2]
  <2>1. PICK k \in 1 .. AEAD_MAX_SEGMENTS, m \in 0 .. d : sh = <<k, m>>
    OBVIOUS
  <2>2. l = HEADER_LENGTH + (k - 1) * p + SEGMENT_OVERHEAD + m
    BY <2>1
  <2>3. /\ (k - 1) * p \in Nat /\ (k - 1) * p = k * SEGMENT_OVERHEAD - SEGMENT_OVERHEAD + (k - 1) * d
        /\ k \in Nat /\ m \in Nat /\ m <= d /\ k * SEGMENT_OVERHEAD \in Nat /\ (k - 1) * d \in Nat
        /\ p * (k - 1) = (k - 1) * p /\ p * k = (k - 1) * p + p
    BY <1>2
  <2>4. body = (k - 1) * p + SEGMENT_OVERHEAD + m
    BY <1>2, <1>7, <2>2, <2>3
  <2>5. body \in Nat /\ body > 0 /\ p * (k - 1) < body /\ body <= p * k
    BY <1>2, <2>3, <2>4
  <2>6. count = k
    BY <1>2, <2>3, <2>5, DivCeilUnique DEF count
  <2>7. body - (k - 1) * p >= SEGMENT_OVERHEAD
    BY <1>2, <2>3, <2>4
  <2>8. result.ok
    BY <1>2, <1>3, <2>5, <2>6, <2>7
  <2>9. body - k * SEGMENT_OVERHEAD = (k - 1) * d + m
    BY <1>2, <2>3, <2>4
  <2> QED BY <2>1, <2>6, <2>8, <2>9
<1> HIDE DEF Shapes
<1> QED BY <1>4, <1>6, <1>8, <1>9

-----------------------------------------------------------------------------
(* The two constructors against each other. *)

(* The layout computed from the file size is the one the writer computed.  *)
LEMMA WriterLayoutIsReread ==
    ASSUME RequestInv, result.ok, request.from = "plaintext"
    PROVE  ciphertext_layout(request.parameters, result.value.ciphertext_length) = result
<1> DEFINE p == request.parameters
           n == request.length
           d == plaintext_segment_length(p)
           count == SegmentCountFor(p, n)
           l == CiphertextLengthFor(p, n)
           body == l - HEADER_LENGTH
<1>1. p \in VALID_SEGMENT_LENGTHS /\ n \in Nat /\ result = plaintext_layout(p, n)
  BY RequestFields
<1>2. result = Ok(LayoutRecord(p, n, l, count)) /\ count <= AEAD_MAX_SEGMENTS
  BY <1>1, PlaintextLayoutForm
<1>3. result.value.ciphertext_length = l
  BY <1>2, LayoutFields
<1>4. /\ d \in Nat \ {0} /\ SEGMENT_OVERHEAD \in Nat \ {0} /\ p = SEGMENT_OVERHEAD + d
      /\ p \in Nat \ {0} /\ HEADER_LENGTH \in Nat
  BY <1>1, SegmentLengths, ParametersAssumption
<1>5. /\ count \in Nat \ {0} /\ n <= count * d /\ (count - 1) * d <= n
      /\ l = HEADER_LENGTH + n + count * SEGMENT_OVERHEAD /\ l \in Nat
  BY <1>1, SegmentCountBounds DEF CiphertextLengthFor
<1>6. /\ ciphertext_layout(p, l).ok <=>
            /\ body > 0 /\ DivCeil(body, p) <= AEAD_MAX_SEGMENTS
            /\ body - (DivCeil(body, p) - 1) * p >= SEGMENT_OVERHEAD
      /\ ciphertext_layout(p, l).ok =>
            ciphertext_layout(p, l) =
              Ok(LayoutRecord(p, body - DivCeil(body, p) * SEGMENT_OVERHEAD, l, DivCeil(body, p)))
  BY <1>1, <1>5, CiphertextLayoutForm
<1>7. body = l - HEADER_LENGTH
  OBVIOUS
<1> HIDE DEF p, n, d, count, l, body
<1>8. /\ count * SEGMENT_OVERHEAD \in Nat /\ count * SEGMENT_OVERHEAD >= SEGMENT_OVERHEAD
      /\ p * count = count * SEGMENT_OVERHEAD + count * d
      /\ p * (count - 1) = count * SEGMENT_OVERHEAD - SEGMENT_OVERHEAD + (count - 1) * d
      /\ (count - 1) * p = p * (count - 1)
      /\ count * d \in Nat /\ (count - 1) * d \in Nat
  BY <1>4, <1>5
<1>9. body = n + count * SEGMENT_OVERHEAD
  BY <1>1, <1>4, <1>5, <1>7, <1>8
<1>10. body \in Nat /\ body > 0 /\ p * (count - 1) < body /\ body <= p * count
  BY <1>1, <1>4, <1>5, <1>8, <1>9
<1>11. DivCeil(body, p) = count
  BY <1>4, <1>5, <1>10, DivCeilUnique
<1>12. body - (count - 1) * p >= SEGMENT_OVERHEAD /\ body - count * SEGMENT_OVERHEAD = n
  BY <1>1, <1>4, <1>5, <1>8, <1>9
<1>13. ciphertext_layout(p, l) = Ok(LayoutRecord(p, n, l, count))
  BY <1>2, <1>6, <1>10, <1>11, <1>12
<1> QED BY <1>2, <1>3, <1>13 DEF p

(* Apart from an empty final segment after full ones, a ciphertext length  *)
(* is the one plaintext_layout computes for its plaintext length.          *)
LEMMA ReaderLayoutIsCanonical ==
    ASSUME RequestInv, result.ok, request.from = "ciphertext"
    PROVE  LET y == result.value
               canonical == plaintext_layout(y.parameters, y.plaintext_length)
           IN  /\ canonical.ok
               /\ canonical # result =>
                    /\ y.segment_count > 1
                    /\ y.plaintext_length =
                         (y.segment_count - 1) * plaintext_segment_length(y.parameters)
                    /\ y.ciphertext_length =
                         canonical.value.ciphertext_length + SEGMENT_OVERHEAD
<1> DEFINE y == result.value
           p == y.parameters
           n == y.plaintext_length
           d == plaintext_segment_length(p)
           count == y.segment_count
           fewest == SegmentCountFor(p, n)
           canonical == plaintext_layout(p, n)
<1>1. GoodLayout(y) /\ y.ciphertext_length <= U64_MAX
  BY ResultIsGood
<1>2. /\ y = LayoutRecord(p, n, y.ciphertext_length, count)
      /\ p \in VALID_SEGMENT_LENGTHS /\ count \in 1 .. AEAD_MAX_SEGMENTS /\ n \in Nat
      /\ (count - 1) * d <= n /\ n <= count * d
      /\ y.ciphertext_length = HEADER_LENGTH + n + count * SEGMENT_OVERHEAD
  BY <1>1 DEF GoodLayout
<1>3. result = Ok(y)
  <2>1. result = ciphertext_layout(request.parameters, request.length)
        /\ request.parameters \in VALID_SEGMENT_LENGTHS /\ request.length \in Nat
    BY RequestFields
  <2>2. PICK m, c : result = Ok(LayoutRecord(request.parameters, m, request.length, c))
    BY <2>1, CiphertextLayoutForm
  <2> QED BY <2>2, LayoutFields
<1>4. /\ d \in Nat \ {0} /\ SEGMENT_OVERHEAD \in Nat \ {0}
      /\ HEADER_LENGTH \in Nat /\ AEAD_MAX_SEGMENTS \in Nat /\ U64_MAX \in Nat
  BY <1>2, SegmentLengths, ParametersAssumption
<1>5. /\ fewest \in Nat \ {0} /\ n <= fewest * d /\ (fewest > 1 => (fewest - 1) * d < n)
      /\ CiphertextLengthFor(p, n) = HEADER_LENGTH + n + fewest * SEGMENT_OVERHEAD
  BY <1>2, SegmentCountBounds DEF CiphertextLengthFor
<1>6. /\ canonical.ok <=> fewest <= AEAD_MAX_SEGMENTS /\ CiphertextLengthFor(p, n) <= U64_MAX
      /\ canonical.ok => canonical = Ok(LayoutRecord(p, n, CiphertextLengthFor(p, n), fewest))
  BY <1>2, PlaintextLayoutForm
<1>7. canonical.ok => canonical.value.ciphertext_length = CiphertextLengthFor(p, n)
  BY <1>6, LayoutFields
<1> HIDE DEF y, p, n, d, count, fewest, canonical
<1>8. fewest <= count
  <2>1. CASE fewest > 1
    <3>1. (fewest - 1) * d < count * d /\ fewest - 1 \in Nat /\ count \in Nat
      BY <1>2, <1>4, <1>5, <2>1
    <3>2. fewest - 1 < count
      BY <1>4, <3>1
    <3> QED BY <1>5, <3>1, <3>2
  <2> QED BY <1>2, <1>5, <2>1
<1>9. fewest * SEGMENT_OVERHEAD <= count * SEGMENT_OVERHEAD /\ count \in Nat
  BY <1>2, <1>4, <1>5, <1>8
<1>10. canonical.ok
  BY <1>1, <1>2, <1>4, <1>5, <1>6, <1>8, <1>9
<1>11. ASSUME canonical # result
       PROVE  /\ count > 1 /\ n = (count - 1) * d
              /\ y.ciphertext_length = canonical.value.ciphertext_length + SEGMENT_OVERHEAD
  <2>1. fewest # count
    BY <1>2, <1>3, <1>5, <1>6, <1>10, <1>11
  <2>2. fewest <= count - 1 /\ count > 1
    BY <1>5, <1>8, <1>9, <2>1
  <2>3. fewest * d <= (count - 1) * d
    BY <1>4, <1>5, <1>9, <2>2
  <2>4. n = (count - 1) * d /\ fewest * d = (count - 1) * d
    BY <1>2, <1>4, <1>5, <1>9, <2>3
  <2>5. fewest = count - 1
    BY <1>4, <1>5, <1>9, <2>4
  <2>6. count * SEGMENT_OVERHEAD = fewest * SEGMENT_OVERHEAD + SEGMENT_OVERHEAD
    BY <1>4, <1>5, <1>9, <2>5
  <2>7. y.ciphertext_length = canonical.value.ciphertext_length + SEGMENT_OVERHEAD
    BY <1>2, <1>4, <1>5, <1>7, <1>9, <1>10, <2>6
  <2> QED BY <2>2, <2>4, <2>7
<1> QED BY <1>10, <1>11 DEF y, p, n, d, count, canonical

LEMMA RoundTrip == RequestInv => LayoutsRoundTrip
BY WriterLayoutIsReread, ReaderLayoutIsCanonical DEF LayoutsRoundTrip

LEMMA RequestKeeps == RequestInv /\ [NextLayout]_layoutVars => RequestInv'
BY DEF RequestInv, NextLayout, layoutVars, next, next_back, exhausted

(* THEOREM: for every format and every length, plaintext_layout and        *)
(* ciphertext_layout return what their references say.                     *)
THEOREM ExactLayouts == SpecLayout => []LayoutsAreExact
<1>1. InitLayout => RequestInv
  BY DEF InitLayout, RequestInv
<1>2. RequestInv => LayoutsAreExact
  BY PlaintextIsLeast, CiphertextIsExact DEF LayoutsAreExact
<1> QED BY <1>1, <1>2, RequestKeeps, PTL DEF SpecLayout

(* THEOREM: the layout a reader computes from a file size is the one the   *)
(* writer computed, and a ciphertext length that is not canonical differs  *)
(* by one empty final segment.                                             *)
THEOREM RoundTripLayouts == SpecLayout => []LayoutsRoundTrip
<1>1. InitLayout => RequestInv
  BY DEF InitLayout, RequestInv
<1> QED BY <1>1, RoundTrip, RequestKeeps, PTL DEF SpecLayout

-----------------------------------------------------------------------------
(* The double-ended iterator. *)

(* The segments of the layout, in any order. *)
SegmentsOf(y) == {SegmentAt(y, i) : i \in 0 .. y.segment_count - 1}

(* A run of consecutive segments that starts at position a. *)
RunFrom(run, y, a) ==
    /\ a \in Nat
    /\ run \in Seq(SegmentsOf(y))
    /\ a + Len(run) <= y.segment_count
    /\ \A i \in 1 .. Len(run) : run[i] = SegmentAt(y, a + i - 1)

(* What next() and next_back() have yielded: a run from the first segment, *)
(* and the run up to the last one, backwards.                              *)
IteratorInv ==
    /\ RequestInv
    /\ positions \in [start : Nat, end : Nat]
    /\ positions.start <= positions.end
    /\ ~result.ok => /\ positions.start = positions.end
                     /\ front = <<>> /\ back = <<>>
    /\ result.ok =>
          /\ RunFrom(front, result.value, 0)
          /\ Len(front) = positions.start
          /\ back \in Seq(SegmentsOf(result.value))
          /\ Len(back) = result.value.segment_count - positions.end
          /\ \A i \in 1 .. Len(back) :
                back[i] = SegmentAt(result.value, result.value.segment_count - i)

LEMMA SegmentAtFields ==
    ASSUME NEW y, NEW i
    PROVE  LET s == SegmentAt(y, i)
           IN  /\ s.parameters = y.parameters
               /\ s.position = i
               /\ s.plaintext_offset = i * plaintext_segment_length(y.parameters)
               /\ s.plaintext_length = PayloadAt(y, i)
               /\ s.ciphertext_offset = ciphertext_offset(y.parameters, i)
               /\ s.ciphertext_length = SEGMENT_OVERHEAD + PayloadAt(y, i)
               /\ s.kind = KindAt(y, i)
BY DEF SegmentAt

(* What segment_at unwraps is the segment of the position. *)
LEMMA SegmentAtPosition ==
    ASSUME GoodLayout(result.value), NEW i \in 0 .. result.value.segment_count - 1
    PROVE  segment_at(i) = SegmentAt(result.value, i)
BY SegmentForPosition, ChooseSome DEF segment_at

LEMMA IteratorInit == InitLayout => IteratorInv
<1> SUFFICES ASSUME InitLayout PROVE IteratorInv
  OBVIOUS
<1>1. RequestInv /\ front = <<>> /\ back = <<>>
  BY DEF InitLayout, RequestInv
<1>2. CASE result.ok
  <2>1. GoodLayout(result.value)
    BY <1>1, <1>2, ResultIsGood
  <2>2. result.value.segment_count \in Nat
    BY <2>1, ParametersAssumption DEF GoodLayout
  <2>3. positions = [start |-> 0, end |-> result.value.segment_count]
    BY <1>2 DEF InitLayout, segments
  <2>4. <<>> \in Seq(SegmentsOf(result.value)) /\ Len(<<>>) = 0
    BY EmptySeq
  <2>5. RunFrom(front, result.value, 0)
    BY <1>1, <2>2, <2>4 DEF RunFrom
  <2> QED BY <1>1, <1>2, <2>2, <2>3, <2>4, <2>5 DEF IteratorInv
<1>3. CASE ~result.ok
  BY <1>1, <1>3 DEF InitLayout, IteratorInv
<1> QED BY <1>2, <1>3

(* next() extends the run from the front. *)
LEMMA NextKeepsInv == IteratorInv /\ next => IteratorInv'
<1> SUFFICES ASSUME IteratorInv, next PROVE IteratorInv'
  OBVIOUS
<1> DEFINE y == result.value
           a == positions.start
           e == SegmentAt(y, a)
<1>1. result.ok /\ RequestInv
  BY DEF IteratorInv, next
<1>2. GoodLayout(y)
  BY <1>1, ResultIsGood
<1>3. y.segment_count \in Nat /\ positions.end \in Nat /\ a \in Nat /\ a < positions.end
      /\ Len(front) = a /\ front \in Seq(SegmentsOf(y)) /\ back \in Seq(SegmentsOf(y))
      /\ Len(back) = y.segment_count - positions.end
      /\ \A i \in 1 .. Len(front) : front[i] = SegmentAt(y, 0 + i - 1)
  <2>1. y.segment_count \in Nat
    BY <1>2, ParametersAssumption DEF GoodLayout
  <2>2. positions.end \in Nat /\ a \in Nat /\ a < positions.end
    BY DEF IteratorInv, next
  <2>3. /\ RunFrom(front, y, 0) /\ Len(front) = a
        /\ back \in Seq(SegmentsOf(y)) /\ Len(back) = y.segment_count - positions.end
    BY <1>1 DEF IteratorInv
  <2>4. front \in Seq(SegmentsOf(y)) /\ \A i \in 1 .. Len(front) : front[i] = SegmentAt(y, 0 + i - 1)
    BY <2>3 DEF RunFrom
  <2> QED BY <2>1, <2>2, <2>3, <2>4
<1>4. a \in 0 .. y.segment_count - 1
  <2>1. Len(back) \in Nat
    BY <1>3, LenProperties
  <2> QED BY <1>3, <2>1
<1>5. front' = Append(front, e) /\ e \in SegmentsOf(y)
  BY <1>2, <1>4, SegmentAtPosition DEF next, SegmentsOf
<1>6. /\ request' = request /\ result' = result /\ back' = back
      /\ positions' = [start |-> a + 1, end |-> positions.end]
  BY DEF next, IteratorInv
<1> HIDE DEF e
<1>7. /\ front' \in Seq(SegmentsOf(y)) /\ Len(front') = a + 1
      /\ \A i \in 1 .. Len(front) : front'[i] = front[i]
      /\ front'[Len(front) + 1] = e
  BY <1>3, <1>5, AppendProperties
<1>8. \A i \in 1 .. Len(front') : front'[i] = SegmentAt(y, 0 + i - 1)
  <2> SUFFICES ASSUME NEW i \in 1 .. a + 1 PROVE front'[i] = SegmentAt(y, 0 + i - 1)
    BY <1>7
  <2>1. CASE i = a + 1
    <3>1. 0 + i - 1 = a
      BY <1>3, <2>1
    <3> QED BY <1>3, <1>7, <2>1, <3>1 DEF e
  <2>2. CASE i # a + 1
    <3>1. i \in 1 .. Len(front)
      BY <1>3, <2>2
    <3> QED BY <1>3, <1>7, <3>1
  <2> QED BY <2>1, <2>2
<1>9. RunFrom(front', y, 0)
  BY <1>3, <1>4, <1>7, <1>8 DEF RunFrom
<1>10. RequestInv'
  BY <1>1, <1>6 DEF RequestInv
<1>11. positions'.start = a + 1 /\ positions'.end = positions.end
       /\ positions' \in [start : Nat, end : Nat]
  BY <1>3, <1>6
<1> QED BY <1>1, <1>3, <1>6, <1>7, <1>9, <1>10, <1>11 DEF IteratorInv

(* next_back() extends the run up to the end. *)
LEMMA NextBackKeepsInv == IteratorInv /\ next_back => IteratorInv'
<1> SUFFICES ASSUME IteratorInv, next_back PROVE IteratorInv'
  OBVIOUS
<1> DEFINE y == result.value
           z == positions.end - 1
           e == SegmentAt(y, z)
<1>1. result.ok /\ RequestInv
  BY DEF IteratorInv, next_back
<1>2. GoodLayout(y)
  BY <1>1, ResultIsGood
<1>3. /\ y.segment_count \in Nat /\ positions.end \in Nat /\ positions.start \in Nat
      /\ positions.start < positions.end
      /\ Len(front) = positions.start /\ RunFrom(front, y, 0)
      /\ back \in Seq(SegmentsOf(y))
      /\ Len(back) = y.segment_count - positions.end
      /\ \A i \in 1 .. Len(back) : back[i] = SegmentAt(y, y.segment_count - i)
  <2>1. y.segment_count \in Nat
    BY <1>2, ParametersAssumption DEF GoodLayout
  <2>2. /\ positions.end \in Nat /\ positions.start \in Nat
        /\ positions.start < positions.end
    BY DEF IteratorInv, next_back
  <2>3. /\ Len(front) = positions.start /\ RunFrom(front, y, 0)
        /\ back \in Seq(SegmentsOf(y)) /\ Len(back) = y.segment_count - positions.end
        /\ \A i \in 1 .. Len(back) : back[i] = SegmentAt(y, y.segment_count - i)
    BY <1>1 DEF IteratorInv
  <2> QED BY <2>1, <2>2, <2>3
<1>4. z \in 0 .. y.segment_count - 1 /\ Len(back) \in Nat
  <2>1. Len(back) \in Nat
    BY <1>3, LenProperties
  <2> QED BY <1>3, <2>1
<1>5. back' = Append(back, e) /\ e \in SegmentsOf(y)
  BY <1>2, <1>4, SegmentAtPosition DEF next_back, SegmentsOf
<1>6. /\ request' = request /\ result' = result /\ front' = front
      /\ positions' = [start |-> positions.start, end |-> positions.end - 1]
  BY DEF next_back, IteratorInv
<1> HIDE DEF e
<1>7. /\ back' \in Seq(SegmentsOf(y)) /\ Len(back') = Len(back) + 1
      /\ \A i \in 1 .. Len(back) : back'[i] = back[i]
      /\ back'[Len(back) + 1] = e
  BY <1>3, <1>5, AppendProperties
<1>8. \A i \in 1 .. Len(back') : back'[i] = SegmentAt(y, y.segment_count - i)
  <2> SUFFICES ASSUME NEW i \in 1 .. Len(back) + 1
               PROVE  back'[i] = SegmentAt(y, y.segment_count - i)
    BY <1>7
  <2>1. CASE i = Len(back) + 1
    <3>1. y.segment_count - i = z
      BY <1>3, <2>1
    <3> QED BY <1>7, <2>1, <3>1 DEF e
  <2>2. CASE i # Len(back) + 1
    <3>1. i \in 1 .. Len(back)
      BY <1>4, <2>2
    <3> QED BY <1>3, <1>7, <3>1
  <2> QED BY <2>1, <2>2
<1>9. RequestInv'
  BY <1>1, <1>6 DEF RequestInv
<1>10. positions'.start = positions.start /\ positions'.end = positions.end - 1
       /\ positions' \in [start : Nat, end : Nat]
  BY <1>3, <1>6
<1>11. Len(back') = y.segment_count - positions'.end /\ positions'.start <= positions'.end
  BY <1>3, <1>7, <1>10
<1> QED BY <1>1, <1>3, <1>6, <1>7, <1>8, <1>9, <1>10, <1>11 DEF IteratorInv

LEMMA StepKeepsIteratorInv == IteratorInv /\ [NextLayout]_layoutVars => IteratorInv'
<1> SUFFICES ASSUME IteratorInv, [NextLayout]_layoutVars PROVE IteratorInv'
  OBVIOUS
<1>1. CASE UNCHANGED layoutVars
  BY <1>1 DEF layoutVars, IteratorInv, RequestInv, RunFrom
<1> QED BY <1>1, NextKeepsInv, NextBackKeepsInv DEF NextLayout, exhausted

(* The segments of a run follow one another without gap or overlap. *)
LEMMA RunIsContiguous ==
    ASSUME NEW y, GoodLayout(y), NEW run, NEW a, RunFrom(run, y, a)
    PROVE  Contiguous(run)
<1> SUFFICES ASSUME NEW i \in 1 .. Len(run) - 1
             PROVE  /\ run[i + 1].position = run[i].position + 1
                    /\ run[i + 1].plaintext_offset = PlaintextEnd(run[i])
                    /\ run[i + 1].ciphertext_offset = CiphertextEnd(run[i])
  BY DEF Contiguous
<1> DEFINE j == a + i - 1
<1>1. Len(run) \in Nat /\ a \in Nat /\ y.segment_count \in Nat /\ a + Len(run) <= y.segment_count
  BY LenProperties, ParametersAssumption DEF RunFrom, GoodLayout
<1>2. j \in 0 .. y.segment_count - 1 /\ j + 1 # y.segment_count /\ a + (i + 1) - 1 = j + 1
  BY <1>1
<1>3. run[i] = SegmentAt(y, j) /\ run[i + 1] = SegmentAt(y, j + 1)
  <2>1. i \in 1 .. Len(run) /\ i + 1 \in 1 .. Len(run)
    BY <1>1
  <2>2. run[i + 1] = SegmentAt(y, a + (i + 1) - 1)
    BY <2>1 DEF RunFrom
  <2> QED BY <1>2, <2>1, <2>2 DEF RunFrom
<1> HIDE DEF j
<1>4. /\ j * plaintext_segment_length(y.parameters) + PayloadAt(y, j)
           = (j + 1) * plaintext_segment_length(y.parameters)
      /\ ciphertext_offset(y.parameters, j) + SEGMENT_OVERHEAD + PayloadAt(y, j)
           = ciphertext_offset(y.parameters, j + 1)
      /\ ciphertext_offset(y.parameters, j) \in Nat
      /\ PayloadAt(y, j) \in Int
  BY <1>2, SegmentBounds
<1>5. ciphertext_offset(y.parameters, j) + (SEGMENT_OVERHEAD + PayloadAt(y, j))
         = ciphertext_offset(y.parameters, j + 1)
  BY <1>4, ParametersAssumption DEF SEGMENT_OVERHEAD
<1> QED BY <1>3, <1>4, <1>5, SegmentAtFields DEF PlaintextEnd, CiphertextEnd

(* The first position starts both texts, the last one ends both.           *)
LEMMA EndsOfMessage ==
    ASSUME GoodLayout(result.value)
    PROVE  /\ StartsMessage(SegmentAt(result.value, 0))
           /\ EndsMessage(SegmentAt(result.value, result.value.segment_count - 1))
<1> DEFINE y == result.value
           d == plaintext_segment_length(y.parameters)
           z == y.segment_count - 1
<1>1. /\ y.parameters \in Nat /\ d \in Nat /\ HEADER_LENGTH \in Nat
      /\ SEGMENT_OVERHEAD \in Nat /\ y.segment_count \in Nat \ {0}
  BY SegmentLengths, ParametersAssumption DEF GoodLayout
<1>2. StartsMessage(SegmentAt(y, 0))
  <2>1. 0 * d = 0 /\ ciphertext_offset(y.parameters, 0) = HEADER_LENGTH
    BY <1>1 DEF ciphertext_offset
  <2> QED BY <2>1, SegmentAtFields DEF StartsMessage
<1>3. z \in 0 .. y.segment_count - 1 /\ z + 1 = y.segment_count
  BY <1>1
<1> HIDE DEF z
<1>4. /\ z * d + PayloadAt(y, z) = y.plaintext_length
      /\ ciphertext_offset(y.parameters, z) + SEGMENT_OVERHEAD + PayloadAt(y, z)
           = y.ciphertext_length
      /\ ciphertext_offset(y.parameters, z) \in Nat
      /\ PayloadAt(y, z) \in Int
  BY <1>3, SegmentBounds
<1>5. ciphertext_offset(y.parameters, z) + (SEGMENT_OVERHEAD + PayloadAt(y, z))
         = y.ciphertext_length
  BY <1>1, <1>4
<1>6. KindAt(y, z) = "Final"
  BY <1>3 DEF KindAt
<1>7. EndsMessage(SegmentAt(y, z))
  BY <1>4, <1>5, <1>6, SegmentAtFields DEF EndsMessage, PlaintextEnd, CiphertextEnd
<1> QED BY <1>2, <1>7 DEF z

(* Every plaintext offset of a segment maps back to the segment. *)
LEMMA OffsetsMapBack ==
    ASSUME NEW y, GoodLayout(y), NEW s \in SegmentsOf(y),
           NEW o \in s.plaintext_offset .. PlaintextEnd(s) - 1
    PROVE  position_for_plaintext_offset(y, o) = s.position
<1> DEFINE d == plaintext_segment_length(y.parameters)
<1>1. PICK i \in 0 .. y.segment_count - 1 : s = SegmentAt(y, i)
  BY DEF SegmentsOf
<1>2. /\ s.position = i /\ s.plaintext_offset = i * d /\ s.plaintext_length = PayloadAt(y, i)
  BY <1>1, SegmentAtFields
<1>3. d \in Nat \ {0} /\ PayloadAt(y, i) \in 0 .. d /\ i * d \in Nat /\ i \in Nat
  BY SegmentLengths, SegmentBounds, ParametersAssumption DEF GoodLayout
<1> HIDE DEF d
<1>4. o \in Nat /\ i * d <= o /\ o < i * d + d
  BY <1>2, <1>3 DEF PlaintextEnd
<1>5. d * i <= o /\ o < d * (i + 1)
  BY <1>3, <1>4
<1>6. o \div d = i
  BY <1>3, <1>4, <1>5, DivUnique
<1> QED BY <1>2, <1>6 DEF position_for_plaintext_offset, d

(* Reversing what next_back() yielded gives a run up to the last segment.  *)
LEMMA TailIsRun ==
    ASSUME IteratorInv, result.ok
    PROVE  /\ RunFrom(Reverse(back), result.value, positions.end)
           /\ Len(Reverse(back)) = result.value.segment_count - positions.end
<1> DEFINE y == result.value
           count == y.segment_count
           n == Len(back)
           tail == Reverse(back)
<1>1. /\ back \in Seq(SegmentsOf(y)) /\ n = count - positions.end
      /\ \A i \in 1 .. n : back[i] = SegmentAt(y, count - i)
      /\ positions.end \in Nat
  BY DEF IteratorInv
<1>2. n \in Nat /\ count \in Nat /\ \A i \in 1 .. n : back[i] \in SegmentsOf(y)
  <2>1. GoodLayout(y)
    BY ResultIsGood DEF IteratorInv
  <2> QED BY <1>1, <2>1, LenProperties, ElementOfSeq, ParametersAssumption DEF GoodLayout
<1>3. tail = [i \in 1 .. n |-> back[(n - i) + 1]]
  BY DEF Reverse
<1> HIDE DEF n, tail, count, y
<1>4. \A i \in 1 .. n : (n - i) + 1 \in 1 .. n /\ count - ((n - i) + 1) = positions.end + i - 1
  <2>1. n \in Nat /\ count \in Nat /\ positions.end \in Nat /\ n = count - positions.end
    BY <1>1, <1>2
  <2> QED BY <2>1
<1>5. tail \in [1 .. n -> SegmentsOf(y)]
  BY <1>2, <1>3, <1>4
<1>6. tail \in Seq(SegmentsOf(y)) /\ Len(tail) = n
  BY <1>2, <1>5, SeqDef, LenProperties
<1>7. \A i \in 1 .. n : tail[i] = SegmentAt(y, positions.end + i - 1)
  BY <1>1, <1>3, <1>4
<1>8. positions.end + n <= count
  BY <1>1, <1>2
<1>9. RunFrom(tail, y, positions.end)
  BY <1>1, <1>6, <1>7, <1>8 DEF RunFrom, count
<1> QED BY <1>1, <1>6, <1>9 DEF tail, y, count

(* All that was yielded are segments of the layout. *)
LEMMA YieldedAreSegments ==
    ASSUME IteratorInv, NEW s \in Yielded
    PROVE  result.ok /\ s \in SegmentsOf(result.value)
<1>1. CASE result.ok
  <2>1. front \in Seq(SegmentsOf(result.value)) /\ back \in Seq(SegmentsOf(result.value))
    BY <1>1 DEF IteratorInv, RunFrom
  <2>2. ASSUME NEW q \in Seq(SegmentsOf(result.value)), s \in ToSet(q)
        PROVE  s \in SegmentsOf(result.value)
    <3>1. PICK i \in DOMAIN q : s = q[i]
      BY <2>2 DEF ToSet
    <3> QED BY <3>1, LenProperties, ElementOfSeq
  <2> QED BY <1>1, <2>1, <2>2 DEF Yielded
<1>2. CASE ~result.ok
  <2>1. front = <<>> /\ back = <<>>
    BY <1>2 DEF IteratorInv
  <2>2. DOMAIN <<>> = {}
    OBVIOUS
  <2> QED BY <2>1, <2>2 DEF Yielded, ToSet
<1> QED BY <1>1, <1>2

(* A yielded segment is within its own bounds and the u64 ones. *)
LEMMA YieldedFits == IteratorInv => UncheckedArithmeticFits
<1> SUFFICES ASSUME IteratorInv, NEW s \in Yielded
             PROVE  /\ s.plaintext_length \in 0 .. plaintext_segment_length(s.parameters)
                    /\ s.plaintext_offset <= U64_MAX
                    /\ s.ciphertext_offset <= U64_MAX
  BY DEF UncheckedArithmeticFits
<1> DEFINE y == result.value
           d == plaintext_segment_length(y.parameters)
<1>1. GoodLayout(y) /\ y.ciphertext_length <= U64_MAX /\ s \in SegmentsOf(y)
  BY YieldedAreSegments, ResultIsGood DEF IteratorInv
<1>2. PICK i \in 0 .. y.segment_count - 1 : s = SegmentAt(y, i)
  BY <1>1 DEF SegmentsOf
<1>3. /\ s.parameters = y.parameters /\ s.plaintext_length = PayloadAt(y, i)
      /\ s.plaintext_offset = i * d
      /\ s.ciphertext_offset = ciphertext_offset(y.parameters, i)
  BY <1>2, SegmentAtFields
<1>4. /\ PayloadAt(y, i) \in 0 .. d
      /\ i * d \in Nat /\ i * d <= y.plaintext_length
      /\ ciphertext_offset(y.parameters, i) \in Nat
      /\ ciphertext_offset(y.parameters, i) <= y.ciphertext_length
  BY <1>1, SegmentBounds
<1>5. /\ y.plaintext_length \in Nat /\ U64_MAX \in Nat
      /\ y.plaintext_length <= y.ciphertext_length /\ y.ciphertext_length \in Nat
  <2>1. /\ y.segment_count \in Nat /\ SEGMENT_OVERHEAD \in Nat /\ HEADER_LENGTH \in Nat
        /\ y.plaintext_length \in Nat /\ U64_MAX \in Nat
    BY <1>1, SegmentLengths, ParametersAssumption DEF GoodLayout
  <2>2. y.segment_count * SEGMENT_OVERHEAD \in Nat
    BY <2>1
  <2> QED BY <1>1, <2>1, <2>2 DEF GoodLayout
<1> HIDE DEF y, d
<1>6. i * d <= U64_MAX /\ ciphertext_offset(y.parameters, i) <= U64_MAX
  BY <1>1, <1>4, <1>5
<1> QED BY <1>3, <1>4, <1>6 DEF d

(* The prefix of a segment decodes back to its kind and lengths. *)
LEMMA PrefixDecodes ==
    ASSUME NEW y, GoodLayout(y), NEW s \in SegmentsOf(y)
    PROVE  decode_framing(s.parameters, segment_prefix(s.kind, s.ciphertext_length))
             = Ok(Framing(s.ciphertext_length, s.kind))
<1> DEFINE p == y.parameters
           d == plaintext_segment_length(p)
<1>1. PICK i \in 0 .. y.segment_count - 1 : s = SegmentAt(y, i)
  BY DEF SegmentsOf
<1>2. /\ s.parameters = p /\ s.kind = KindAt(y, i)
      /\ s.ciphertext_length = SEGMENT_OVERHEAD + PayloadAt(y, i)
  BY <1>1, SegmentAtFields
<1>3. /\ SEGMENT_OVERHEAD \in Nat /\ d \in Nat /\ p = SEGMENT_OVERHEAD + d
      /\ p < U32_MAX /\ U32_MAX \in Nat /\ p \in Nat
  BY SegmentLengths, ParametersAssumption DEF GoodLayout
<1>4. /\ PayloadAt(y, i) \in 0 .. d
      /\ i + 1 # y.segment_count => PayloadAt(y, i) = d
  BY SegmentBounds
<1> HIDE DEF p, d
<1>5. CASE i + 1 = y.segment_count
  <2>1. s.kind = "Final"
    BY <1>2, <1>5 DEF KindAt
  <2>2. segment_prefix(s.kind, s.ciphertext_length) = s.ciphertext_length
    BY <2>1 DEF segment_prefix
  <2>3. s.ciphertext_length # U32_MAX /\ s.ciphertext_length \in SEGMENT_OVERHEAD .. p
    BY <1>2, <1>3, <1>4
  <2> QED BY <1>2, <2>1, <2>2, <2>3 DEF decode_framing
<1>6. CASE i + 1 # y.segment_count
  <2>1. s.kind = "NonFinal" /\ s.ciphertext_length = p
    BY <1>2, <1>3, <1>4, <1>6 DEF KindAt
  <2>2. segment_prefix(s.kind, s.ciphertext_length) = U32_MAX
    BY <2>1 DEF segment_prefix
  <2> QED BY <1>2, <2>1, <2>2 DEF decode_framing
<1> QED BY <1>5, <1>6

(* What has been yielded tiles the message from both ends. *)
LEMMA IteratorTiles == IteratorInv => YieldedSegmentsTile
<1> SUFFICES ASSUME IteratorInv, result.ok PROVE YieldedSegmentsTile
  BY DEF YieldedSegmentsTile
<1> DEFINE y == result.value
           count == y.segment_count
           tail == Reverse(back)
           all == front \o tail
<1>1. GoodLayout(y)
  BY ResultIsGood DEF IteratorInv
<1>2. /\ RunFrom(front, y, 0) /\ Len(front) = positions.start
      /\ RunFrom(tail, y, positions.end) /\ Len(tail) = count - positions.end
      /\ positions.start \in Nat /\ positions.end \in Nat
      /\ count \in Nat \ {0}
  BY <1>1, TailIsRun, ParametersAssumption DEF IteratorInv, GoodLayout
<1>3. front \in Seq(SegmentsOf(y)) /\ tail \in Seq(SegmentsOf(y))
  BY <1>2 DEF RunFrom
<1>4. /\ all \in Seq(SegmentsOf(y)) /\ Len(all) = Len(front) + Len(tail)
      /\ \A i \in 1 .. Len(front) + Len(tail) :
            all[i] = IF i <= Len(front) THEN front[i] ELSE tail[i - Len(front)]
  BY <1>3, ConcatProperties
<1>5. YieldedSegmentsTile <=>
        /\ Contiguous(front) /\ Contiguous(tail)
        /\ front # <<>> => StartsMessage(front[1])
        /\ tail # <<>> => EndsMessage(tail[Len(tail)])
        /\ \A i \in 1 .. Len(all) :
              (all[i].kind = "Final") <=> (all[i].position + 1 = count)
        /\ \A s \in Yielded : \A o \in s.plaintext_offset .. PlaintextEnd(s) - 1 :
              position_for_plaintext_offset(y, o) = s.position
        /\ positions.start = positions.end =>
              all # <<>> /\ Contiguous(all) /\ StartsMessage(all[1])
                         /\ EndsMessage(all[Len(all)])
  BY DEF YieldedSegmentsTile
<1>6. StartsMessage(SegmentAt(y, 0)) /\ EndsMessage(SegmentAt(y, count - 1))
  BY <1>1, EndsOfMessage
<1>7. \A s \in Yielded : s \in SegmentsOf(y)
  BY YieldedAreSegments
<1> HIDE DEF y, count, tail, all
<1>8. Contiguous(front) /\ Contiguous(tail)
  BY <1>1, <1>2, RunIsContiguous
<1>9. front # <<>> => StartsMessage(front[1])
  <2> SUFFICES ASSUME front # <<>> PROVE front[1] = SegmentAt(y, 0)
    BY <1>6
  <2>1. 1 \in 1 .. Len(front) /\ 0 + 1 - 1 = 0
    BY <1>2, <1>3, EmptySeq
  <2>2. front[1] = SegmentAt(y, 0 + 1 - 1)
    BY <1>2, <2>1 DEF RunFrom
  <2> QED BY <2>1, <2>2
<1>10. tail # <<>> => EndsMessage(tail[Len(tail)])
  <2> SUFFICES ASSUME tail # <<>> PROVE tail[Len(tail)] = SegmentAt(y, count - 1)
    BY <1>6
  <2>1. Len(tail) \in 1 .. Len(tail) /\ positions.end + Len(tail) - 1 = count - 1
    BY <1>2, <1>3, EmptySeq
  <2>2. tail[Len(tail)] = SegmentAt(y, positions.end + Len(tail) - 1)
    BY <1>2, <2>1 DEF RunFrom
  <2> QED BY <2>1, <2>2
<1>11. ASSUME NEW i \in 1 .. Len(all)
       PROVE  (all[i].kind = "Final") <=> (all[i].position + 1 = count)
  <2>1. all[i] \in SegmentsOf(y)
    BY <1>4, ElementOfSeq
  <2>2. PICK j \in 0 .. count - 1 : all[i] = SegmentAt(y, j)
    BY <2>1 DEF SegmentsOf, count
  <2>3. all[i].kind = KindAt(y, j) /\ all[i].position = j
    BY <2>2, SegmentAtFields
  <2>4. CASE j + 1 = count
    BY <2>3, <2>4 DEF KindAt, count
  <2>5. CASE j + 1 # count
    <3>1. all[i].kind = "NonFinal"
      BY <2>3, <2>5 DEF KindAt, count
    <3> QED BY <2>3, <2>5, <3>1
  <2> QED BY <2>4, <2>5
<1>12. \A s \in Yielded : \A o \in s.plaintext_offset .. PlaintextEnd(s) - 1 :
          position_for_plaintext_offset(y, o) = s.position
  BY <1>1, <1>7, OffsetsMapBack
<1>13. ASSUME positions.start = positions.end
       PROVE  all # <<>> /\ Contiguous(all) /\ StartsMessage(all[1])
                         /\ EndsMessage(all[Len(all)])
  <2>1. Len(all) = count
    BY <1>2, <1>4, <1>13
  <2>2. ASSUME NEW i \in 1 .. count PROVE all[i] = SegmentAt(y, 0 + i - 1)
    <3>1. CASE i <= Len(front)
      <4>1. i \in 1 .. Len(front) /\ all[i] = front[i]
        BY <1>2, <1>4, <2>1, <3>1
      <4> QED BY <1>2, <4>1 DEF RunFrom
    <3>2. CASE ~(i <= Len(front))
      <4>1. PICK e \in Nat : e = positions.end /\ Len(front) = e /\ Len(tail) = count - e
        BY <1>2, <1>13
      <4>2. i \in Nat /\ i <= count /\ i > e /\ count \in Nat
        BY <1>2, <3>2, <4>1
      <4>3. i - e \in 1 .. count - e /\ e + (i - e) - 1 = 0 + i - 1
        BY <4>2
      <4>4. all[i] = tail[i - Len(front)]
        BY <1>2, <1>4, <2>1, <3>2
      <4>5. i - Len(front) \in 1 .. Len(tail) /\ all[i] = tail[i - Len(front)]
            /\ positions.end + (i - Len(front)) - 1 = 0 + i - 1
        BY <4>1, <4>3, <4>4
      <4>6. tail[i - Len(front)] = SegmentAt(y, positions.end + (i - Len(front)) - 1)
        BY <1>2, <4>5 DEF RunFrom
      <4> QED BY <4>5, <4>6
    <3> QED BY <3>1, <3>2
  <2>3. RunFrom(all, y, 0)
    BY <1>2, <1>4, <2>1, <2>2 DEF RunFrom, count
  <2>4. Contiguous(all)
    BY <1>1, <2>3, RunIsContiguous
  <2>5. all # <<>>
    BY <1>2, <2>1, EmptySeq
  <2>6. all[1] = SegmentAt(y, 0) /\ all[count] = SegmentAt(y, count - 1)
    <3>1. 1 \in 1 .. count /\ count \in 1 .. count /\ 0 + 1 - 1 = 0 /\ 0 + count - 1 = count - 1
      BY <1>2
    <3>2. all[1] = SegmentAt(y, 0 + 1 - 1) /\ all[count] = SegmentAt(y, 0 + count - 1)
      BY <2>2, <3>1
    <3> QED BY <3>1, <3>2
  <2> QED BY <1>6, <2>1, <2>4, <2>5, <2>6
<1> QED BY <1>5, <1>8, <1>9, <1>10, <1>11, <1>12, <1>13

(* THEOREM: whatever the order of next and next_back, what they yielded    *)
(* tiles the plaintext and the ciphertext of the message from both ends,   *)
(* exactly once and with one final segment.                                *)
THEOREM TilingIterator == SpecLayout => []YieldedSegmentsTile
BY IteratorInit, StepKeepsIteratorInv, IteratorTiles, PTL DEF SpecLayout

(* THEOREM: segment_for_position neither wraps nor underflows on a layout  *)
(* that a constructor returned.                                            *)
THEOREM FittingArithmetic == SpecLayout => []UncheckedArithmeticFits
BY IteratorInit, StepKeepsIteratorInv, YieldedFits, PTL DEF SpecLayout

(* THEOREM: SegmentFraming::decode recovers the kind and the lengths from  *)
(* the prefix that segment_prefix wrote, for every segment of a layout.    *)
THEOREM DecodingPrefix == SpecLayout => []PrefixDecodesToLayout
<1>1. IteratorInv => PrefixDecodesToLayout
  BY YieldedAreSegments, ResultIsGood, PrefixDecodes DEF PrefixDecodesToLayout, IteratorInv
<1> QED BY <1>1, IteratorInit, StepKeepsIteratorInv, PTL DEF SpecLayout

-----------------------------------------------------------------------------
(* The loop of read_fully (src/wire.rs), which every reader of the other   *)
(* modules takes as one step.                                              *)

(* The loop has filled the output with the first bytes of the source; it   *)
(* has ended without an error only when the slice is full or the source is *)
(* at its end, and with one only before the slice was full.                *)
LoopInv ==
    /\ source \in Seq(Nat)
    /\ required \in 0 .. MaxRequired
    /\ at \in 0 .. Len(source) /\ at <= required
    /\ output = Slice(source, 0, at) /\ Len(output) = at
    /\ status \in {"running", "Ok", "Err"}
    /\ status = "Ok" => at = required \/ at = Len(source)
    /\ status = "Err" => at < required

LEMMA LoopStarts == InitLoop => LoopInv
<1> SUFFICES ASSUME InitLoop PROVE LoopInv
  OBVIOUS
<1>1. PICK n \in 0 .. MaxSource : source = [i \in 1 .. n |-> i]
  BY DEF InitLoop
<1>2. n \in Nat
  BY ReadFullyAssumption
<1>3. source \in Seq(Nat) /\ Len(source) = n
  BY <1>1, <1>2
<1>4. Slice(source, 0, 0) = <<>>
  BY <1>3, SubSeqProperties DEF Slice
<1> QED BY <1>2, <1>3, <1>4, EmptySeq, ReadFullyAssumption DEF LoopInv, InitLoop

LEMMA LoopNumbers ==
    ASSUME LoopInv
    PROVE  Len(source) \in Nat /\ required \in Nat /\ at \in Nat
BY LenProperties, ReadFullyAssumption DEF LoopInv

(* However short a read is, the output stays the source's first bytes. *)
LEMMA LoopGoesOn == LoopInv /\ [NextLoop]_loopVars => LoopInv'
<1> SUFFICES ASSUME LoopInv, [NextLoop]_loopVars PROVE LoopInv'
  OBVIOUS
<1>1. ASSUME NEW n \in 1 .. MaxRequired, read_some(n)
      PROVE  LoopInv'
  <2>1. /\ n \in Nat /\ at + n <= required /\ at + n <= Len(source)
    BY <1>1, LoopNumbers, ReadFullyAssumption
    DEF read_some, Looping, least, LoopInv
  <2>2. /\ output' = Slice(source, 0, at) \o Slice(source, at, n)
        /\ at' = at + n /\ status' = "running"
        /\ source' = source /\ required' = required
    BY <1>1, Zenon DEF read_some, output_after, status_after, LoopInv
  <2>3. PICK from \in Nat, to \in Nat : from = at /\ to = at + n
    BY <2>1, LoopNumbers
  <2>4. 0 + from + n <= Len(source) /\ 0 + from = from /\ from + n = to
        /\ 0 + to <= Len(source) /\ source \in Seq(Nat)
    BY <2>1, <2>3, LoopNumbers DEF LoopInv
  <2>5. Slice(source, 0, from) \o Slice(source, 0 + from, n)
          = Slice(source, 0, from + n)
    <3>1. 0 \in Nat /\ n \in Nat
      BY <2>1
    <3> QED BY <2>4, <3>1, SliceJoin, ZenonT(60)
  <2>6. Len(Slice(source, 0, to)) = to
    BY <2>3, <2>4, SliceOf, SMTT(30)
  <2>7. output' = Slice(source, 0, to) /\ at' = to
    BY <2>2, <2>3, <2>4, <2>5
  <2>8. to \in 0 .. Len(source) /\ to <= required
    BY <2>1, <2>3, LoopNumbers
  <2> QED BY <2>2, <2>4, <2>6, <2>7, <2>8 DEF LoopInv
<1>2. CASE read_nothing
  BY <1>2 DEF read_nothing, status_at_end, LoopInv
<1>3. CASE read_failed
  BY <1>3 DEF read_failed, Looping, LoopInv
<1>4. CASE leave_loop
  BY <1>4 DEF leave_loop, LoopInv
<1>5. CASE UNCHANGED loopVars
  BY <1>5 DEF loopVars, LoopInv
<1> QED BY <1>1, <1>2, <1>3, <1>4, <1>5 DEF NextLoop, Answered, read_interrupted

(* The budget under which the one-step read_fully returns the same: the    *)
(* place of the error, or one past everything.                             *)
LEMMA LoopAnswer == LoopInv => LoopIsOneStep
<1> SUFFICES ASSUME LoopInv PROVE LoopIsOneStep
  OBVIOUS
<1>1. output = Slice(source, 0, Len(output))
  BY DEF LoopInv, Slice
<1>2. CASE status = "Ok"
  <2>1. at = required \/ (at = Len(source) /\ at <= required)
    BY <1>2 DEF LoopInv
  <2>2. read_fully(source, 0, required, MaxRequired) = [ok |-> TRUE, got |-> at]
    <3>1. PICK length \in Nat : length = Len(source)
      BY LoopNumbers
    <3>2. /\ ~(MaxRequired < required) /\ at <= length
          /\ least(required, IF 0 < length THEN length - 0 ELSE 0) = at
      BY <2>1, <3>1, LoopNumbers, ReadFullyAssumption DEF least, LoopInv
    <3> QED BY <3>1, <3>2 DEF read_fully
  <2>3. (status = "Ok") = TRUE /\ Len(output) = at /\ MaxRequired \in 0 .. MaxRequired
    BY <1>2, ReadFullyAssumption DEF LoopInv
  <2> QED BY <1>1, <2>2, <2>3 DEF LoopIsOneStep
<1>3. CASE status = "Err"
  <2>1. at < required /\ at <= Len(source) /\ at \in 0 .. MaxRequired
    BY <1>3, LoopNumbers, ReadFullyAssumption DEF LoopInv
  <2>2. read_fully(source, 0, required, at) = [ok |-> FALSE, got |-> at]
    BY <2>1, LoopNumbers DEF read_fully
  <2>3. (status = "Ok") = FALSE /\ Len(output) = at
    BY <1>3 DEF LoopInv
  <2> QED BY <1>1, <2>1, <2>2, <2>3 DEF LoopIsOneStep
<1> QED BY <1>1, <1>2, <1>3 DEF LoopInv, LoopIsOneStep

(* However the wrapped reader splits, interrupts or breaks off its         *)
(* answers, the loop of read_fully returns what the one-step read_fully    *)
(* returns for some place of an error, for all lengths of the slice and of *)
(* the source.                                                             *)
THEOREM OneStepLoop == SpecLoop => []LoopIsOneStep
<1>1. SpecLoop => InitLoop /\ [][NextLoop]_loopVars
  BY PTL DEF SpecLoop
<1> QED BY <1>1, LoopStarts, LoopGoesOn, LoopAnswer, PTL

=============================================================================
