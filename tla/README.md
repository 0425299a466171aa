# FLOE in TLA+

A model of `fast-floe`, a Rust implementation of the FLOE streaming
authenticated-encryption format: TLA+ modules, TLC configurations and TLAPS
proofs kept beside the code. Paths such as `src/state.rs` are those of the
repository.

Run from this directory:

    tlc -workers 2 -config InPlace.cfg InPlace
    tlapm OnlineProofs.tla

## The system

A FLOE message is a header followed by segments. Every non-final segment has
the full segment length and the prefix `u32::MAX`; the final one may be short
or empty and its prefix is its own length. Each segment is sealed with AES-GCM
under a key derived for its group of 2^20 positions, with a random nonce, and
with its position and kind as associated data.

| component (source) | state | operations | what makes it correct |
|---|---|---|---|
| parameters and layouts (`parameters.rs`) | the iterator's range | `plaintext_layout`, `ciphertext_layout`, `segments`, `segment_for_position`, `SegmentFraming::decode` | layouts tile the message; reader and writer compute the same one; unchecked arithmetic cannot wrap; prefixes are unambiguous |
| segment state (`state.rs`) | key cache, nonce generator | encrypt or decrypt one segment | no (key, nonce) pair twice; the cached key belongs to its label, also after failures |
| random-access states (`state.rs`) | one state per task, a shared immutable context | `start_*`, `into_shared`, `fork`, `encrypt_segment*`, `decrypt_segment*` | the above across tasks; headers are authenticated; a segment opens only where it was sealed |
| online codec (`online.rs`) | the states plus `SegmentCounter` | `encrypt_non_final_segment*`, `encrypt_final_segment*`, `decrypt_segment*`, `finish` | in-order, exactly-once delivery; truncation is reported; failed calls can be retried; a message can always be ended |
| segment buffer (`buffer.rs`) | `Empty`, `Plaintext(n)`, `Ciphertext(n)` and the storage | `prepare_*`, `clear`, `extend_plaintext`, in-place calls | wiped after failures; state and storage agree |
| `EncryptWriter` (`io.rs`) | encryptor, buffer, `StreamStatus`, wrapped writer | `write`, `flush`, `try_finish`, `finish`, `into_inner_unfinished` | no byte lost, repeated or reordered; nothing after a torn or final segment |
| `EncryptReader` (`io.rs`) | encryptor, buffer, header and segment positions, lookahead byte, status | `read`, `into_inner_unfinished` | the ciphertext of the whole source in order; an end only after the final segment; nothing after an error |
| `DecryptReader` (`io.rs`) | decryptor, buffer, consumed and available bytes, status | `read`, `try_finish`, `try_finish_frame`, `finish`, `finish_frame`, `get_mut` | an authentic prefix only; truncation is never an end; a verified end is the end |
| random-access `Reader` (`random_access.rs`) | scratch buffer and the position cached in it, tracked inner position, plaintext position, layout | four constructors, `read`, `seek`, `read_segment*`, `read_range*`, `get_mut`, `into_inner` | a read-only seekable file; cache and tracked position never stale after a failure; opens only on the whole message |
| one-shot `encrypt`, `decrypt` (`online.rs`) | the loops over the segments | | inverse of each other; nothing but the exact ciphertext decrypts; no reallocation of the guarded plaintext |
| wire helpers (`wire.rs`) | the loop of `read_fully` | `read_fully`, `read_header`, `read_exact_segment`, `split_header` | a short answer is not an end; the loop ends |
| keys, providers, backends, errors | immutable values or external calls | | |

The adapters of `io.rs` and the one-shot functions call the online `Encryptor`
and `Decryptor`, which add a counter to an `EncryptionState` or a
`DecryptionState`; the random-access `Reader` uses a `DecryptionState` directly,
by layout position. All share the `SegmentBuffer`, and all that read go through
`read_fully`. The library starts no threads. Concurrency comes from its callers:
tasks that `fork` states of one message, and threads at the two ends of a pipe.
Everything else hard about it is failure and order: a backend, reader or writer
that fails between two updates, a caller that retries or mixes calls, a source
that is cut, grows or is moved, and a transport that reorders, repeats, drops,
alters or splices. `PROJECT.json` lists the
hazards at their lines.

## Modules

| module | models |
|---|---|
| `Parameters` | `parameters.rs` as operators |
| `Layout` | a layout request and the double-ended iterator over it |
| `SegmentCrypto` | key cache, nonce generator, one-segment encryption and decryption as operators |
| `SharedStates` | random-access tasks over `SegmentCrypto` |
| `OnlineState` | `SegmentCounter`, `Encryptor`, `Decryptor` as values and operators |
| `MessageStream` | abstract: what the online codec promises |
| `Online` | one message through encryptor, transport and decryptor; implements `MessageStream` |
| `SegmentBuffer` | the buffer and the in-place calls as operators |
| `InPlace` | `Online` extended with the in-place calls on a caller's buffer |
| `SegmentWorkers` | the tasks of `SharedStates` with the in-place calls instead of the copying and raw ones, each task on a buffer of its own |
| `EncryptWriter` | the writer over a failing wrapped writer |
| `Wire` | `read_fully` as one step |
| `ReadFully` | the loop of `read_fully`, shown to do that step |
| `ByteStream` | headers and segments as bytes, and finding them in bytes again |
| `EncryptReader` | the encrypting reader over a failing plaintext source |
| `Ciphertexts` | what storage or a transport can make of a message (external) |
| `DecryptReader` | the decrypting reader over such a ciphertext |
| `Pipeline` | `EncryptReader` and `DecryptReader` on two threads, joined by a pipe |
| `OneShot` | `encrypt`, then `decrypt` of everything in `Ciphertexts` |
| `SeekableFile` | abstract: what the random-access `Reader` promises |
| `RandomAccessReader` | the `Reader` over a failing seekable source; implements `SeekableFile` |
| `SegmentProofs` | lemmas the proofs share: lengths and layouts, the key cache, one-segment calls, buffers, slices and concatenations of byte sequences |
| `OnlineProofs` | theorems about `Online` and `InPlace` |
| `SharedStatesProofs` | theorems about `SharedStates` and `SegmentWorkers`, about `Layout`, and about the loop of `ReadFully` |
| `EncryptWriterProofs` | theorems about `EncryptWriter` |
| `EncryptReaderProofs` | theorems about `EncryptReader` |
| `CiphertextProofs` | lemmas about messages as bytes and about `Ciphertexts`, which the next two share |
| `RandomAccessReaderProofs` | theorems about `RandomAccessReader` |
| `DecryptionProofs` | theorems about `DecryptReader` and `OneShot` |

Names are those of the code. Modules with variables have one action per public
call; the operators they use return the state a method leaves behind together
with its result, because the methods are shared by several components and by
the in-place variants.

**Abstractions.**
- A parameter set is its segment length; the numbers of the format are
  constants, with the shipped values in comments.
- The KDF is injective, so a key is the tuple of its inputs. The AEAD opens
  exactly what was sealed under the same key, position and kind, and notices
  every damage. Random batches do not collide, so a nonce is `<<batch, index>>`
  and uniqueness is a statement about the bookkeeping of the generator.
- Each external call may fail. An operation takes a `fault` (`rng`, `kdf`,
  `aead`), and what the code has updated before that point stays updated: a
  failed fill consumes no nonce, a failed derivation or seal consumes the
  nonce it took.
- The `_into` variants' output buffer is a Boolean `room`.
- A payload is its length and its bytes, and bytes are model values
  (`Online`) or the index in the caller's stream (`EncryptWriter`), so that
  loss and reordering are visible.
- In a byte stream a byte is named by its header or segment and its index
  there. Bytes that are not all of one item in order do not open; that an
  alteration could produce another valid item is what the ideal AEAD excludes.
- An error of a wrapped reader has a place: the `budget` is the number of bytes
  a call obtains before it. `ReadFully` justifies taking `read_fully` as one
  step with such a budget.
- `Option` is a set with at most one element; `Result` is a record with `ok`.

**State and actions of the core, `Online`.** `encryptor` and `decryptor` are
the two values of the code, `None` once a final segment or `finish` consumed
them. `wire` is every segment sealed so far; the transport may present any of
them at any time, any alteration of them (`Altered`) and segments of another
message under the same key (`Foreign`). `sent`, `delivered` and `verdict`
record what the caller saw. `encrypt_non_final_segment`,
`encrypt_final_segment`, `receive` and `finish_decryption` are the calls, each
with every payload length from empty to one too long, each `room` and each
fault.

**The readers.** A reader is a record of the fields of its struct. The path that
`read` takes is an action of its own (`read_refused`, `read_at_end`,
`read_direct`, `read_loading`, `read_loaded`; for `EncryptReader` also
`read_in_header`); the two helpers behind it, one that seals or opens in the
buffer and one that goes straight to the caller's slice, are operators that
return the reader after the call, errors included. The finishing calls of
`DecryptReader` and the range reads of the random-access `Reader` take one step
per segment of their loops, so that a failure inside the loop leaves the state
the code leaves. Ghost variables record what the caller saw (`emitted`,
`delivered`, `answer`) and whether anything outside failed (`broken`,
`failing`), so that "only for a cause" can be said.

**Abstract specifications.** `MessageStream` is the in-order, exactly-once
stream with an authenticated end; `Online` and `InPlace` implement it.
`SeekableFile` is a read-only file whose calls may fail but return only the
right bytes and move nothing when they fail; `RandomAccessReader` implements it
with the sent plaintext as contents, whatever was done to the source.

## Runs

| run | shows | distinct states |
|---|---|---|
| `layout` | `LayoutsAreExact`, `LayoutsRoundTrip`, `YieldedSegmentsTile`, `PrefixDecodesToLayout`, `UncheckedArithmeticFits`: every request of a small format against reference definitions; every interleaving of `next` and `next_back` | 938 |
| `shared_states` | `NoncesAreUnique`, `KeysRotate` with two encrypting tasks, `HeadersAreAuthentic`, `DecryptionIsExact` with copying and raw calls | 199,148 |
| `segment_workers` | `BuffersAreHonest` with tasks that reuse their buffers, two of them decrypting | 954,356 |
| `in_place` | `TypeInvariant`, `NoncesAreUnique`, `OneSegmentPerPosition`, `AlwaysFinalizable`, `AcceptsExactlyTheNext`, `CallsAreAllOrNothing`, refinement of `MessageStream`, by copying and in-place calls mixed | 156,452 |
| `encrypt_writer` | `OutputIsInOrder`, `NoByteIsLost`, `NothingAfterTornOrFinal` | 738 |
| `read_fully` | `LoopIsOneStep`, and that the loop returns (`ReadFullyReturns`) | 197 |
| `encrypt_reader` | `OutputIsTheMessage`, `EndMeansComplete`, `NothingAfterError` | 1,128 |
| `decrypt_reader` | `DeliversAPrefix`, `CompleteIsWhole`, `EndIsHonest`, `RefusesOnlyForCause`, `PoisonedForGood` | 335,575 |
| `random_access` | `TrackedPositionIsTrue`, `CacheIsFresh`, `OpensOnlyTheWholeLength`, `AlwaysReadable`, refinement of `SeekableFile` | 293,036 |
| `pipeline` | `CompleteMeansAll`, and that an undisturbed transfer completes (`TransferCompletes`) | 10,957 |
| `one_shot` | `EncryptsTheWholeMessage`, `DecryptsExactly`, `NeverReallocates` | 1,318 |
| `writer_sizing` | expected violation, see below | |

Every property of a passing run has a mutant in `PROJECT.json`: a plausible
bug in one definition under which TLC refutes the property. `InPlace` extends
`Online` and its next-state relation contains that of `Online`, so that its run
also covers the specification the theorems are about.

**Bounds.** Segments carry one to five bytes, the position limit is three or
four and two positions share a key, so that messages cross a key rotation and
reach the limit. A nonce batch has two nonces and up to three batches are drawn
(`MaxBatches`), so that batches end inside a message and retries cross the
boundary. `SegmentWorkers` asks about keys and buffers: each of its two positions
has a key of its own, each attempt draws a batch, and one attempt more than
there are positions may be made. In `Layout`, `U64_MAX` lies below the longest ciphertext of the
longest requests (`MaxLength`), so that overflow happens. `EncryptWriter` takes
up to nine bytes (`MaxBytes`), more than the four two-byte segments hold, in
writes of up to five (`MaxWrite`): partial, exact and longer than two segments.
The readers' messages have up to three or four two-byte segments: empty, short,
exactly full, closed by an empty final segment as `EncryptWriter` may leave
them, and, for the encrypting side, one byte more than the positions hold.
Their sources (`Held`) are the message cut after every byte, with each item
removed, repeated, exchanged with another, replaced by one of another message or
altered, and followed by one byte or by a whole message. Reads are of every
length up to just over a segment (`MaxRead`), so that both paths are taken in
every order. In `RandomAccessReader` messages have one or three segments, start
at the beginning of the source or behind other bytes (`Starts`), every explicit
length is tried, and `U64_MAX` is small enough for offsets and bounds to
overflow; range bounds and seek targets (`Positions`, `Distances`, `RangeEnds`)
are those at, beside and beyond the ends. One key per position there makes the key cache change at every segment.
The code compares positions, lengths and indices only with these limits and
with each other, so larger values are expected to add no new cases; the theorems
below do not depend on the values.

**Fairness.** The library has no scheduler and a caller may stop after any call,
so most specifications assume none; what a caller can always still do is a state
property instead (`AlwaysFinalizable`, `AcceptsExactlyTheNext`,
`AlwaysReadable`). Two specifications have it. In `ReadFully`
the loop goes on by itself and weak fairness of `Answered` says that the wrapped
reader is not interrupted for ever, which is the only way the code could loop
for ever; an error of the reader is possible and never required. In `Pipeline`
each side is a loop in a thread of its own, and weak fairness of the calls that
meet no trouble says that the operating system runs both; a failing call, and
leaving the reader early (`abandon`), are possible and never required. The
consumer waits for a whole segment or the end of the pipe, never for less than the
code waits for, so that the bytes a call finds are those the code would find.

Deadlock checking is off where a caller may be done (a message ended, a reader
or writer dropped) or the bound on batches is reached; in `Layout` it is on.

### What `writer_sizing` shows

`README.md` recommends `Parameters::plaintext_layout` for storage sizing. A
message that `EncryptWriter` finishes can be one segment longer: when nothing
is staged, a full segment of input is written as non-final at once, and if it
was the last one, `finish` adds an empty final segment. Writing the same bytes
in smaller pieces gives the canonical layout. The decoders accept both
(`LayoutsRoundTrip` shows this is the only non-canonical form). For
the same reason a message that fills every position fits the layout, but its
last full segment cannot be written directly.

## Proofs

The theorems hold for every value of the constants that the modules' assumptions
allow: every format and parameter set, nonce batch size, rotation period and
position limit, any set of tasks, messages of any length, reads and writes of any
length, and any number of failures.

| module | theorem | states |
|---|---|---|
| `OnlineProofs` | `Typing` | `Spec => []TypeInvariant` |
| | `NonceUniqueness` | `Spec => []NoncesAreUnique` |
| | `PositionsAreUsedOnce` | `Spec => []OneSegmentPerPosition` |
| | `Finalizable` | `Spec => []AlwaysFinalizable` |
| | `NextIsAccepted` | `Spec => []AcceptsExactlyTheNext` |
| | `FinalIsFinal` | `Spec => NothingAfterFinal` |
| | `Refinement` | `Spec => ImplementsStream` |
| | `InPlaceRefinement` | `SpecInPlace => Spec` |
| | `InPlaceKeepsGuarantees` | the above for `SpecInPlace` |
| | `InPlaceAllOrNothing` | `SpecInPlace => CallsAreAllOrNothing` |
| `SharedStatesProofs` | `NonceUniqueness` | `Spec => []NoncesAreUnique` |
| | `KeyRotation` | `Spec => []KeysRotate` |
| | `HeaderAuthenticity` | `Spec => []HeadersAreAuthentic` |
| | `ExactDecryption` | `Spec => []DecryptionIsExact` |
| | `HonestBuffers` | `SpecWorkers => []BuffersAreHonest` |
| | `WorkersKeepGuarantees` | the four above for `SpecWorkers` |
| | `ExactLayouts` | `SpecLayout => []LayoutsAreExact` |
| | `RoundTripLayouts` | `SpecLayout => []LayoutsRoundTrip` |
| | `TilingIterator` | `SpecLayout => []YieldedSegmentsTile` |
| | `FittingArithmetic` | `SpecLayout => []UncheckedArithmeticFits` |
| | `DecodingPrefix` | `SpecLayout => []PrefixDecodesToLayout` |
| | `OneStepLoop` | `SpecLoop => []LoopIsOneStep` |
| `EncryptWriterProofs` | `OrderedOutput` | `Spec => []OutputIsInOrder` |
| | `LosslessWriter` | `Spec => []NoByteIsLost` |
| | `SilentAfterEnd` | `Spec => NothingAfterTornOrFinal` |
| `EncryptReaderProofs` | `ReaderInvariant` | `Spec => []ReaderInv` |
| | `MessageOutput` | `Spec => []OutputIsTheMessage` |
| | `CompleteAtEnd` | `Spec => []EndMeansComplete` |
| | `SilentAfterError` | `Spec => NothingAfterError` |
| `RandomAccessReaderProofs` | `ReaderInvariant` | `Spec => []ReaderInv` |
| | `FileRefinement` | `Spec => ImplementsFile` |
| | `TrackedPosition` | `Spec => []TrackedPositionIsTrue` |
| | `FreshCache` | `Spec => []CacheIsFresh` |
| | `WholeLengthOnly` | `Spec => []OpensOnlyTheWholeLength` |
| | `NoFailureIsForGood` | `Spec => []AlwaysReadable` |
| `DecryptionProofs` | `DecryptInvariant` | `Spec => []DecryptInv` |
| | `ReadDeliversAPrefix` | `Spec => []DeliversAPrefix` |
| | `CompletionIsEarned` | `Spec => []CompleteIsWhole` |
| | `NoSilentTruncation` | `Spec => []EndIsHonest` |
| | `WholeMessagesAreRead` | `Spec => []RefusesOnlyForCause` |
| | `FailureIsFinal` | `Spec => PoisonedForGood` |
| | `OneShotInvariant` | `SpecOneShot => []OneShotInv` |
| | `EncryptIsWhole` | `SpecOneShot => []EncryptsTheWholeMessage` |
| | `DecryptIsExact` | `SpecOneShot => []DecryptsExactly` |
| | `ReservationSuffices` | `SpecOneShot => []NeverReallocates` |

`NothingAfterFinal` also follows from the refinement, so that no run checks it on
its own.

**Assumptions.** `ParametersAssumption` and `NonceAssumption`: the format's
numbers are positive, the overhead is smaller than the smallest segment, lengths
fit their integers. `OnlineAssumption`, `InPlaceAssumption`,
`EncryptWriterAssumption`, `EncryptReaderAssumption`, `CiphertextsAssumption`:
the parameter sets are valid and the bounds natural numbers.
`SharedStatesAssumption`: also, the message has a layout, and the main task is a
task of both kinds. `LayoutAssumption`, `RandomAccessReaderAssumption` and
`DecryptReaderAssumption`: lengths, positions and bounds that callers pass are
`u64` values, and a message that was encrypted has a layout; the last one also
lets the other message, which has two segments, exist. TLC evaluates all of them
in the runs.

None of the properties is inductive alone. Each module's invariant adds what
they depend on.

**`Online`.** That a segment opens only at its position depends on the keys in
both caches being those of their labels; nonce uniqueness depends on where the
generator stands, not only on what was sealed; and that `finish` answers `Ok`
exactly for a complete message depends on the decryptor having closed on the
sender's final segment. `OnlineInv` puts these together:

- `EncryptorInv`: a live encryptor stands at position `Len(sent)`, below the
  limit, with the newest batch and a correctly labelled cache;
- `WireInv`: the wire holds exactly one segment per position below
  `Len(sent)`, sealed under that position's key with that position's payload,
  and final exactly if it closed the message;
- `NoncesInv`: every nonce on the wire lies before the generator's next one;
- `DecryptorInv`: `delivered` is a prefix of `sent`, an open decryptor's
  counter is its length, and it is closed exactly if it has all of an ended
  message.

`EncryptSegmentShape`, `NonFinalShape` and `FinalShape` reduce an encryption call
to "refused" or "sealed the next segment with a new nonce";
`OpensOnlyWhatWasSealed`, `OpenShape` and `ReceiveShape` reduce a decryption call
to "rejected" or "accepted the segment of the next position". Each of the four
outcomes preserves `OnlineInv` and is a step or a stutter of `MessageStream`
(`NextIsGood`). `NextIsAccepted` is the converse and needs `FramedInv` as well:
sealed segments have lengths that the decoder accepts, and a non-final one leaves
a position behind it.

**`InPlace`.** `BufferInv` says that the caller's buffer, whatever was done to it,
holds a payload that could be sent or a segment that can arrive. Then every
in-place call is the copying call with those contents, or changes nothing of the
message, which makes every step a step or a stutter of `Online`.

**`SharedStates` and `SegmentWorkers`.** `SharedInv` is `EncInv` (no batch belongs
to the generators of two tasks, caches are labelled; each sealed segment is that
of a laid-out position, under that position's key, with a nonce that its batch's
generator has passed, and no two share a position or a nonce) and `DecInv` (one
decryption context, of a header that was written, and caches labelled for it).
`KeyRotation` counts: the positions of one key are one masked group, which has
`ROTATION_PERIOD` members. `DecryptionIsExact` follows for the copying calls, which
want the exact length, and for `decrypt_segment_in_place_raw`, which takes the
segment from the front of longer storage (`Stored`, `Spare`): what is cut out of a
segment of another length does not authenticate. `WorkerInv` adds what each buffer may hold given what
its task did last.

**`Layout`.** `RequestInv` ties the result to the request; the arithmetic of both
constructors is then compared with the reference definitions by lemmas about
division. `IteratorInv` says that `next` has yielded a run of segments from the
first one and `next_back` one from the last, with the remaining range between.

**`EncryptWriter`.** `WriterInv`: the output is segments of consecutive positions
with consecutive bytes, without an end while the writer is open; the staged bytes
follow the last of them and make up the count of accepted ones.

**`EncryptReader`.** `ReaderInv`: the reader's place in header and segment, its
lookahead byte, its buffer and what it has taken from the source are those of the
message that the source's bytes make, so that the next byte it returns is the next
byte of that message.

**`ReadFully`.** `LoopInv`: the output is the first bytes of
the source, and the loop ended only for one of its three reasons.

**`RandomAccessReader`.** `ReaderInv`: the message is well formed, the source
consists of bytes of items that storage can make of it, and an open reader has
the message's context and layout, a labelled key cache, the true start, a tracked
position that is unknown or true, and a scratch buffer with the plaintext of the
segment its cached position names. The argument: bytes read at a layout position
that open under the message's context are all of one segment
(`SegmentFound`) and that one (`OpensAtPosition`); so the two loading paths leave
either the right plaintext or no cached position (`LoadForm`, `DirectForm`,
`CachedKeeps`); a constructor that authenticated the final segment of a layout has
the layout of the message (`OnlyOursIsMade`). One lemma per call then gives the
invariant and the step of `SeekableFile`. `IntactOpens` is the converse for
`AlwaysReadable`.

**`DecryptReader`.** `DecryptInv`: the source consists of bytes of items that
storage can make of the message, or the one byte that may be added. An open or
complete reader (`Healthy`) has accepted the header of one message, ours or the
other; the bytes between `began` and `at` are that header and the first `k`
segments of that message, the decryptor stands at position `k` with a labelled
key cache, or is gone and `k` is all of them; what was returned and what is still
in the buffer make up the plaintext of those `k` segments, unless a finishing
call discarded some. A failed reader (`Broken`) has nothing left to return and a
cause: an error of the wrapped reader or the backend, a source that does not hold
the whole message, or a byte behind it. The argument: whatever bytes stand at
`at`, if they frame and open at position `k` they are segment `k + 1`
(`OpenedNext`), and if the source holds the message and nothing fails they do
(`NextStands`); so `load_segment` and `read_segment_direct` advance by one segment
or fail for a cause (`LoadStep`, `DirectStep`). One lemma per call follows; growing
the source through `get_mut` cannot make a message whole that was not
(`StillNotWhole`), because the added byte is of no message.

**`OneShot`.** `OneShotInv` follows the two calls. While `encrypt` runs, the
sealed segments are those of the first chunks of the layout, each under its
position, kind and key, and an encryptor at the next position exists unless all
are sealed (`Encrypting`). While `decrypt` runs, either the header was ours and
the bytes before `body` are the first bytes of what `encrypt` returned, `k` whole
segments of it, with the decryptor at position `k` and their plaintext
accumulated (`ReadsOurs`), where after the last segment the decryptor is closed
and the body ends; or the header was the other message's and none of its segments
is there (`ReadsOther`). The argument: a framing that is accepted lies in the body
(`AcceptedFraming`); what opens there is the next segment, and its prefix is the
framing's, so that a final one is accepted only at the end of the body
(`OpenedIsNext`); the exact ciphertext is accepted in every round (`IntactStep`);
and each segment is longer than its plaintext (`PlaintextIsShorter`, `ReadAll`),
which gives the bound of `NeverReallocates`, zeros of a refused segment included.

Facts about concatenations of any number of items need induction over data, which
the library states with an operator parameter; `SegmentProofs` uses the least
element of a set of natural numbers instead.

**Only model-checked.** `Pipeline`'s `CompleteMeansAll`: `DecryptInv` speaks of a
message that exists before it is read, while a pipe is read while its message is
still being sealed, so that it would need an invariant of its own. And
`ReadFullyReturns` and `TransferCompletes`, because liveness and `ENABLED` are out
of reach of the prover.

## Not modelled

- Keys and providers (`key.rs`, `provider.rs`) and errors (`error.rs`): immutable
  values without behaviour of their own. Which error a failing call returns is
  kept only where control depends on it.
- The backends (`backends.rs`): external cryptography, taken as ideal primitives
  that may fail. Its buffer-length arithmetic is that of `SegmentCrypto`.
- Zeroization of freed memory: below the level of this model. What is visible of
  it, a buffer that is empty after a failure and a vector that never
  reallocates, is checked (`CallsAreAllOrNothing`,
  `BuffersAreHonest`, `NeverReallocates`).
- `get_mut` of `EncryptReader` and `EncryptWriter` changes nothing in the adapter;
  a caller that moves or writes to the wrapped stream through it changes the
  message by its own hand.
- Accessors, `Debug` and the wording of messages. Tests, known-answer files,
  benchmarks, examples and fuzz targets were read for intent only.

## Plan

1. `Parameters`, `Layout`, `SegmentCrypto`, `SharedStates`, `OnlineState`,
   `Online`, `MessageStream`, `SegmentBuffer`, `InPlace`, `EncryptWriter`:
   done, with `OnlineProofs`.
2. `Wire`, `ReadFully`, `ByteStream`, `Ciphertexts`, `EncryptReader`,
   `DecryptReader`, `Pipeline`, `OneShot`, `SeekableFile`,
   `RandomAccessReader`, `SegmentWorkers`: done.
3. Proofs of `Online`, `InPlace`, `SharedStates`, `SegmentWorkers`, `Layout`,
   `EncryptWriter`, `EncryptReader`, `ReadFully`, `RandomAccessReader`,
   `DecryptReader` and `OneShot`: done.
4. A proof of `CompleteMeansAll` of `Pipeline`, from `ReaderInv` of
   `EncryptReader` and a consumer's invariant that refers to the segments emitted
   so far instead of to a whole message.
