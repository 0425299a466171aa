\* Segments of two bytes, four positions, messages of up to nine bytes written in
\* pieces of up to five: partial, exact, and longer than two segments.
CONSTANTS
    HEADER_LENGTH = 2
    SEGMENT_PREFIX_LENGTH = 1
    AEAD_IV_LENGTH = 1
    AEAD_TAG_LENGTH = 1
    AEAD_MAX_SEGMENTS = 4
    ROTATION_PERIOD = 2
    MIN_SEGMENT_LENGTH = 4
    U32_MAX = 7
    U64_MAX = 60
    NONCE_BATCH_SIZE = 2
    SegmentLength = 5
    MaxBytes = 9
    MaxWrite = 5
SPECIFICATION Spec
CHECK_DEADLOCK FALSE
INVARIANTS
    OutputIsInOrder
    NoByteIsLost
PROPERTIES
    NothingAfterTornOrFinal
