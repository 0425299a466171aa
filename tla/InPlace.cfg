\* Three positions, two per key; every payload length from empty to one byte too
\* long; nonce batches of two, so that a batch ends inside a message and retries
\* cross it; a buffer of the message's parameter set or of one with longer segments.
CONSTANTS
    HEADER_LENGTH = 2
    SEGMENT_PREFIX_LENGTH = 1
    AEAD_IV_LENGTH = 1
    AEAD_TAG_LENGTH = 1
    AEAD_MAX_SEGMENTS = 3
    ROTATION_PERIOD = 2
    MIN_SEGMENT_LENGTH = 4
    U32_MAX = 8
    U64_MAX = 30
    NONCE_BATCH_SIZE = 2
    SegmentLength = 5
    OtherLength = 6
    Data = {a}
    MaxBatches = 3
SPECIFICATION SpecInPlace
CHECK_DEADLOCK FALSE
INVARIANTS
    TypeInvariant
    NoncesAreUnique
    OneSegmentPerPosition
    AlwaysFinalizable
    AcceptsExactlyTheNext
PROPERTIES
    CallsAreAllOrNothing
    ImplementsStream
