\* Segments of two bytes, three positions, messages of up to seven bytes (one more
\* than fits), reads of up to five on both sides: buffered and direct.
CONSTANTS
    HEADER_LENGTH = 2
    SEGMENT_PREFIX_LENGTH = 1
    AEAD_IV_LENGTH = 1
    AEAD_TAG_LENGTH = 1
    AEAD_MAX_SEGMENTS = 3
    ROTATION_PERIOD = 2
    MIN_SEGMENT_LENGTH = 4
    U32_MAX = 7
    U64_MAX = 60
    NONCE_BATCH_SIZE = 2
    SegmentLength = 5
    MaxBytes = 7
    MaxRead = 5
SPECIFICATION SpecPipeline
CHECK_DEADLOCK FALSE
INVARIANTS
    CompleteMeansAll
PROPERTIES
    TransferCompletes
