\* Segments of two bytes, three positions, messages of up to seven bytes (one more
\* than fits), every cut and every single alteration of the ciphertext.
CONSTANTS
    HEADER_LENGTH = 2
    SEGMENT_PREFIX_LENGTH = 1
    AEAD_IV_LENGTH = 1
    AEAD_TAG_LENGTH = 1
    AEAD_MAX_SEGMENTS = 3
    ROTATION_PERIOD = 2
    MIN_SEGMENT_LENGTH = 4
    U32_MAX = 7
    U64_MAX = 60
    NONCE_BATCH_SIZE = 2
    SegmentLength = 5
    Lengths = {0, 1, 2, 3, 4, 5, 6, 7}
SPECIFICATION SpecOneShot
CHECK_DEADLOCK FALSE
INVARIANTS
    EncryptsTheWholeMessage
    DecryptsExactly
    NeverReallocates
