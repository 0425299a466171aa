\* Segments of two bytes, messages of up to four (three segments), every cut and
\* every single alteration, reads of up to three bytes.
CONSTANTS
    HEADER_LENGTH = 2
    SEGMENT_PREFIX_LENGTH = 1
    AEAD_IV_LENGTH = 1
    AEAD_TAG_LENGTH = 1
    AEAD_MAX_SEGMENTS = 4
    ROTATION_PERIOD = 2
    MIN_SEGMENT_LENGTH = 4
    U32_MAX = 7
    U64_MAX = 60
    NONCE_BATCH_SIZE = 2
    SegmentLength = 5
    Lengths = {0, 1, 2, 3, 4}
    MaxRead = 3
SPECIFICATION Spec
CHECK_DEADLOCK FALSE
INVARIANTS
    DeliversAPrefix
    CompleteIsWhole
    EndIsHonest
    RefusesOnlyForCause
PROPERTIES
    PoisonedForGood
