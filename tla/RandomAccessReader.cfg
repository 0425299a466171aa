\* Segments of two bytes, messages of two or five (one and three segments), at the start of
\* the source or behind five other bytes, every cut, every single alteration and
\* every explicit length; u64 is narrow enough for a segment offset to overflow it.
CONSTANTS
    HEADER_LENGTH = 2
    SEGMENT_PREFIX_LENGTH = 1
    AEAD_IV_LENGTH = 1
    AEAD_TAG_LENGTH = 1
    AEAD_MAX_SEGMENTS = 5
    ROTATION_PERIOD = 1
    MIN_SEGMENT_LENGTH = 4
    U32_MAX = 7
    U64_MAX = 26
    NONCE_BATCH_SIZE = 2
    SegmentLength = 5
    Lengths = {2, 5}
    MaxRead = 2
    Starts = {0, 5}
    Positions = {0, 1, 2, 3, 4, 5, 6, 26}
    Distances = {1, 6}
    RangeEnds = {1, 4, 26}
SPECIFICATION Spec
CHECK_DEADLOCK FALSE
INVARIANTS
    TrackedPositionIsTrue
    CacheIsFresh
    OpensOnlyTheWholeLength
    AlwaysReadable
PROPERTIES
    ImplementsFile
