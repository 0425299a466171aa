\* A format whose segments carry 1 to 5 plaintext bytes, with at most 4 positions
\* and an integer width that the longest messages exceed.
CONSTANTS
    HEADER_LENGTH = 2
    SEGMENT_PREFIX_LENGTH = 1
    AEAD_IV_LENGTH = 1
    AEAD_TAG_LENGTH = 1
    AEAD_MAX_SEGMENTS = 4
    ROTATION_PERIOD = 2
    MIN_SEGMENT_LENGTH = 4
    U32_MAX = 9
    U64_MAX = 24
    MaxLength = 24
SPECIFICATION SpecLayout
INVARIANTS
    LayoutsAreExact
    LayoutsRoundTrip
    YieldedSegmentsTile
    PrefixDecodesToLayout
    UncheckedArithmeticFits
