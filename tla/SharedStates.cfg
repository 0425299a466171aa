\* Three positions over two rotation periods, two encrypting tasks, one of which
\* decrypts too, nonce batches of two.
CONSTANTS
    HEADER_LENGTH = 2
    SEGMENT_PREFIX_LENGTH = 1
    AEAD_IV_LENGTH = 1
    AEAD_TAG_LENGTH = 1
    AEAD_MAX_SEGMENTS = 4
    ROTATION_PERIOD = 2
    MIN_SEGMENT_LENGTH = 4
    U32_MAX = 9
    U64_MAX = 30
    NONCE_BATCH_SIZE = 2
    EncTasks = {t1, t2}
    DecTasks = {t1}
    Main = t1
    SegmentLength = 5
    OtherLength = 6
    PlaintextLength = 5
    MaxBatches = 3
SPECIFICATION Spec
CHECK_DEADLOCK FALSE
INVARIANTS
    NoncesAreUnique
    KeysRotate
    HeadersAreAuthentic
    DecryptionIsExact
