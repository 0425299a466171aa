\* One encrypting task and two decrypting ones (it is one of them), two positions
\* under two keys; buffers of the message's parameter set or of one with longer
\* segments.
CONSTANTS
    HEADER_LENGTH = 2
    SEGMENT_PREFIX_LENGTH = 1
    AEAD_IV_LENGTH = 1
    AEAD_TAG_LENGTH = 1
    AEAD_MAX_SEGMENTS = 4
    ROTATION_PERIOD = 1
    MIN_SEGMENT_LENGTH = 4
    U32_MAX = 9
    U64_MAX = 30
    NONCE_BATCH_SIZE = 1
    EncTasks = {t1}
    DecTasks = {t1, t2}
    Main = t1
    SegmentLength = 5
    OtherLength = 6
    PlaintextLength = 4
    MaxBatches = 3
SPECIFICATION SpecWorkers
CHECK_DEADLOCK FALSE
INVARIANTS
    BuffersAreHonest
