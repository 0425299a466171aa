\* Slices and sources of up to five bytes, in every combination.
CONSTANTS
    MaxRequired = 5
    MaxSource = 5
SPECIFICATION SpecLoop
CHECK_DEADLOCK FALSE
INVARIANTS
    LoopIsOneStep
PROPERTY
    ReadFullyReturns
