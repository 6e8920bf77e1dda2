\* finish() leaves one filter per range, the last range included.
SPECIFICATION Spec
CONSTANTS
    BlockOffsets <- MCBlockOffsets
    Keys <- MCKeys
    MaxKeys = 3
    CreateFilter <- MCCreateFilter
    PolicyKeyMayMatch <- MCTestHashKeyMayMatch
    NoBlock = NoBlock
INVARIANT FinalRangeFiltered
CHECK_DEADLOCK FALSE
