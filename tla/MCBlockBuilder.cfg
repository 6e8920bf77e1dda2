\* Block encoding driven through the repository's byte-wise comparator:
\* round trip and self-contained restart points.  An assertion panic in
\* add() ends the program, so a panicked state has no successor.
SPECIFICATION Spec
CONSTANTS
    RestartInterval = 2
    MaxEntries = 4
    Keys <- MCKeys
    Values <- MCValues
    Compare <- MCCompare
INVARIANTS
    TypeOK
    BlockRoundTrip
    RestartsSelfContained
CHECK_DEADLOCK FALSE
