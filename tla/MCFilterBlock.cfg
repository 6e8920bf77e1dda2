\* Filter block built with the repository's TestHashFilter policy: layout
\* agreement between builder and reader, empty ranges never match.  After
\* finish() the builder takes no further call.
SPECIFICATION Spec
CONSTANTS
    BlockOffsets <- MCBlockOffsets
    Keys <- MCKeys
    MaxKeys = 3
    CreateFilter <- MCCreateFilter
    PolicyKeyMayMatch <- MCTestHashKeyMayMatch
    NoBlock = NoBlock
INVARIANTS
    TypeOK
    ReaderSeesBuilderLayout
    EmptyRangeNeverMatches
CHECK_DEADLOCK FALSE
