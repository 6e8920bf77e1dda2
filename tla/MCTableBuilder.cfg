\* The table builder against the abstract table, with I/O errors.  After
\* finish() or abandon() the builder takes no call, so those states have
\* no successor.
SPECIFICATION MCSpec
CONSTANTS
    Keys <- MCKeys
    Values <- MCValues
    Compare <- MCCompare
    BlockRestartInterval = 2
    BlockSize = 16
    MaxEntries = 4
    Crc <- MCCrc
    CreateFilter <- MCCreateFilter
    PolicyKeyMayMatch <- MCKeyMayMatch
    FilterKey <- MCFilterKey
    IOErrors = TRUE
INVARIANTS
    IndexSeparatesBlocks
    OffsetIsFileSize
PROPERTIES
    TableRefinement
CHECK_DEADLOCK FALSE
