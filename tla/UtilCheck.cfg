\* The pure helpers (key shortening, codings, snappy's varint and bit
\* helpers, Random, Status, decimal parsing, the hash, LRUCache list calls) against their reference definitions.
SPECIFICATION Spec
CONSTANTS
    Alphabet = {97, 98, 99, 255}
    MaxKeyLen = 2
    MaxLog = 30
INVARIANTS
    SeparatorInRange
    SuccessorNotBelow
    CodingRoundTrip
    SnappyVarintRoundTrip
    Log2FloorIsFloorLog
    RandomStaysInCycle
    StatusCodeReadsBack
    DecimalRoundTrip
    HashMatchesVectors
    CacheCallKeepsLists
    DropReleasesCache
    CharTableMatchesFormat
    SinkReceivesSource
