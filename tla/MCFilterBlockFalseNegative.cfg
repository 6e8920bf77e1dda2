\* With a policy that has no false negative of its own, keys added in one
\* filter range are all found after finish().
SPECIFICATION Spec
CONSTANTS
    BlockOffsets <- MCBlockOffsets
    Keys <- MCKeys
    MaxKeys = 3
    CreateFilter <- MCCreateFilter
    PolicyKeyMayMatch <- MCExactKeyMayMatch
    NoBlock = NoBlock
INVARIANT NoFalseNegatives
CHECK_DEADLOCK FALSE
