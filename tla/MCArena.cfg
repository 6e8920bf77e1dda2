\* Plain and aligned requests around the two thresholds: a quarter block
\* (1024/1025) and requests that exactly fill what is left of a block.
SPECIFICATION Spec
CONSTANT Requests = {1, 5, 1024, 1025, 2043}
CONSTRAINT AllocBound
INVARIANTS AllocationsDisjoint  AlignedNeverPanics
