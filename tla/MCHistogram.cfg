SPECIFICATION Spec
CONSTANTS
    h1 = h1
    h2 = h2
    Hists <- MCHists
    Values <- MCValues
    BucketLimit <- MCBucketLimit
    MaxSamples = 2
INVARIANTS
    CountsMatchSamples
    MedianInMiddleBucket
CONSTRAINT StatsBound
