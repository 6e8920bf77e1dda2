----------------------------- MODULE Histogram -----------------------------
(***************************************************************************)
(* Histogram (src/src/util/histogram.rs): running statistics over f64      *)
(* samples: min, max, count, sum, sum of squares and a count per bucket    *)
(* of the fixed BUCKET_LIMIT table.  Several histograms exist side by     *)
(* side and merge(other) folds one into another.                          *)
(*                                                                         *)
(* Samples are small non-negative integers, which f64 holds exactly, so   *)
(* the arithmetic is exact.  BucketLimit is a prefix of the code's table  *)
(* whose last entry exceeds every sample, as 1e200 does.  The history     *)
(* variable samples holds, per histogram, the values its statistics       *)
(* should describe: those added since the last clear, and those of every *)
(* histogram merged in.                                                   *)
(***************************************************************************)
EXTENDS Naturals, Sequences, SequencesExt, FiniteSets

CONSTANTS
    Hists,        \* histogram objects
    Values,       \* values add() may get
    BucketLimit,  \* BUCKET_LIMIT, 1-based
    MaxSamples    \* bound on the samples a histogram describes

NUM_BUCKETS == Len(BucketLimit)

VARIABLES hist, samples

vars == <<hist, samples>>

(* Histogram::new: everything 0.0, min included.  (The C++ original      *)
(* leaves the fields uninitialised and its users call Clear() first.)     *)
New == [min |-> 0, max |-> 0, num |-> 0, sum |-> 0, sum_squares |-> 0,
        buckets |-> [b \in 1..NUM_BUCKETS |-> 0]]

Init ==
    /\ hist = [h \in Hists |-> New]
    /\ samples = [h \in Hists |-> <<>>]

(* clear(): min back to the last limit; sum is not reset.                  *)
Cleared(st) ==
    [st EXCEPT !.min = BucketLimit[NUM_BUCKETS], !.max = 0, !.num = 0,
               !.sum_squares = 0, !.buckets = [b \in 1..NUM_BUCKETS |-> 0]]

(* Fault variant of BucketOf: a value equal to a limit stays below it.     *)
BucketOfStrict(value) ==
    CHOOSE b \in 1..NUM_BUCKETS :
        /\ b = NUM_BUCKETS \/ BucketLimit[b] >= value
        /\ \A c \in 1..(b - 1) : BucketLimit[c] < value

(* add()'s linear search: the first bucket whose limit exceeds the value, *)
(* the last bucket catching everything else.                               *)
BucketOf(value) ==
    CHOOSE b \in 1..NUM_BUCKETS :
        /\ b = NUM_BUCKETS \/ BucketLimit[b] > value
        /\ \A c \in 1..(b - 1) : BucketLimit[c] <= value

(* add(value)                                                              *)
Added(st, value) ==
    [st EXCEPT !.buckets[BucketOf(value)] = @ + 1,
               !.min = IF @ > value THEN value ELSE @,
               !.max = IF @ < value THEN value ELSE @,
               !.num = @ + 1,
               !.sum = @ + value,
               !.sum_squares = @ + value * value]

(* Fault variant of Merged: other's buckets not added.                     *)
MergedNoBuckets(st, other) ==
    [st EXCEPT !.min = IF other.min < @ THEN other.min ELSE @,
               !.max = IF other.max > @ THEN other.max ELSE @,
               !.num = @ + other.num,
               !.sum = @ + other.sum,
               !.sum_squares = @ + @]

(* merge(other): sum_squares += self.sum_squares, not other's.             *)
Merged(st, other) ==
    [st EXCEPT !.min = IF other.min < @ THEN other.min ELSE @,
               !.max = IF other.max > @ THEN other.max ELSE @,
               !.num = @ + other.num,
               !.sum = @ + other.sum,
               !.sum_squares = @ + @,
               !.buckets = [b \in 1..NUM_BUCKETS |-> @[b] + other.buckets[b]]]

(***************************************************************************)
(* percentile(p) and its bucket search.  The f64 quantities are counts    *)
(* and limits (integers) and p / 100 with p = 50, so the model computes   *)
(* them exactly, as rationals [n |-> numerator, d |-> denominator > 0];   *)
(* NaN is 0.0 / 0.0, which compares false with everything.                *)
(***************************************************************************)
(* The running sum of the loop: Cum(st)[b] is buckets 1..b added up.       *)
Cum(st) ==
    LET f[b \in 0..NUM_BUCKETS] == IF b = 0 THEN 0 ELSE f[b - 1] + st.buckets[b]
    IN f

(* Fault variant of PercentileBucket: the search stops at sum > threshold.*)
PercentileBucketStrict(st, p) ==
    LET cum == Cum(st)
        hit == {b \in 1..NUM_BUCKETS : 100 * cum[b] > st.num * p}
    IN IF hit = {} THEN 0 ELSE CHOOSE b \in hit : \A c \in hit : b <= c

(* The first bucket at which the running sum reaches threshold = num * p  *)
(* / 100; 0 when the loop runs out and percentile returns self.max.       *)
PercentileBucket(st, p) ==
    LET cum == Cum(st)
        hit == {b \in 1..NUM_BUCKETS : 100 * cum[b] >= st.num * p}
    IN IF hit = {} THEN 0 ELSE CHOOSE b \in hit : \A c \in hit : b <= c

(* 0.0 / 0.0: RatLess is FALSE both ways for it, as f64 comparisons are.  *)
NaN == [n |-> 0, d |-> 0]

RatLess(x, y) == x.n * y.d < y.n * x.d

Rat(k) == [n |-> k, d |-> 1]

(* Linear interpolation within the bucket, then the clamps to min and max.*)
Percentile(st, p) ==
    LET b == PercentileBucket(st, p)
    IN IF b = 0 THEN Rat(st.max)
       ELSE LET left_point == IF b = 1 THEN 0 ELSE BucketLimit[b - 1]
                right_point == BucketLimit[b]
                right_sum == Cum(st)[b]
                left_sum == right_sum - st.buckets[b]
                den == 100 * (right_sum - left_sum)
                r == [n |-> left_point * den
                              + (right_point - left_point) * (st.num * p - 100 * left_sum),
                      d |-> den]
            IN IF right_sum = left_sum THEN NaN
               ELSE IF RatLess(r, Rat(st.min)) THEN Rat(st.min)
               ELSE IF RatLess(Rat(st.max), r) THEN Rat(st.max)
               ELSE r

(* median()                                                                *)
Median(st) == Percentile(st, 50)

Add(h, value) ==
    /\ Len(samples[h]) < MaxSamples
    /\ hist' = [hist EXCEPT ![h] = Added(@, value)]
    /\ samples' = [samples EXCEPT ![h] = Append(@, value)]

Clear(h) ==
    /\ hist' = [hist EXCEPT ![h] = Cleared(@)]
    /\ samples' = [samples EXCEPT ![h] = <<>>]

(* A histogram cannot be merged into itself: &mut self and &other alias.  *)
Merge(h, o) ==
    /\ h # o
    /\ Len(samples[h]) + Len(samples[o]) <= MaxSamples
    /\ hist' = [hist EXCEPT ![h] = Merged(@, hist[o])]
    /\ samples' = [samples EXCEPT ![h] = @ \o samples[o]]

Next ==
    \/ \E h \in Hists, v \in Values : Add(h, v)
    \/ \E h \in Hists : Clear(h)
    \/ \E h, o \in Hists : Merge(h, o)

Spec == Init /\ [][Next]_vars

-----------------------------------------------------------------------------
(* Bucket b is the range [BUCKET_LIMIT[b-1], BUCKET_LIMIT[b]) that        *)
(* to_string prints for it; the last one is unbounded above.              *)
InBucket(v, b) ==
    /\ b = 1 \/ BucketLimit[b - 1] <= v
    /\ b = NUM_BUCKETS \/ v < BucketLimit[b]

SampleSum(s) == FoldLeft(LAMBDA acc, x : acc + x, 0, s)
SampleSquares(s) == FoldLeft(LAMBDA acc, x : acc + x * x, 0, s)
SampleMax(s) == FoldLeft(LAMBDA acc, x : IF x > acc THEN x ELSE acc, 0, s)

(* The k-th smallest sample (1-based).                                      *)
RankedSample(s, k) ==
    CHOOSE x \in Range(s) :
        /\ Cardinality({i \in DOMAIN s : s[i] < x}) < k
        /\ Cardinality({i \in DOMAIN s : s[i] <= x}) >= k

(***************************************************************************)
(* Count, max and buckets describe the samples: after any interleaving of *)
(* add, clear and merge over several histograms, num is the number of     *)
(* samples, max their maximum, and each bucket counts the samples of its  *)
(* range, so the buckets sum to num (what percentile() relies on).        *)
(***************************************************************************)
CountsMatchSamples ==
    \A h \in Hists :
        /\ hist[h].num = Len(samples[h])
        /\ hist[h].max = SampleMax(samples[h])
        /\ \A b \in 1..NUM_BUCKETS :
             hist[h].buckets[b] =
               Cardinality({i \in DOMAIN samples[h] : InBucket(samples[h][i], b)})

(***************************************************************************)
(* sum and sum_squares are the sum and the sum of squares of the samples, *)
(* the moments average() and standard_deviation() are computed from,      *)
(* after any sequence of add, clear and merge.                            *)
(***************************************************************************)
SumsMatchSamples ==
    \A h \in Hists :
        /\ hist[h].sum = SampleSum(samples[h])
        /\ hist[h].sum_squares = SampleSquares(samples[h])

(***************************************************************************)
(* median() of a non-empty histogram lies in the bucket of the middle     *)
(* sample (the one of rank ceil(num / 2)), ends included, and not above   *)
(* the largest sample: the bucket search must stop where the running      *)
(* count first reaches half the samples, after any add, clear and merge.  *)
(***************************************************************************)
MedianInMiddleBucket ==
    \A h \in Hists :
        Len(samples[h]) > 0 =>
          LET x == RankedSample(samples[h], (Len(samples[h]) + 1) \div 2)
              b == CHOOSE c \in 1..NUM_BUCKETS : InBucket(x, c)
              r == Median(hist[h])
          IN /\ r # NaN
             /\ ~RatLess(r, Rat(IF b = 1 THEN 0 ELSE BucketLimit[b - 1]))
             /\ ~RatLess(Rat(BucketLimit[b]), r)
             /\ ~RatLess(Rat(SampleMax(samples[h])), r)

=============================================================================
