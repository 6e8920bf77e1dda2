---------------------------- MODULE MCHistogram ----------------------------
EXTENDS Histogram

CONSTANTS h1, h2

MCHists == {h1, h2}

(* The first limits of BUCKET_LIMIT, then one above every sample.          *)
MCBucketLimit == <<1, 2, 3, 4, 5, 6, 7, 8, 9, 10, 12, 1000>>

MCValues == {0, 3, 11}

(* State bound: clear() keeps sum and merge() doubles sum_squares, so     *)
(* those two grow without limit under repeated calls.  Exploration stops *)
(* at the largest value correct statistics can reach.                   *)
MaxSum == 2 * 11
MaxSumSquares == 2 * 11 * 11
StatsBound ==
    \A h \in Hists : hist[h].sum <= MaxSum /\ hist[h].sum_squares <= MaxSumSquares

=============================================================================
