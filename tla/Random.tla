------------------------------- MODULE Random -------------------------------
(***************************************************************************)
(* The Park-Miller generator of src/src/util/random.rs.  The code forms   *)
(* the 46-bit product seed * A in a u64; TLC's integers stop at 2^31 - 1, *)
(* so the model forms the same two parts the code takes of it, product >> *)
(* 31 and product & M, from 16-bit halves of the seed, and adds them with *)
(* the code's single "if seed > M" reduction, never building a number of  *)
(* 2^31 or more.  Seeds are u32 values below 2^31.                         *)
(***************************************************************************)
EXTENDS Naturals, Bitwise

M == 2147483647
A == 16807

(* Fault variant of RandomNew: only seed 0 is replaced.                     *)
RandomNewZeroOnly(s) ==
    LET seed == s & M IN IF seed = 0 THEN 1 ELSE seed

(* Random::new(s): mask to 31 bits, replace the fixed points 0 and M.      *)
RandomNew(s) ==
    LET seed == s & M IN IF seed = 0 \/ seed = M THEN 1 ELSE seed

(***************************************************************************)
(* Random::next on seed: hi and lo are product >> 31 and product & M,     *)
(* carry is the bit that the two low parts of the product push past bit   *)
(* 31; the sum hi + lo is reduced once by M when it exceeds M.             *)
(***************************************************************************)
RandomNext(seed) ==
    LET low16 == seed % 65536
        high == (seed \div 65536) * A          \* < 2^30
        low == low16 * A                        \* < 2^31
        rest == (high % 32768) * 65536          \* high's share below bit 31
        carry == IF rest > M - low THEN 1 ELSE 0
        lo == IF carry = 1 THEN rest - (M - low) - 1 ELSE rest + low
        hi == high \div 32768 + carry
    IN IF lo > M - hi THEN lo - (M - hi) ELSE lo + hi

(* Random::uniform(n): next() % n, with the advanced seed.                 *)
Uniform(seed, n) ==
    LET s == RandomNext(seed) IN [seed |-> s, value |-> s % n]

(* Random::one_in(n)                                                       *)
OneIn(seed, n) ==
    LET s == RandomNext(seed) IN [seed |-> s, value |-> s % n = 0]

(***************************************************************************)
(* Random::skewed(max_log): u = uniform(max_log + 1), then                 *)
(* uniform(1 << u); for u = 31 the bound 2^31 exceeds every seed, so the   *)
(* value is the seed itself.                                               *)
(***************************************************************************)
Skewed(seed, max_log) ==
    LET u == Uniform(seed, max_log + 1)
        s == RandomNext(u.seed)
    IN [seed |-> s, value |-> IF u.value = 31 THEN s ELSE s % 2^u.value]

(* Reference: seed * A mod M by Schrage's method (q = M div A, r = M mod A),*)
(* whose intermediate values stay below M.                                 *)
ParkMiller(seed) ==
    LET q == M \div A
        r == M % A
        t == A * (seed % q) - r * (seed \div q)
    IN IF t > 0 THEN t ELSE t + M

=============================================================================
