-------------------------------- MODULE Hash --------------------------------
(***************************************************************************)
(* hash(data, n, seed) of src/src/util/hash.rs, the murmur-like hash the  *)
(* filter policy and the cache shard keys with.  A u32 does not fit       *)
(* TLC's integers, so it is a pair of 16-bit limbs [hi, lo]; wrapping     *)
(* addition and multiplication are computed limb-wise, no intermediate    *)
(* value reaching 2^31.  The tail's two non-wrapping "h +=" panic on      *)
(* overflow in a debug build and wrap in a release build: the result      *)
(* records whether one of them overflowed.                                *)
(***************************************************************************)
EXTENDS Naturals, Sequences, Bitwise

B16 == 65536

U32(n) == [hi |-> n \div B16, lo |-> n % B16]

(* (x * y) mod 2^16 for 16-bit x and y, through byte-sized partial products.*)
MulLow16(x, y) == (x * (y % 256) + ((x * (y \div 256)) % 256) * 256) % B16

(* u32::wrapping_add, and whether the sum passed 2^32.                     *)
AddCarry(a, b) ==
    LET lo == a.lo + b.lo
        hi == a.hi + b.hi + lo \div B16
    IN [val |-> [hi |-> hi % B16, lo |-> lo % B16], over |-> hi >= B16]

WrappingAdd(a, b) == AddCarry(a, b).val

(* u32::wrapping_mul: a.lo * b.lo in full, the cross terms mod 2^16.        *)
WrappingMul(a, b) ==
    LET p0 == a.lo * (b.lo % 256)
        p1 == a.lo * (b.lo \div 256)
        low == p0 + (p1 % 256) * 256
        carry == low \div B16 + p1 \div 256
    IN [hi |-> (carry + MulLow16(a.hi, b.lo) + MulLow16(a.lo, b.hi)) % B16,
        lo |-> low % B16]

Xor32(a, b) == [hi |-> a.hi ^^ b.hi, lo |-> a.lo ^^ b.lo]

(* h ^ (h >> 16) and h ^ (h >> 24)                                          *)
XorShift16(h) == [hi |-> h.hi, lo |-> h.lo ^^ h.hi]
(* Fault variant of XorShift24: the final shift by 16, not R = 24.        *)
XorShift24By16(h) == [hi |-> h.hi, lo |-> h.lo ^^ h.hi]
XorShift24(h) == [hi |-> h.hi, lo |-> h.lo ^^ (h.hi \div 256)]

(* const M = 0xc6a4a793                                                     *)
HashM == [hi |-> 50852, lo |-> 42899]

(* decode_fixed32 at position p (1-based), little-endian.                  *)
Word(data, p) == [hi |-> data[p + 2] + 256 * data[p + 3],
                  lo |-> data[p] + 256 * data[p + 1]]

(* One turn of the loop "while data + 4 <= limit": add the word w, then   *)
(* h = h * M and h ^= h >> 16.                                             *)
HashStep(h, w) == XorShift16(WrappingMul(WrappingAdd(h, w), HashM))

(* The loop: hs[k] is h after the first k words.  The previous value is  *)
(* bound by a set-map binder, so each turn reads it as one value.        *)
HashWords(data, h) ==
    LET hs[k \in 0..(Len(data) \div 4)] ==
            IF k = 0 THEN h
            ELSE CHOOSE v \in {HashStep(p, Word(data, 4 * k - 3)) : p \in {hs[k - 1]}} : TRUE
    IN  hs[Len(data) \div 4]

(***************************************************************************)
(* hash(data, n, seed): h = seed ^ n * M, the four-byte loop, then the    *)
(* remaining bytes with the switch's fall-through: the third byte << 16   *)
(* and the second << 8 are added with a plain +=, the first with          *)
(* wrapping_add before the final multiply and shift by R = 24.            *)
(***************************************************************************)
Hash(data, seed) ==
    LET n == Len(data)
        h0 == Xor32(seed, WrappingMul(U32(n), HashM))
        h1 == HashWords(data, h0)
        p == 4 * (n \div 4) + 1
        r == n % 4
        t3 == IF r = 3 THEN AddCarry(h1, [hi |-> data[p + 2], lo |-> 0])
              ELSE [val |-> h1, over |-> FALSE]
        t2 == IF r >= 2 THEN AddCarry(t3.val, U32(data[p + 1] * 256))
              ELSE [val |-> t3.val, over |-> FALSE]
        h2 == IF r >= 1
              THEN XorShift24(WrappingMul(WrappingAdd(t2.val, U32(data[p])), HashM))
              ELSE t2.val
    IN [val |-> h2, over |-> t3.over \/ t2.over]

=============================================================================
