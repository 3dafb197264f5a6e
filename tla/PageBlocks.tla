------------------------------- MODULE PageBlocks -------------------------------
(***************************************************************************)
(* Arithmetic of page blocks.  A block is a pair <<page, order>>: the      *)
(* 2^order pages from that page on.                                        *)
(***************************************************************************)
EXTENDS Integers

(* 1 << o, for the orders up to the 11 of pmm.h.                           *)
Pow2(o) == <<1, 2, 4, 8, 16, 32, 64, 128, 256, 512, 1024, 2048>>[o + 1]

(* x ^ (1 << o)                                                            *)
Xor(x, o) == IF (x \div Pow2(o)) % 2 = 0 THEN x + Pow2(o) ELSE x - Pow2(o)

Aligned(p, o) == p % Pow2(o) = 0

Disjoint(b, c) ==
    b[1] + Pow2(b[2]) <= c[1] \/ c[1] + Pow2(c[2]) <= b[1]

=============================================================================
