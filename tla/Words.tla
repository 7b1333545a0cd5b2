-------------------------------- MODULE Words --------------------------------
(****************************************************************************)
(* The word arithmetic every polynomial of crypto/ring is made of:          *)
(* ring/modular_reduction.go and the exponentiations of ring/utils.go.  A   *)
(* word has W bits (64 in the code) and arithmetic wraps at R = 2^W; a      *)
(* modulus q is odd and small enough that a few multiples of it fit.        *)
(****************************************************************************)
EXTENDS Integers, Bits

ASSUME WAssumption == W \in Nat \ {0}

R == 2^W
\* Facts of powers of two that the provers lack.
ASSUME RAssumption == R \in Nat \ {0}
ASSUME WordPowers ==
    \A k \in 0..W : /\ 2^k \in Nat \ {0} /\ 2^(W - k) \in Nat \ {0} /\ R = 2^k * 2^(W - k)
                    /\ k < W => 2^(k + 1) = 2 * 2^k /\ 2^k < R
                    /\ k = 0 => 2^k = 1
Wrap(x) == x % R                      \* what a uint64 keeps of x
Hi(x) == x \div R                     \* bits.Mul64 of a product x
Lo(x) == x % R

CRedSlip(a, q) == IF a > q THEN a - q ELSE a           \* a slip in CRed
\* a - q once, when a is not below q.
CRed(a, q) == IF a >= q THEN a - q ELSE a

\* floor(R^2 / q) in two words.
BRedParams(q) == << ((R * R) \div q) \div R, ((R * R) \div q) % R >>

\* q^-1 mod R, by W - 1 squarings.
MRedParams(q) ==
    LET inv[k \in 0..W-1] ==
            IF k = 0 THEN << 1, q >>
            ELSE LET s == inv[k-1] IN << Wrap(s[1] * s[2]), Wrap(s[2] * s[2]) >>
    IN  inv[W-1][1]

MFormConstant(a, q, u) == Wrap(-((a * u[1] + Hi(a * u[2])) * q))
MForm(a, q, u) == CRed(MFormConstant(a, q, u), q)

InvMFormConstantSlip(a, q, qInv) == -Hi(Wrap(a * qInv) * q)   \* a slip in InvMFormConstant
InvMFormConstant(a, q, qInv) == q - Hi(Wrap(a * qInv) * q)
InvMForm(a, q, qInv) == CRed(InvMFormConstant(a, q, qInv), q)

MRedConstant(x, y, q, qInv) ==
    Wrap(Hi(x * y) - Hi(Wrap(Lo(x * y) * qInv) * q) + q)
MRed(x, y, q, qInv) == CRed(MRedConstant(x, y, q, qInv), q)

BRedAddConstant(x, q, u) == Wrap(x - Hi(x * u[1]) * q)
BRedAdd(a, q, u) == CRed(BRedAddConstant(a, q, u), q)

BRedQuotientSlip(x, y, u) ==                          \* a slip in BRedQuotient
    LET mhi == Hi(x * y)
        mlo == Lo(x * y)
    IN  Wrap(mhi * u[1] + Hi(mlo * u[1]) + Hi(mhi * u[2]))
\* The high half of (x*y) * u, one word product and carry at a time.
BRedQuotient(x, y, u) ==
    LET mhi == Hi(x * y)
        mlo == Lo(x * y)
        s0  == Lo(mlo * u[1]) + Hi(mlo * u[2])
        s1  == Lo(mhi * u[2]) + Lo(s0)
    IN  Wrap(mhi * u[1] + Hi(mlo * u[1]) + Hi(s0) + Hi(mhi * u[2]) + Hi(s1))
BRedConstant(x, y, q, u) == Wrap(Lo(x * y) - BRedQuotient(x, y, u) * q)
BRed(x, y, q, u) == CRed(BRedConstant(x, y, q, u), q)

\* x * 2^n / R mod q: a Montgomery product by the power of two.
PowerOf2(x, n, q, qInv) ==
    CRed(Wrap(Hi(x * 2^n) - Hi(Wrap(Lo(x * 2^n) * qInv) * q) + q), q)

\* How many bits x has.
BitLen(x) == CHOOSE k \in 0..W : 2^k > x /\ \A m \in 0..W : 2^m > x => k <= m

\* Square and multiply over the bits of e, least significant first: the pair
\* is <<result, x>> after k bits.
Power(one, x, e, Mul(_, _)) ==
    LET run[k \in 0..W] ==
            IF k = 0 THEN << one, x >>
            ELSE LET s == run[k-1]
                 IN  << IF (e \div 2^(k-1)) % 2 = 1 THEN Mul(s[1], s[2]) ELSE s[1],
                        Mul(s[2], s[2]) >>
    IN  run[BitLen(e)][1]

\* x^e modulo m, one factor at a time: what the exponentiations are for.
Pow(x, e, m) ==
    LET pow[k \in 0..e] == IF k = 0 THEN 1 % m ELSE (pow[k-1] * x) % m IN pow[e]

ModExp(x, e, p) == LET u == BRedParams(p) IN Power(1, x, e, LAMBDA s, t : BRed(s, t, p, u))
modexpMontgomery(x, e, q, qInv, u) ==
    Power(MForm(1, q, u), x, e, LAMBDA s, t : MRed(s, t, q, qInv))

\* The prime factors of n and the first primitive root of a prime above 2.
getFactors(n) == {p \in 2..n : n % p = 0 /\ \A d \in 2..(p - 1) : p % d # 0}
IsGenerator(g, q) == \A p \in getFactors(q - 1) : ModExp(g, (q - 1) \div p, q) # 1
primitiveRoot(q) ==
    CHOOSE g \in 3..q : IsGenerator(g, q) /\ \A h \in 3..(g - 1) : ~IsGenerator(h, q)

\* k bits of x in reverse order.
BitReverse64(x, k) ==
    LET rev[b \in 0..k] == IF b = 0 THEN 0 ELSE 2 * rev[b-1] + ((x \div 2^(b-1)) % 2)
    IN  rev[k]
=============================================================================
