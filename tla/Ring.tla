--------------------------------- MODULE Ring ---------------------------------
(****************************************************************************)
(* The ring Z_Q[X]/(X^N + 1) of crypto/ring/ring.go, Q the product of the   *)
(* moduli: its precomputed tables, the conversions between integers and     *)
(* residues, and what NewRing accepts.  A polynomial is one row of N        *)
(* coefficients per modulus.                                                *)
(****************************************************************************)
EXTENDS Words, Sequences, Functions, FiniteSets

CONSTANTS LogN,      \* N = 2^LogN coefficients
          Modulus    \* the sequence of moduli
N == 2^LogN
Rows == 1..Len(Modulus)
Coefs == 0..(N - 1)
Polys == [Rows -> [Coefs -> 0..(R - 1)]]

\* What NewRing checks, and the three spare bits the transforms rely on.
setParameters ==
    /\ LogN \in Nat /\ N >= 16
    /\ Modulus \in Seq(Nat) /\ Len(Modulus) > 0
    /\ \A i, j \in Rows : i # j => Modulus[i] # Modulus[j]
    /\ \A i \in Rows : /\ getFactors(Modulus[i]) = {Modulus[i]}
                       /\ Modulus[i] % (2 * N) = 1
                       /\ 8 * Modulus[i] < R
ASSUME RingAssumption == setParameters

\* Facts of powers of two and of primes that the provers lack.
ASSUME DegreePowers ==
    \A k \in 0..LogN : /\ 2^k \in Nat \ {0}
                       /\ k > 0 => 2^k = 2 * 2^(k - 1)
                       /\ \A b \in 0..k : 2^k = 2^b * 2^(k - b)
ASSUME PrimitiveRoots ==
    \A i \in Rows : LET g == primitiveRoot(Modulus[i]) IN
        g \in 3..Modulus[i] /\ ModExp(g, Modulus[i] - 1, Modulus[i]) = 1

Product(s, k) == LET upto[m \in 0..k] == IF m = 0 THEN 1 ELSE s[m] * upto[m-1] IN upto[k]
ModulusBigint == Product(Modulus, Len(Modulus))

BredParams == [i \in Rows |-> BRedParams(Modulus[i])]
MredParams == [i \in Rows |-> MRedParams(Modulus[i])]

\* x^-1 mod Modulus[i] by Fermat, as ModExp(x, q - 2, q).
InverseMod(x, i) == ModExp(x, Modulus[i] - 2, Modulus[i])
ToMont(x, i) == MForm(x, Modulus[i], BredParams[i])

RescaleParams == [j \in Rows |-> [i \in 1..(j - 1) |-> ToMont(InverseMod(Modulus[j], i), i)]]

\* The transforms' tables: the powers of a 2N-th root of unity (and of its
\* inverse), in Montgomery form, stored at the bit-reversed exponent.
NttNInv == [i \in Rows |-> ToMont(InverseMod(N, i), i)]
RootPower(i) == (Modulus[i] - 1) \div (2 * N)
PsiMont == [i \in Rows |-> LET q == Modulus[i] IN
               ToMont(ModExp(primitiveRoot(q), RootPower(i), q), i)]
PsiInvMont == [i \in Rows |-> LET q == Modulus[i] IN
               ToMont(ModExp(primitiveRoot(q), (q - 1) - RootPower(i), q), i)]
PowersOf(root, i) ==
    LET pow[j \in Coefs] ==
            IF j = 0 THEN ToMont(1, i) ELSE MRed(root, pow[j-1], Modulus[i], MredParams[i])
        table == [j \in Coefs |-> pow[j]]
    IN  [j \in Coefs |-> table[BitReverse64(j, LogN)]]
NttPsi == [i \in Rows |-> PowersOf(PsiMont[i], i)]
NttPsiInv == [i \in Rows |-> PowersOf(PsiInvMont[i], i)]

NewPoly == [i \in Rows |-> [j \in Coefs |-> 0]]

\* Coefficients given as machine integers, signed or not; Go's remainder of a
\* negative number is negative, hence the addition of Qi before CRed.
GoRem(x, m) == IF x < 0 THEN -((-x) % m) ELSE x % m
SetCoefficientsInt64(coeffs) ==
    [i \in Rows |-> [j \in Coefs |->
        CRed(Wrap(GoRem(coeffs[j], Modulus[i]) + Modulus[i]), Modulus[i])]]
SetCoefficientsBigint(coeffs) == [i \in Rows |-> [j \in Coefs |-> coeffs[j] % Modulus[i]]]

\* The integer in 0..Q_level-1 with the residues of column x, by the Chinese
\* remainder theorem with the cofactors of the full product.
CrtReconstruction(i) ==
    LET co == ModulusBigint \div Modulus[i] IN co * InverseMod(co % Modulus[i], i)
PolyToBigint(p, level) ==
    [x \in Coefs |->
        FoldFunction(LAMBDA t, s : s + t, 0,
                     [i \in 1..level |-> p[i][x] * CrtReconstruction(i)])
        % Product(Modulus, level)]
===============================================================================
