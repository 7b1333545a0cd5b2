------------------------------- MODULE RingOps -------------------------------
(****************************************************************************)
(* crypto/ring/ring_operations.go: every function that works on             *)
(* polynomials, as calls on three of them.  p1 is a, p2 is b, the result    *)
(* goes into c or back into a.  A function and its ...Lvl form are one      *)
(* action: the former is the latter at the last level.                      *)
(*                                                                          *)
(* Many of these functions leave coefficients above q ("NoMod", "Constant") *)
(* and many demand coefficients below some multiple of q.  lim keeps, per   *)
(* polynomial and row, the exclusive bound the comments in the code promise *)
(* on the result; a call is made when the bounds of its operands are the    *)
(* ones the word functions under it ask for.                                *)
(****************************************************************************)
EXTENDS Ring

CONSTANTS Start,      \* the three initial polynomials, each [p |-> a poly, top |-> its bounds]
          Scalars,    \* small scalar arguments, and shifts
          PerRow,     \* one number per modulus
          Signed,     \* coefficients of both signs, and above the moduli
          MaxCalls    \* bound on the calls
VARIABLES reg,        \* register -> polynomial
          lim,        \* register -> row -> exclusive bound on its coefficients
          call,       \* the last call
          calls       \* how many so far
vars == << reg, lim, call, calls >>

Regs == {"a", "b", "c"}
ASSUME OpsAssumption ==
    /\ Scalars \subseteq 1..(R \div 2) /\ 2^N \in Nat \ {0} /\ 2^N % N = 0
    /\ PerRow \in [Rows -> 0..(R - 1)] /\ Signed \in [Coefs -> (1 - R)..(R - 1)]
    /\ \A s \in Start, r \in Regs :
           /\ s[r].p \in Polys /\ s[r].top \in [Rows -> 1..R]
           /\ \A i \in Rows, j \in Coefs : s[r].p[i][j] < s[r].top[i]

Last == Len(Modulus)                  \* the level of the functions without Lvl
Level == Rows
Dest == {"a", "c"}
q(i) == Modulus[i]
mred(i) == MredParams[i]
bred(i) == BredParams[i]

Init == /\ \E s \in Start : /\ reg = [r \in Regs |-> s[r].p]
                                      /\ lim = [r \in Regs |-> s[r].top]
        /\ call = [op |-> "none", lvl |-> 0, dst |-> "a", arg |-> 0]
        /\ calls = 0

\* A call of op on the rows 1..l of d: F makes the new row, Fits is what it
\* asks of the bounds of a, b and d, Top the bound it promises.
ByRow(op, l, d, arg, F(_, _, _, _), Fits(_, _, _, _), Top(_, _, _, _)) ==
    /\ calls < MaxCalls
    /\ \A i \in 1..l : Fits(lim.a[i], lim.b[i], lim[d][i], q(i))
    /\ reg' = [reg EXCEPT ![d] = [i \in Rows |->
                  IF i > l THEN @[i] ELSE F(reg.a[i], reg.b[i], @[i], i)]]
    /\ lim' = [lim EXCEPT ![d] = [i \in Rows |->
                  IF i > l THEN @[i] ELSE Top(lim.a[i], lim.b[i], @[i], q(i))]]
    /\ call' = [op |-> op, lvl |-> l, dst |-> d, arg |-> arg]
    /\ calls' = calls + 1
\* The same with F on coefficients: the loop unrolled eight at a time.
ByCoef(op, l, d, arg, F(_, _, _, _), Fits(_, _, _, _), Top(_, _, _, _)) ==
    ByRow(op, l, d, arg, LAMBDA x, y, z, i : [j \in Coefs |-> F(x[j], y[j], z[j], i)], Fits, Top)

Always(la, lb, lc, m) == TRUE
BelowQ(la, lb, lc, m) == m
Below2Q(la, lb, lc, m) == 2 * m

\* Montgomery's product is below q when x * y < q * R.
Montgomery(la, lb, m) == (la - 1) * (lb - 1) < m * R

AddLvl(l, d) ==
    ByCoef("add", l, d, 0, LAMBDA x, y, z, i : CRed(Wrap(x + y), q(i)),
           LAMBDA la, lb, lc, m : la + lb - 2 < 2 * m, BelowQ)
AddNoModLvl(l, d) ==
    ByCoef("add", l, d, 0, LAMBDA x, y, z, i : Wrap(x + y),
           LAMBDA la, lb, lc, m : la + lb - 2 < R, LAMBDA la, lb, lc, m : la + lb - 1)
SubLvl(l, d) ==
    ByCoef("sub", l, d, 0, LAMBDA x, y, z, i : CRed(Wrap(x + q(i) - y), q(i)),
           LAMBDA la, lb, lc, m : la <= m /\ lb <= m + 1, BelowQ)
SubNoModLvl(l, d) ==
    ByCoef("sub", l, d, 0, LAMBDA x, y, z, i : Wrap(x + q(i) - y),
           LAMBDA la, lb, lc, m : la + m - 1 < R /\ lb <= m + 1,
           LAMBDA la, lb, lc, m : la + m)
\* The opposite of 0 is q, not 0.
NegLvl(l, d) ==
    ByCoef("neg", l, d, 0, LAMBDA x, y, z, i : Wrap(q(i) - x),
           LAMBDA la, lb, lc, m : la <= m + 1, LAMBDA la, lb, lc, m : m + 1)
ReduceLvl(l, d) ==
    ByCoef("copy", l, d, 0, LAMBDA x, y, z, i : BRedAdd(x, q(i), bred(i)), Always, BelowQ)
ReduceConstantLvl(l, d) ==
    ByCoef("copy", l, d, 0, LAMBDA x, y, z, i : BRedAddConstant(x, q(i), bred(i)), Always, Below2Q)
\* Reduction by a modulus m that is not the row's: it means what it says on
\* canonical coefficients.
Mod(m, d) ==
    ByCoef("mod", Last, d, m, LAMBDA x, y, z, i : BRedAdd(x, m, BRedParams(m)),
           LAMBDA la, lb, lc, n : la <= n, BelowQ)
AND(m, d) ==
    ByCoef("and", Last, d, m, LAMBDA x, y, z, i : And(x, m),
           LAMBDA la, lb, lc, n : la <= n, BelowQ)
OR(m, d) ==
    ByCoef("or", Last, d, m, LAMBDA x, y, z, i : Or(x, m),
           LAMBDA la, lb, lc, n : la <= n /\ m < n, Below2Q)
XOR(m, d) ==
    ByCoef("xor", Last, d, m, LAMBDA x, y, z, i : Xor(x, m),
           LAMBDA la, lb, lc, n : la <= n /\ m < n, Below2Q)

\* Barrett products take any two words.
MulCoeffs(d) ==
    ByCoef("mul", Last, d, 0, LAMBDA x, y, z, i : BRed(x, y, q(i), bred(i)), Always, BelowQ)
MulCoeffsConstant(d) ==
    ByCoef("mul", Last, d, 0, LAMBDA x, y, z, i : BRedConstant(x, y, q(i), bred(i)),
           Always, Below2Q)
MulCoeffsAndAdd(d) ==
    ByCoef("muladd", Last, d, 0,
           LAMBDA x, y, z, i : CRed(Wrap(z + BRed(x, y, q(i), bred(i))), q(i)),
           LAMBDA la, lb, lc, m : lc <= m + 1, BelowQ)
MulCoeffsAndAddNoMod(d) ==
    ByCoef("muladd", Last, d, 0, LAMBDA x, y, z, i : Wrap(z + BRed(x, y, q(i), bred(i))),
           LAMBDA la, lb, lc, m : lc + m - 2 < R, LAMBDA la, lb, lc, m : lc + m - 1)

MulCoeffsMontgomeryLvl(l, d) ==
    ByCoef("montmul", l, d, 0, LAMBDA x, y, z, i : MRed(x, y, q(i), mred(i)),
           LAMBDA la, lb, lc, m : Montgomery(la, lb, m), BelowQ)
MulCoeffsMontgomeryConstantLvl(l, d) ==
    ByCoef("montmul", l, d, 0, LAMBDA x, y, z, i : MRedConstant(x, y, q(i), mred(i)),
           LAMBDA la, lb, lc, m : Montgomery(la, lb, m), Below2Q)
MulCoeffsMontgomeryAndAddLvl(l, d) ==
    ByCoef("montmuladd", l, d, 0,
           LAMBDA x, y, z, i : CRed(Wrap(z + MRed(x, y, q(i), mred(i))), q(i)),
           LAMBDA la, lb, lc, m : Montgomery(la, lb, m) /\ lc <= m + 1, BelowQ)
MulCoeffsMontgomeryAndAddNoModLvl(l, d) ==
    ByCoef("montmuladd", l, d, 0, LAMBDA x, y, z, i : Wrap(z + MRed(x, y, q(i), mred(i))),
           LAMBDA la, lb, lc, m : Montgomery(la, lb, m) /\ lc + m - 2 < R,
           LAMBDA la, lb, lc, m : lc + m - 1)
MulCoeffsMontgomeryConstantAndAddNoModLvl(l, d) ==
    ByCoef("montmuladd", l, d, 0,
           LAMBDA x, y, z, i : Wrap(z + MRedConstant(x, y, q(i), mred(i))),
           LAMBDA la, lb, lc, m : Montgomery(la, lb, m) /\ lc + 2 * m - 2 < R,
           LAMBDA la, lb, lc, m : lc + 2 * m - 1)
MulCoeffsMontgomeryAndSub(d) ==
    ByCoef("montmulsub", Last, d, 0,
           LAMBDA x, y, z, i : CRed(Wrap(z + (q(i) - MRed(x, y, q(i), mred(i)))), q(i)),
           LAMBDA la, lb, lc, m : Montgomery(la, lb, m) /\ lc <= m, BelowQ)
MulCoeffsMontgomeryAndSubNoMod(d) ==
    ByCoef("montmulsub", Last, d, 0,
           LAMBDA x, y, z, i : Wrap(z + q(i) - MRed(x, y, q(i), mred(i))),
           LAMBDA la, lb, lc, m : Montgomery(la, lb, m) /\ lc + m - 1 < R,
           LAMBDA la, lb, lc, m : lc + m)
\* The scalar argument is computed and then overwritten: the factor is 2.
MulCoeffsMontgomeryMy(d) ==
    ByCoef("mulscalar", Last, d, 2, LAMBDA x, y, z, i : MRed(x, ToMont(2, i), q(i), mred(i)),
           Always, BelowQ)
\* One vector of words for every row.
MulByVectorMontgomery(v, d) ==
    ByRow("vecmul", Last, d, v,
          LAMBDA x, y, z, i : [j \in Coefs |-> MRed(x[j], v[j], q(i), mred(i))],
          LAMBDA la, lb, lc, m : \A j \in Coefs : Montgomery(la, v[j] + 1, m), BelowQ)
MulByVectorMontgomeryAndAddNoMod(v, d) ==
    ByRow("vecmuladd", Last, d, v,
          LAMBDA x, y, z, i : [j \in Coefs |-> Wrap(z[j] + MRed(x[j], v[j], q(i), mred(i)))],
          LAMBDA la, lb, lc, m : /\ lc + m - 2 < R
                                 /\ \A j \in Coefs : Montgomery(la, v[j] + 1, m),
          LAMBDA la, lb, lc, m : lc + m - 1)

\* Term k of the schoolbook product is added to (or, once past X^N,
\* subtracted from) coefficient j, reducing after each term.
Convolution(x, y, i) ==
    [j \in Coefs |->
        LET term(k) == IF k <= j THEN MRed(x[k], y[j - k], q(i), mred(i))
                       ELSE q(i) - MRed(x[k], y[N + j - k], q(i), mred(i))
            sum[k \in 0..N] == IF k = 0 THEN 0 ELSE CRed(Wrap(sum[k-1] + term(k-1)), q(i))
        IN  sum[N]]
ToMontRow(x, i) == [j \in Coefs |-> ToMont(x[j], i)]
MulPolyNaive(d) ==
    ByRow("product", Last, d, 0, LAMBDA x, y, z, i : Convolution(ToMontRow(x, i), y, i),
          Always, BelowQ)
MulPolyNaiveMontgomery(d) ==
    ByRow("montproduct", Last, d, 0, LAMBDA x, y, z, i : Convolution(x, y, i),
          LAMBDA la, lb, lc, m : Montgomery(la, lb, m), BelowQ)

\* The four functions on scalars write p1 whatever p2 is.
AddScalarBigint(k) ==
    ByCoef("addscalar", Last, "a", k, LAMBDA x, y, z, i : CRed(Wrap(x + (k % q(i))), q(i)),
           LAMBDA la, lb, lc, m : la <= m + 1, BelowQ)
AddScalar(k) ==
    ByCoef("addscalar", Last, "a", k, LAMBDA x, y, z, i : CRed(Wrap(x + k), q(i)),
           LAMBDA la, lb, lc, m : la + k - 1 < 2 * m, BelowQ)
SubScalarBigint(k) ==
    ByCoef("addscalar", Last, "a", -k,
           LAMBDA x, y, z, i : CRed(Wrap(x + q(i) - (k % q(i))), q(i)),
           LAMBDA la, lb, lc, m : la <= m, BelowQ)
SubScalar(k) ==
    ByCoef("addscalar", Last, "a", -k, LAMBDA x, y, z, i : CRed(Wrap(x + q(i) - k), q(i)),
           LAMBDA la, lb, lc, m : la <= m /\ k <= m, BelowQ)
\* The scalar goes to the Montgomery domain, so the product leaves it.
TimesScalar(x, k, i) == MRed(x, ToMont(BRedAdd(k, q(i), bred(i)), i), q(i), mred(i))
MulScalarLvl(l, k, d) ==
    ByCoef("mulscalar", l, d, k, LAMBDA x, y, z, i : TimesScalar(x, k, i), Always, BelowQ)
MulScalarBigintLvl(l, k, d) ==
    ByCoef("mulscalar", l, d, k, LAMBDA x, y, z, i : TimesScalar(x, k % q(i), i), Always, BelowQ)

MFormLvl(l, d) ==
    ByCoef("tomont", l, d, 0, LAMBDA x, y, z, i : ToMont(x, i), Always, BelowQ)
InvMFormLvl(l, d) ==
    ByCoef("frommont", l, d, 0, LAMBDA x, y, z, i : InvMForm(x, q(i), mred(i)), Always, BelowQ)
\* The polynomial of degree 0 with one given value per modulus.
MFormArray(coeffs, d) ==
    ByRow("const", Last, d, coeffs,
          LAMBDA x, y, z, i : [j \in Coefs |-> IF j = 0 THEN ToMont(coeffs[i], i) ELSE 0],
          Always, BelowQ)
\* Negative integers are raised by q until they are not.
Raised(c, m) == CHOOSE t \in 0..(R - 1) : IF c >= 0 THEN t = c ELSE t < m /\ (t - c) % m = 0
MFormArrayInt(coeffs, d) ==
    ByRow("setmont", Last, d, coeffs,
          LAMBDA x, y, z, i : [j \in Coefs |-> ToMont(Raised(coeffs[j], q(i)), i)],
          Always, BelowQ)
\* Into p2 and from there in place: the power multiplies p1, so the two must be
\* the same polynomial for the result to be p1 * 2^n.
TimesPow2(x, n, i) == PowerOf2(ToMont(x, i), n, q(i), mred(i))
MulByPow2Lvl(l, n) ==
    ByCoef("pow2", l, "a", n, LAMBDA x, y, z, i : TimesPow2(x, n, i), Always, BelowQ)

\* n is reduced mod 2N; past N the coefficients change sign, and those that
\* pass X^N change it (again).
Monomial(x, n, i) ==
    LET s == n % (2 * N)
        t == [j \in Coefs |-> IF s < N THEN x[j] ELSE q(i) - x[j]]
        k == s % N
    IN  IF s = 0 THEN x
        ELSE [j \in Coefs |-> IF j < k THEN q(i) - t[N - k + j] ELSE t[j - k]]
MultByMonomial(n, d) ==
    ByRow("monomial", Last, d, n, LAMBDA x, y, z, i : Monomial(x, n, i),
          LAMBDA la, lb, lc, m : la <= m + 1, LAMBDA la, lb, lc, m : m + 1)
\* A rotation of the slice: defined for n below N only.
Shift(n, d) ==
    LET k == n % 2^N
    IN  /\ k < N
        /\ ByRow("shift", Last, d, n,
                 LAMBDA x, y, z, i : [j \in Coefs |-> IF j < N - k THEN x[k + j] ELSE x[j - (N - k)]],
                 Always, LAMBDA la, lb, lc, m : la)
BitReversal == [j \in Coefs |-> BitReverse64(j, LogN)]
\* Coefficient j moves to the reverse of j; in place, pairs are swapped once.
MovedTo(j) == CHOOSE k \in Coefs : BitReversal[k] = j
BitReverse(d) ==
    ByRow("permute", Last, d, BitReversal, LAMBDA x, y, z, i : [j \in Coefs |-> x[MovedTo(j)]],
          Always, LAMBDA la, lb, lc, m : la)
\* gal runs through the powers of (psi^2)^n; coefficient 0 is left alone, and
\* like the scalars the result is written over p1.
Gal(n, i) ==
    LET root == modexpMontgomery(MRed(PsiMont[i], PsiMont[i], q(i), mred(i)), n % 2^N,
                                 q(i), mred(i), bred(i))
        gal[j \in Coefs] == IF j = 0 THEN ToMont(1, i) ELSE MRed(gal[j-1], root, q(i), mred(i))
    IN  [j \in Coefs |-> gal[j]]
Rotate(n) ==
    ByRow("galois", Last, "a",
          [i \in Rows |-> [j \in Coefs |->
              ModExp(InvMForm(PsiMont[i], q(i), mred(i)), (2 * n * j) % (2 * N), q(i))]],
          LAMBDA x, y, z, i : LET g == Gal(n, i) IN
              [j \in Coefs |-> IF j = 0 THEN x[0] ELSE MRed(x[j], g[j], q(i), mred(i))],
          LAMBDA la, lb, lc, m : la <= m, BelowQ)

\* Coefficients given as integers, signed or not.
SetCoefficients(coeffs, d) ==
    ByRow("set", Last, d, coeffs,
          LAMBDA x, y, z, i : [j \in Coefs |->
              CRed(Wrap(GoRem(coeffs[j], q(i)) + q(i)), q(i))], Always, BelowQ)

EqualLvlSlip(l) ==                                          \* a slip in EqualLvl
    /\ calls < MaxCalls
    /\ call' = [op |-> "equal", lvl |-> l, dst |-> "a",
                arg |-> \A i \in 1..l : reg.a[i] = reg.b[i]]
    /\ calls' = calls + 1
    /\ UNCHANGED << reg, lim >>
\* A comparison reduces both operands first, in place.
EqualLvl(l) ==
    LET reduced == [r \in Regs |-> IF r = "c" THEN reg.c ELSE [i \in Rows |->
                       IF i > l THEN reg[r][i]
                       ELSE [j \in Coefs |-> BRedAdd(reg[r][i][j], q(i), bred(i))]]]
    IN  /\ calls < MaxCalls
        /\ reg' = reduced
        /\ lim' = [r \in Regs |-> IF r = "c" THEN lim.c
                                  ELSE [i \in Rows |-> IF i > l THEN lim[r][i] ELSE q(i)]]
        /\ call' = [op |-> "equal", lvl |-> l, dst |-> "a",
                    arg |-> \A i \in 1..l : reduced.a[i] = reduced.b[i]]
        /\ calls' = calls + 1

\* The forms without a level that stand apart from theirs.
Reduce(d) == ReduceLvl(Last, d)
ReduceConstant(d) == ReduceConstantLvl(Last, d)
MulCoeffsMontgomery(d) == MulCoeffsMontgomeryLvl(Last, d)
MulCoeffsMontgomeryConstant(d) == MulCoeffsMontgomeryConstantLvl(Last, d)
MulCoeffsMontgomeryAndAddNoMod(d) == MulCoeffsMontgomeryAndAddNoModLvl(Last, d)
MulCoeffsMontgomeryConstantAndAddNoMod(d) == MulCoeffsMontgomeryConstantAndAddNoModLvl(Last, d)
MFormPoly(d) == MFormLvl(Last, d)
InvMFormPoly(d) == InvMFormLvl(Last, d)

Additive == \E l \in Level, d \in Dest :
    \/ AddLvl(l, d) \/ AddNoModLvl(l, d) \/ SubLvl(l, d) \/ SubNoModLvl(l, d)
    \/ NegLvl(l, d) \/ ReduceLvl(l, d) \/ ReduceConstantLvl(l, d)
Products == \E l \in Level, d \in Dest :
    \/ MulCoeffsMontgomeryLvl(l, d) \/ MulCoeffsMontgomeryConstantLvl(l, d)
    \/ MulCoeffsMontgomeryAndAddLvl(l, d) \/ MulCoeffsMontgomeryAndAddNoModLvl(l, d)
    \/ MulCoeffsMontgomeryConstantAndAddNoModLvl(l, d)
    \/ MFormLvl(l, d) \/ InvMFormLvl(l, d)
    \/ \E k \in Scalars : MulScalarLvl(l, k, d) \/ MulScalarBigintLvl(l, k, d)
WholeProducts == \E d \in Dest :
    \/ MulCoeffs(d) \/ MulCoeffsConstant(d) \/ MulCoeffsAndAdd(d) \/ MulCoeffsAndAddNoMod(d)
    \/ MulCoeffsMontgomeryAndSub(d) \/ MulCoeffsMontgomeryAndSubNoMod(d)
    \/ MulCoeffsMontgomeryMy(d) \/ MulPolyNaive(d) \/ MulPolyNaiveMontgomery(d)
    \/ Reduce(d) \/ ReduceConstant(d) \/ MulCoeffsMontgomery(d) \/ MulCoeffsMontgomeryConstant(d)
    \/ MulCoeffsMontgomeryAndAddNoMod(d) \/ MulCoeffsMontgomeryConstantAndAddNoMod(d)
    \/ MFormPoly(d) \/ InvMFormPoly(d)
    \/ MulByVectorMontgomery(reg.b[1], d) \/ MulByVectorMontgomeryAndAddNoMod(reg.b[1], d)
Scalar == \E k \in Scalars :
    \/ AddScalar(k) \/ AddScalarBigint(k) \/ SubScalar(k) \/ SubScalarBigint(k)
    \/ \E l \in Level : MulByPow2Lvl(l, k % W)
    \/ \E d \in Dest : Mod(k, d) \/ AND(k, d) \/ OR(k, d) \/ XOR(k, d)
Layout == \E n \in Scalars :
    \/ Rotate(n)
    \/ \E d \in Dest : MultByMonomial(n, d) \/ Shift(n, d)
Conversions ==
    \/ \E l \in Level : EqualLvl(l)
    \/ \E d \in Dest : \/ BitReverse(d) \/ MFormArray(PerRow, d)
                       \/ MFormArrayInt(Signed, d) \/ SetCoefficients(Signed, d)
Next == Additive \/ Products \/ WholeProducts \/ Scalar \/ Layout \/ Conversions
Spec == Init /\ [][Next]_vars

-----------------------------------------------------------------------------
\* Coefficients are words: no difference that the code leaves to the word size
\* falls below zero where the next operation would see it.
TypeOK == reg \in [Regs -> Polys] /\ lim \in [Regs -> [Rows -> 1..R]]

\* No call lets a coefficient grow past the bound its comment states, whatever
\* calls came before: a lazily reduced sum never wraps around the word.
WithinBounds == \A r \in Regs, i \in Rows, j \in Coefs : reg[r][i][j] < lim[r][i] /\ lim[r][i] <= R

Residues == [r \in Regs |-> [i \in Rows |-> [j \in Coefs |-> reg[r][i][j] % q(i)]]]
Abstract == INSTANCE ModRing WITH val <- Residues, Degree <- N, Radix <- R

\* Whatever is reduced when, the residues move as the operations of the ring
\* say: the rows above the level, the other polynomials and the sign at X^N
\* included.
ImplementsRing == Abstract!Spec
=============================================================================
