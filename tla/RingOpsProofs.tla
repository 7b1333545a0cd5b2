---------------------------- MODULE RingOpsProofs ----------------------------
EXTENDS RingOps, WordsProofs

-----------------------------------------------------------------------------
(* A coefficient *)
\* A modulus NewRing accepts and the tables made of it; v is the inverse of R.
Good(m, qInv, u, v) ==
    /\ m \in Nat \ {0} /\ 2 <= m /\ 8 * m < R
    /\ qInv \in Nat /\ (m * qInv) % R = 1 % R
    /\ u = BRedParams(m)
    /\ v \in Nat /\ (v * R) % m = 1

\* A coefficient, its bound and its residue.
Bounded(x, top, res, m) == x \in Nat /\ top \in 1..R /\ x < top /\ res = x % m

\* CRed brings a word below twice the modulus below it.
LEMMA Corrected ==
    ASSUME NEW m \in Nat \ {0}, 8 * m < R, NEW e \in 0..((2 * m) - 1), NEW r, e % m = r
    PROVE  Bounded(CRed(Wrap(e), m), m, r, m)
  <1>1. e \in 0..(R - 1) /\ e \in Int /\ m \in 1..R
    BY RAssumption
  <1>2. Wrap(e) = e
    BY <1>1, WrapRange
  <1>3. CRed(e, m) \in 0..(m - 1) /\ CRed(e, m) % m = e % m
    BY CRedRange
  <1>4. QED
    BY <1>1, <1>2, <1>3 DEF Bounded

\* A word that is only stored keeps the bound of the expression that makes it.
LEMMA Uncorrected ==
    ASSUME NEW m \in Nat \ {0}, NEW e \in 0..(R - 1), NEW top \in 1..R, e < top, NEW r, e % m = r
    PROVE  Bounded(Wrap(e), top, r, m)
  <1>1. e \in Int /\ e \in Nat
    BY RAssumption
  <1>2. Wrap(e) = e
    BY <1>1, WrapRange
  <1>3. QED
    BY <1>1, <1>2 DEF Bounded

\* Products of words.
LEMMA Barrett ==
    ASSUME NEW m, NEW qInv, NEW u, NEW v, Good(m, qInv, u, v),
           NEW x, NEW xt, NEW xr, Bounded(x, xt, xr, m), NEW y, NEW yt, NEW yr, Bounded(y, yt, yr, m)
    PROVE  /\ BRed(x, y, m, u) \in 0..(m - 1) /\ BRed(x, y, m, u) % m = (xr * yr) % m
           /\ BRedConstant(x, y, m, u) \in 0..((2 * m) - 1)
           /\ BRedConstant(x, y, m, u) % m = (xr * yr) % m
  <1>1. m \in Nat \ {0} /\ 2 * m <= R /\ x \in 0..(R - 1) /\ y \in 0..(R - 1) /\ x * y \in Int
        /\ u = BRedParams(m) /\ xr = x % m /\ yr = y % m
    BY RAssumption DEF Good, Bounded
  <1>2. (x * y) % m \in 0..(m - 1) /\ ((x * y) % m) % m = (x * y) % m
    BY <1>1, ModSmall, Zenon
  <1>3. ((x % m) * (y % m)) % m = (x * y) % m
    <2>1. x \in Int /\ y \in Int
      BY <1>1
    <2>2. QED
      BY <1>1, <2>1, ModProd, Zenon
  <1>4. QED
    BY <1>1, <1>2, <1>3, BarrettProduct, BRedConstantRange

\* Both Montgomery products take the factor R out; the Constant one leaves one
\* modulus too much.
LEMMA Mont ==
    ASSUME NEW m, NEW qInv, NEW u, NEW v, Good(m, qInv, u, v),
           NEW x, NEW xt, NEW xr, Bounded(x, xt, xr, m), NEW y, NEW yt, NEW yr, Bounded(y, yt, yr, m),
           Montgomery(xt, yt, m)
    PROVE  /\ MRed(x, y, m, qInv) \in 0..(m - 1)
           /\ MRed(x, y, m, qInv) % m = (((xr * yr) % m) * v) % m
           /\ MRedConstant(x, y, m, qInv) \in 0..((2 * m) - 1)
           /\ MRedConstant(x, y, m, qInv) % m = (((xr * yr) % m) * v) % m
  <1>1. m \in Nat \ {0} /\ 2 * m <= R /\ x \in Nat /\ y \in Nat /\ x * y \in Int
        /\ qInv \in Nat /\ (m * qInv) % R = 1 % R /\ v \in Int /\ (v * R) % m = 1
        /\ x \in Int /\ y \in Int /\ xr = x % m /\ yr = y % m
    BY RAssumption DEF Good, Bounded
  <1>2. x * y < m * R
    <2>1. xt - 1 \in Nat /\ yt - 1 \in Nat /\ x <= xt - 1 /\ y <= yt - 1
      BY RAssumption DEF Bounded
    <2> DEFINE a == xt - 1
               b == yt - 1
    <2>2. a * b < m * R
      BY DEF Montgomery
    <2>3. x * y <= a * b
      <3> HIDE DEF a, b
      <3>1. a \in Nat /\ b \in Nat /\ x <= a /\ y <= b
        BY <2>1 DEF a, b
      <3>2. x * y <= a * y /\ a * y <= a * b
        BY <1>1, <3>1
      <3>3. a * y \in Int /\ a * b \in Int
        BY <1>1, <3>1
      <3>4. QED
        BY <1>1, <3>2, <3>3
    <2>4. a * b \in Int /\ m * R \in Int
      BY <1>1, <2>1, RAssumption
    <2> HIDE DEF a, b
    <2>5. QED
      BY <1>1, <2>2, <2>3, <2>4
  <1>3. ((x % m) * (y % m)) % m = (x * y) % m
    BY <1>1, ModProd, Zenon
  <1>4. MRed(x, y, m, qInv) \in 0..(m - 1) /\ (MRed(x, y, m, qInv) * R) % m = (x * y) % m
    BY <1>1, <1>2, MontgomeryProduct
  <1>5. MRedConstant(x, y, m, qInv) \in 1..((2 * m) - 1)
    BY <1>1, <1>2, MRedConstantRange, Zenon
  <1>6. (MRedConstant(x, y, m, qInv) * R) % m = (x * y) % m
    BY <1>1, <1>2, MRedConstantIs, Zenon
  <1>7. MRed(x, y, m, qInv) \in Int /\ MRedConstant(x, y, m, qInv) \in Int
    BY <1>4, <1>5
  <1>8. /\ MRed(x, y, m, qInv) % m = (((x * y) % m) * v) % m
        /\ MRedConstant(x, y, m, qInv) % m = (((x * y) % m) * v) % m
    <2> DEFINE t == x * y
    <2>1. t \in Int
      BY <1>1
    <2> HIDE DEF t
    <2>2. \A w \in Int : (w * R) % m = t % m => w % m = ((t % m) * v) % m
      <3>1. m \in Nat \ {0} /\ v \in Int /\ (v * R) % m = 1
        BY <1>1
      <3>2. ASSUME NEW w \in Int, (w * R) % m = t % m PROVE w % m = ((t % m) * v) % m
        BY <2>1, <3>1, <3>2, WithoutRadix
      <3>3. QED
        BY <3>2
    <2>3. (MRed(x, y, m, qInv) * R) % m = t % m /\ (MRedConstant(x, y, m, qInv) * R) % m = t % m
      BY <1>4, <1>6 DEF t
    <2>4. MRed(x, y, m, qInv) % m = ((t % m) * v) % m /\ MRedConstant(x, y, m, qInv) % m = ((t % m) * v) % m
      BY <1>7, <2>2, <2>3
    <2>5. QED
      BY <2>4 DEF t
  <1>9. QED
    BY <1>1, <1>3, <1>4, <1>5, <1>8

\* Adding and subtracting what is congruent to e.
LEMMA Accumulate ==
    ASSUME NEW m \in Nat \ {0}, NEW z \in Int, NEW p \in Int, NEW e \in Int, p % m = e % m
    PROVE  /\ (z + p) % m = ((z % m) + e) % m /\ (z - p) % m = ((z % m) - e) % m
           /\ ((z + m) - p) % m = ((z % m) - e) % m
  <1>1. z % m \in Int /\ (z % m) % m = z % m
    <2>1. z % m \in 0..(m - 1) /\ (z % m) % m = z % m
      BY ModSmall, Zenon
    <2>2. QED
      BY <2>1
  <1>2. ((z % m) + (p % m)) % m = (z + p) % m /\ ((z % m) - (p % m)) % m = (z - p) % m
    BY ModSum, ModDiff, Zenon
  <1>3. (((z % m) % m) + (e % m)) % m = ((z % m) + e) % m
    BY <1>1, ModSum, Zenon
  <1>4. (((z % m) % m) - (e % m)) % m = ((z % m) - e) % m
    BY <1>1, ModDiff, Zenon
  <1>5. z - p \in Int /\ (z + m) - p = (z - p) + (1 * m) /\ 1 \in Int
    OBVIOUS
  <1>6. ((z - p) + (1 * m)) % m = (z - p) % m
    BY <1>5, ModPlus, Zenon
  <1>7. QED
    BY <1>1, <1>2, <1>3, <1>4, <1>5, <1>6

\* The sum, reduced once or not.
LEMMA AddWord ==
    ASSUME NEW m, NEW qInv, NEW u, NEW v, Good(m, qInv, u, v),
           NEW x, NEW xt, NEW xr, Bounded(x, xt, xr, m),
           NEW y, NEW yt, NEW yr, Bounded(y, yt, yr, m),
           xt + yt - 2 < 2 * m
    PROVE  Bounded(CRed(Wrap(x + y), m), m, (xr + yr) % m, m)
  <1>1. m \in Nat \ {0} /\ x + y \in 0..((2 * m) - 1) /\ x \in Int /\ y \in Int /\ 8 * m < R
    BY RAssumption DEF Bounded, Good
  <1>2. ((x % m) + (y % m)) % m = (x + y) % m
    BY <1>1, ModSum, Zenon
  <1>3. (x + y) % m = (xr + yr) % m
    BY <1>2 DEF Bounded
  <1>4. QED
    BY <1>1, <1>3, Corrected

\* AddNoMod: the bounds add up.
LEMMA AddNoModWord ==
    ASSUME NEW m, NEW qInv, NEW u, NEW v, Good(m, qInv, u, v),
           NEW x, NEW xt, NEW xr, Bounded(x, xt, xr, m),
           NEW y, NEW yt, NEW yr, Bounded(y, yt, yr, m),
           xt + yt - 2 < R
    PROVE  Bounded(Wrap(x + y), xt + yt - 1, (xr + yr) % m, m)
  <1>1. m \in Nat \ {0} /\ x + y \in 0..(R - 1) /\ x \in Int /\ y \in Int /\ x + y < xt + yt - 1
    BY RAssumption DEF Bounded, Good
  <1>2. ((x % m) + (y % m)) % m = (x + y) % m
    BY <1>1, ModSum, Zenon
  <1>3. Wrap(x + y) = x + y
    BY <1>1, WrapRange
  <1>4. QED
    BY <1>1, <1>2, <1>3, RAssumption DEF Bounded

\* The difference.
LEMMA SubWord ==
    ASSUME NEW m, NEW qInv, NEW u, NEW v, Good(m, qInv, u, v),
           NEW x, NEW xt, NEW xr, Bounded(x, xt, xr, m),
           NEW y, NEW yt, NEW yr, Bounded(y, yt, yr, m),
           xt <= m,
           yt <= m + 1
    PROVE  Bounded(CRed(Wrap(x + m - y), m), m, (xr - yr) % m, m)
  <1>1. m \in Nat \ {0} /\ (x + m) - y \in 0..((2 * m) - 1) /\ x \in Int /\ y \in Int /\ 8 * m < R
        /\ y % m = (y % m) % m /\ y % m \in Int
    BY RAssumption DEF Bounded, Good
  <1>2. ((x + m) - y) % m = ((x % m) - (y % m)) % m
    BY <1>1, Accumulate, Zenon
  <1>3. ((x + m) - y) % m = (xr - yr) % m
    BY <1>2 DEF Bounded
  <1>4. QED
    BY <1>1, <1>3, Corrected

\* SubNoMod: the bound grows by the modulus that is lent.
LEMMA SubNoModWord ==
    ASSUME NEW m, NEW qInv, NEW u, NEW v, Good(m, qInv, u, v),
           NEW x, NEW xt, NEW xr, Bounded(x, xt, xr, m),
           NEW y, NEW yt, NEW yr, Bounded(y, yt, yr, m),
           xt + m - 1 < R,
           yt <= m + 1
    PROVE  Bounded(Wrap(x + m - y), xt + m, (xr - yr) % m, m)
  <1>1. m \in Nat \ {0} /\ (x + m) - y \in 0..(R - 1) /\ x \in Int /\ y \in Int
        /\ y % m = (y % m) % m /\ y % m \in Int
    BY RAssumption DEF Bounded, Good
  <1>2. ((x + m) - y) % m = ((x % m) - (y % m)) % m
    BY <1>1, Accumulate, Zenon
  <1>3. Wrap((x + m) - y) = (x + m) - y
    BY <1>1, WrapRange
  <1>4. QED
    BY <1>1, <1>2, <1>3, RAssumption DEF Bounded

\* Neg: the modulus itself is a possible result.
LEMMA NegWord ==
    ASSUME NEW m, NEW qInv, NEW u, NEW v, Good(m, qInv, u, v),
           NEW x, NEW xt, NEW xr, Bounded(x, xt, xr, m),
           xt <= m + 1
    PROVE  Bounded(Wrap(m - x), m + 1, (-xr) % m, m)
  <1>1. m \in Nat \ {0} /\ m - x \in 0..(R - 1) /\ m - x < m + 1 /\ x \in Int /\ m + 1 \in 1..R
    BY RAssumption DEF Bounded, Good
  <1>2. (m - x) % m = (-(x % m)) % m
    <2>1. -x \in Int /\ 1 \in Int /\ (-x) + (1 * m) = m - x
      BY <1>1
    <2>2. ((-x) + (1 * m)) % m = (-x) % m
      BY <1>1, <2>1, ModPlus, Zenon
    <2>3. QED
      BY <1>1, <2>1, <2>2, ModNeg
  <1>3. (m - x) % m = (-xr) % m
    BY <1>2 DEF Bounded
  <1>4. QED
    BY <1>1, <1>3, Uncorrected

\* Reduction by Barrett's method.
LEMMA ReduceWord ==
    ASSUME NEW m, NEW qInv, NEW u, NEW v, Good(m, qInv, u, v),
           NEW x, NEW xt, NEW xr, Bounded(x, xt, xr, m)
    PROVE  Bounded(BRedAdd(x, m, u), m, xr % m, m) /\ Bounded(BRedAddConstant(x, m, u), 2 * m, xr % m, m)
  <1>1. m \in Nat \ {0} /\ 2 * m <= R /\ x \in 0..(R - 1) /\ u = BRedParams(m) /\ xr = x % m
        /\ 2 * m \in 1..R /\ m \in 1..R
    BY RAssumption DEF Bounded, Good
  <1>2. BRedAdd(x, m, u) = x % m
    BY <1>1, BarrettReduction
  <1>3. BRedAddConstant(x, m, u) \in 0..((2 * m) - 1) /\ BRedAddConstant(x, m, u) % m = x % m
    BY <1>1, BRedAddConstantRange
  <1>4. x % m \in 0..(m - 1) /\ (x % m) % m = x % m
    <2>1. x \in Int
      BY <1>1
    <2>2. QED
      BY <1>1, <2>1, ModSmall, Zenon
  <1>5. QED
    BY <1>1, <1>2, <1>3, <1>4 DEF Bounded

\* By a number that is not the row's modulus: of a canonical coefficient.
LEMMA ModWord ==
    ASSUME NEW m, NEW qInv, NEW u, NEW v, Good(m, qInv, u, v),
           NEW x, NEW xt, NEW xr, Bounded(x, xt, xr, m),
           NEW k \in 1..(R \div 2),
           xt <= m
    PROVE  Bounded(BRedAdd(x, k, BRedParams(k)), m, (xr % k) % m, m)
  <1>1. m \in Nat \ {0} /\ m \in 1..R /\ x \in 0..(m - 1) /\ xr = x % m /\ x \in 0..(R - 1)
    BY RAssumption DEF Bounded, Good
  <1>2. k \in Nat \ {0} /\ 2 * k <= R
    BY RAssumption
  <1>3. BRedAdd(x, k, BRedParams(k)) = x % k
    BY <1>1, <1>2, BarrettReduction
  <1>4. x % m = x
    BY <1>1
  <1>5. x % k \in 0..x
    BY <1>1, <1>2
  <1>6. QED
    BY <1>1, <1>3, <1>4, <1>5 DEF Bounded

\* The bits of a canonical coefficient.
LEMMA BitsWord ==
    ASSUME NEW m, NEW qInv, NEW u, NEW v, Good(m, qInv, u, v),
           NEW x, NEW xt, NEW xr, Bounded(x, xt, xr, m),
           NEW k \in 1..(R \div 2),
           xt <= m
    PROVE  /\ Bounded(And(x, k), m, And(xr, k) % m, m)
           /\ k < m => /\ Bounded(Or(x, k), 2 * m, Or(xr, k) % m, m)
                       /\ Bounded(Xor(x, k), 2 * m, Xor(xr, k) % m, m)
  <1>1. m \in Nat \ {0} /\ m \in 1..R /\ 2 * m \in 1..R /\ x \in 0..(m - 1) /\ xr = x % m
    BY RAssumption DEF Bounded, Good
  <1>2. k \in Nat /\ x \in Nat
    BY <1>1, RAssumption
  <1>3. xr = x
    BY <1>1
  <1>4. And(x, k) \in 0..x /\ Or(x, k) \in 0..(x + k) /\ Xor(x, k) \in 0..(x + k)
    BY <1>2, AndRange, OrRange, XorRange
  <1>5. QED
    BY <1>1, <1>2, <1>3, <1>4 DEF Bounded

\* Barrett's products.
LEMMA MulWord ==
    ASSUME NEW m, NEW qInv, NEW u, NEW v, Good(m, qInv, u, v),
           NEW x, NEW xt, NEW xr, Bounded(x, xt, xr, m),
           NEW y, NEW yt, NEW yr, Bounded(y, yt, yr, m)
    PROVE  /\ Bounded(BRed(x, y, m, u), m, (xr * yr) % m, m)
           /\ Bounded(BRedConstant(x, y, m, u), 2 * m, (xr * yr) % m, m)
  <1>1. m \in 1..R /\ 2 * m \in 1..R /\ m \in Nat \ {0}
    BY RAssumption DEF Good
  <1> DEFINE e == xr * yr
             p == BRed(x, y, m, u)
             r == BRedConstant(x, y, m, u)
  <1>2. p \in 0..(m - 1) /\ p % m = e % m /\ r \in 0..((2 * m) - 1) /\ r % m = e % m
    BY Barrett
  <1> HIDE DEF e, p, r
  <1>3. Bounded(p, m, e % m, m) /\ Bounded(r, 2 * m, e % m, m)
    BY <1>1, <1>2 DEF Bounded
  <1>4. QED
    BY <1>3 DEF e, p, r

\* A word p below m, congruent to e, added to a coefficient or subtracted.
LEMMA Accumulated ==
    ASSUME NEW m \in Nat \ {0}, 8 * m < R, NEW z, NEW zt, NEW zr, Bounded(z, zt, zr, m),
           NEW e \in Int, NEW p \in 0..(m - 1), p % m = e % m
    PROVE  /\ zt <= m + 1 => Bounded(CRed(Wrap(z + p), m), m, (zr + e) % m, m)
           /\ zt + m - 2 < R => Bounded(Wrap(z + p), zt + m - 1, (zr + e) % m, m)
           /\ zt <= m => Bounded(CRed(Wrap(z + (m - p)), m), m, (zr - e) % m, m)
           /\ zt + m - 1 < R => Bounded(Wrap(z + m - p), zt + m, (zr - e) % m, m)
  <1>1. z \in Nat /\ zt \in 1..R /\ z < zt /\ zr = z % m /\ R \in Nat /\ m \in 1..R
    BY RAssumption DEF Bounded
  <1>2. (z + p) % m = ((z % m) + e) % m /\ ((z + m) - p) % m = ((z % m) - e) % m
    <2>1. z \in Int /\ p \in Int
      BY <1>1
    <2>2. QED
      BY <2>1, Accumulate, Zenon
  <1>3. ASSUME zt <= m + 1 PROVE Bounded(CRed(Wrap(z + p), m), m, (zr + e) % m, m)
    <2>1. z + p \in 0..((2 * m) - 1)
      BY <1>1, <1>3
    <2>2. QED
      BY <1>1, <1>2, <2>1, Corrected
  <1>4. ASSUME zt + m - 2 < R PROVE Bounded(Wrap(z + p), zt + m - 1, (zr + e) % m, m)
    <2>1. z + p \in 0..(R - 1) /\ z + p \in Int /\ z + p < (zt + m) - 1 /\ (zt + m) - 1 \in 1..R
      BY <1>1, <1>4
    <2>2. Wrap(z + p) = z + p
      BY <2>1, WrapRange
    <2>3. QED
      BY <1>1, <1>2, <2>1, <2>2 DEF Bounded
  <1>5. ASSUME zt <= m PROVE Bounded(CRed(Wrap(z + (m - p)), m), m, (zr - e) % m, m)
    <2>1. z + (m - p) \in 0..((2 * m) - 1) /\ z + (m - p) = (z + m) - p
      BY <1>1, <1>5
    <2>2. (z + (m - p)) % m = (zr - e) % m
      BY <1>1, <1>2, <2>1
    <2>3. QED
      BY <2>1, <2>2, Corrected
  <1>6. ASSUME zt + m - 1 < R PROVE Bounded(Wrap(z + m - p), zt + m, (zr - e) % m, m)
    <2>1. (z + m) - p \in 0..(R - 1) /\ (z + m) - p \in Int /\ (z + m) - p < zt + m /\ zt + m \in 1..R
      BY <1>1, <1>6
    <2>2. Wrap((z + m) - p) = (z + m) - p
      BY <2>1, WrapRange
    <2>3. QED
      BY <1>1, <1>2, <2>1, <2>2 DEF Bounded
  <1>7. QED
    BY <1>3, <1>4, <1>5, <1>6

\* A product added to a coefficient, reduced once or not.
LEMMA MulAddWord ==
    ASSUME NEW m, NEW qInv, NEW u, NEW v, Good(m, qInv, u, v),
           NEW x, NEW xt, NEW xr, Bounded(x, xt, xr, m),
           NEW y, NEW yt, NEW yr, Bounded(y, yt, yr, m),
           NEW z, NEW zt, NEW zr, Bounded(z, zt, zr, m)
    PROVE  /\ zt <= m + 1 => Bounded(CRed(Wrap(z + BRed(x, y, m, u)), m), m, (zr + xr * yr) % m, m)
           /\ zt + m - 2 < R =>
                 Bounded(Wrap(z + BRed(x, y, m, u)), zt + m - 1, (zr + xr * yr) % m, m)
  <1> DEFINE p == BRed(x, y, m, u)
             e == xr * yr
  <1>1. p \in 0..(m - 1) /\ p % m = e % m
    BY Barrett
  <1>2. m \in Nat \ {0} /\ 8 * m < R /\ e \in Int
    BY DEF Good, Bounded
  <1> HIDE DEF p, e
  <1>3. QED
    BY <1>1, <1>2, Accumulated DEF p, e

\* Montgomery's products.
LEMMA MontWord ==
    ASSUME NEW m, NEW qInv, NEW u, NEW v, Good(m, qInv, u, v),
           NEW x, NEW xt, NEW xr, Bounded(x, xt, xr, m),
           NEW y, NEW yt, NEW yr, Bounded(y, yt, yr, m),
           Montgomery(xt, yt, m)
    PROVE  /\ Bounded(MRed(x, y, m, qInv), m, (((xr * yr) % m) * v) % m, m)
           /\ Bounded(MRedConstant(x, y, m, qInv), 2 * m, (((xr * yr) % m) * v) % m, m)
  <1>1. m \in 1..R /\ 2 * m \in 1..R /\ m \in Nat \ {0}
    BY RAssumption DEF Good
  <1> DEFINE e == ((xr * yr) % m) * v
             p == MRed(x, y, m, qInv)
             r == MRedConstant(x, y, m, qInv)
  <1>2. p \in 0..(m - 1) /\ p % m = e % m /\ r \in 0..((2 * m) - 1) /\ r % m = e % m
    BY Mont
  <1> HIDE DEF e, p, r
  <1>3. Bounded(p, m, e % m, m) /\ Bounded(r, 2 * m, e % m, m)
    BY <1>1, <1>2 DEF Bounded
  <1>4. QED
    BY <1>3 DEF e, p, r

\* A Montgomery product added to a coefficient or subtracted from it.
LEMMA MontAccWord ==
    ASSUME NEW m, NEW qInv, NEW u, NEW v, Good(m, qInv, u, v),
           NEW x, NEW xt, NEW xr, Bounded(x, xt, xr, m),
           NEW y, NEW yt, NEW yr, Bounded(y, yt, yr, m),
           NEW z, NEW zt, NEW zr, Bounded(z, zt, zr, m),
           Montgomery(xt, yt, m)
    PROVE  /\ zt <= m + 1 =>
                 Bounded(CRed(Wrap(z + MRed(x, y, m, qInv)), m), m, (zr + ((xr * yr) % m) * v) % m, m)
           /\ zt + m - 2 < R =>
                 Bounded(Wrap(z + MRed(x, y, m, qInv)), zt + m - 1, (zr + ((xr * yr) % m) * v) % m, m)
           /\ zt <= m =>
                 Bounded(CRed(Wrap(z + (m - MRed(x, y, m, qInv))), m), m, (zr - ((xr * yr) % m) * v) % m, m)
           /\ zt + m - 1 < R =>
                 Bounded(Wrap(z + m - MRed(x, y, m, qInv)), zt + m, (zr - ((xr * yr) % m) * v) % m, m)
  <1> DEFINE p == MRed(x, y, m, qInv)
             e == ((xr * yr) % m) * v
  <1>1. p \in 0..(m - 1) /\ p % m = e % m
    BY Mont
  <1>2. m \in Nat \ {0} /\ 8 * m < R /\ e \in Int
    BY DEF Good, Bounded
  <1> HIDE DEF p, e
  <1>3. QED
    BY <1>1, <1>2, Accumulated DEF p, e

\* The Constant product is below two moduli, and so is what it adds.
LEMMA MontConstantAddWord ==
    ASSUME NEW m, NEW qInv, NEW u, NEW v, Good(m, qInv, u, v),
           NEW x, NEW xt, NEW xr, Bounded(x, xt, xr, m),
           NEW y, NEW yt, NEW yr, Bounded(y, yt, yr, m),
           NEW z, NEW zt, NEW zr, Bounded(z, zt, zr, m),
           Montgomery(xt, yt, m),
           zt + 2 * m - 2 < R
    PROVE  Bounded(Wrap(z + MRedConstant(x, y, m, qInv)), zt + 2 * m - 1, (zr + ((xr * yr) % m) * v) % m, m)
  <1> DEFINE p == MRedConstant(x, y, m, qInv)
             e == ((xr * yr) % m) * v
  <1>1. p \in 0..((2 * m) - 1) /\ p % m = e % m
    BY Mont
  <1>2. m \in Nat \ {0} /\ e \in Int /\ z \in Int /\ p \in Int /\ zr = z % m
    BY <1>1 DEF Good, Bounded
  <1> HIDE DEF p, e
  <1>3. (z + p) % m = ((z % m) + e) % m
    BY <1>1, <1>2, Accumulate, Zenon
  <1>4. z + p \in 0..(R - 1) /\ z + p \in Int /\ z + p < (zt + (2 * m)) - 1 /\ (zt + (2 * m)) - 1 \in 1..R
    BY <1>1, <1>2, RAssumption DEF Bounded
  <1>5. Wrap(z + p) = z + p
    BY <1>4, WrapRange
  <1>6. QED
    BY <1>2, <1>3, <1>4, <1>5 DEF Bounded, p, e

\* To the Montgomery domain and back.
LEMMA ToMontWord ==
    ASSUME NEW m, NEW qInv, NEW u, NEW v, Good(m, qInv, u, v),
           NEW x, NEW xt, NEW xr, Bounded(x, xt, xr, m)
    PROVE  Bounded(MForm(x, m, u), m, (xr * R) % m, m)
  <1>1. m \in Nat \ {0} /\ 2 * m <= R /\ m \in 1..R /\ x \in 0..(R - 1) /\ x \in Int /\ R \in Int
        /\ u = BRedParams(m) /\ xr = x % m
    BY RAssumption DEF Good, Bounded
  <1>2. MForm(x, m, u) \in 0..(m - 1) /\ MForm(x, m, u) = (x * R) % m
    BY <1>1, ToMontgomery
  <1>3. ((x % m) * R) % m = (x * R) % m
    BY <1>1, ModProd, Zenon
  <1>4. ((x * R) % m) % m = (x * R) % m
    <2>1. x * R \in Int
      BY <1>1
    <2>2. QED
      BY <1>1, <2>1, ModSmall, Zenon
  <1>5. QED
    BY <1>1, <1>2, <1>3, <1>4 DEF Bounded

\* InvMForm takes the factor R out.
LEMMA FromMontWord ==
    ASSUME NEW m, NEW qInv, NEW u, NEW v, Good(m, qInv, u, v),
           NEW x, NEW xt, NEW xr, Bounded(x, xt, xr, m)
    PROVE  Bounded(InvMForm(x, m, qInv), m, (xr * v) % m, m)
  <1>1. m \in Nat \ {0} /\ m < R /\ m \in 1..R /\ x \in 0..(R - 1) /\ x \in Int /\ qInv \in Nat
        /\ (m * qInv) % R = 1 % R /\ v \in Int /\ (v * R) % m = 1 /\ xr = x % m
    BY RAssumption DEF Good, Bounded
  <1> DEFINE w == InvMForm(x, m, qInv)
  <1>2. w \in 0..(m - 1) /\ (w * R) % m = x % m
    BY <1>1, FromMontgomery
  <1>3. w \in Int
    BY <1>2
  <1> HIDE DEF w
  <1>4. w % m = ((x % m) * v) % m
    <2>1. m \in Nat \ {0} /\ v \in Int /\ (v * R) % m = 1 /\ x \in Int
      BY <1>1
    <2>2. QED
      BY <1>2, <1>3, <2>1, WithoutRadix
  <1>5. Bounded(w, m, (xr * v) % m, m)
    BY <1>1, <1>2, <1>4 DEF Bounded
  <1>6. QED
    BY <1>5 DEF w

\* By a word that is in the Montgomery domain already.
LEMMA VectorWord ==
    ASSUME NEW m, NEW qInv, NEW u, NEW v, Good(m, qInv, u, v),
           NEW x, NEW xt, NEW xr, Bounded(x, xt, xr, m),
           NEW w \in 0..(R - 1),
           Montgomery(xt, w + 1, m)
    PROVE  /\ MRed(x, w, m, qInv) \in 0..(m - 1)
           /\ MRed(x, w, m, qInv) % m = (xr * w * v) % m
  <1>1. Bounded(w, w + 1, w % m, m)
    BY RAssumption DEF Bounded
  <1>2. MRed(x, w, m, qInv) \in 0..(m - 1) /\ MRed(x, w, m, qInv) % m = (((xr * (w % m)) % m) * v) % m
    <2> DEFINE t == w + 1
               c == w % m
    <2>1. Bounded(w, t, c, m) /\ Montgomery(xt, t, m)
      BY <1>1
    <2> HIDE DEF t, c
    <2>2. MRed(x, w, m, qInv) \in 0..(m - 1) /\ MRed(x, w, m, qInv) % m = (((xr * c) % m) * v) % m
      BY <2>1, Mont
    <2>3. QED
      BY <2>2 DEF c
  <1>3. m \in Nat \ {0} /\ xr \in Int /\ w \in Int /\ v \in Int /\ xr * w \in Int
    BY RAssumption DEF Good, Bounded
  <1>4. ((w % m) * xr) % m = (w * xr) % m
    BY <1>3, ModProd, Zenon
  <1>5. (((xr * w) % m) * v) % m = ((xr * w) * v) % m
    BY <1>3, ModProd, Zenon
  <1>6. (w % m) * xr = xr * (w % m) /\ w * xr = xr * w
    BY <1>3
  <1>7. QED
    BY <1>2, <1>4, <1>5, <1>6

\* The product by a word of the vector, added without a reduction.
LEMMA VectorAccWord ==
    ASSUME NEW m, NEW qInv, NEW u, NEW v, Good(m, qInv, u, v),
           NEW x, NEW xt, NEW xr, Bounded(x, xt, xr, m),
           NEW z, NEW zt, NEW zr, Bounded(z, zt, zr, m),
           NEW w \in 0..(R - 1),
           Montgomery(xt, w + 1, m),
           zt + m - 2 < R
    PROVE  Bounded(Wrap(z + MRed(x, w, m, qInv)), zt + m - 1, (zr + xr * w * v) % m, m)
  <1> DEFINE p == MRed(x, w, m, qInv)
             e == xr * w * v
  <1>1. p \in 0..(m - 1) /\ p % m = e % m
    BY VectorWord
  <1>2. m \in Nat \ {0} /\ 8 * m < R /\ e \in Int
    BY RAssumption DEF Good, Bounded
  <1> HIDE DEF p, e
  <1>3. QED
    BY <1>1, <1>2, Accumulated DEF p, e

\* A factor R in one of the operands is the one the product takes out.
LEMMA TimesWord ==
    ASSUME NEW m, NEW qInv, NEW u, NEW v, Good(m, qInv, u, v),
           NEW x \in 0..(R - 1),
           NEW a \in Int,
           NEW y \in 0..(R - 1),
           x * y < m * R,
           x % m = (a * R) % m
    PROVE  /\ MRed(x, y, m, qInv) \in 0..(m - 1)
           /\ MRed(x, y, m, qInv) % m = (a * (y % m)) % m
  <1>1. m \in Nat \ {0} /\ 2 * m <= R /\ R \in Int /\ x \in Nat /\ y \in Nat /\ x \in Int /\ y \in Int
        /\ qInv \in Nat /\ (m * qInv) % R = 1 % R /\ v \in Int /\ (v * R) % m = 1
    BY RAssumption DEF Good
  <1> DEFINE w == MRed(x, y, m, qInv)
             t == a * y
  <1>2. w \in 0..(m - 1) /\ (w * R) % m = (x * y) % m
    <2>1. m \in Nat \ {0} /\ 2 * m <= R /\ qInv \in Nat /\ (m * qInv) % R = 1 % R /\ x \in Nat /\ y \in Nat
          /\ x * y < m * R
      BY <1>1
    <2>2. MRed(x, y, m, qInv) \in 0..(m - 1) /\ (MRed(x, y, m, qInv) * R) % m = (x * y) % m
      BY ONLY <2>1, MontgomeryProduct
    <2>3. QED
      BY <2>2
  <1>3. w \in Int /\ t \in Int /\ t * R \in Int /\ a * R \in Int
    BY <1>1, <1>2
  <1>4. (x * y) % m = (t * R) % m
    <2>1. ((x % m) * y) % m = (x * y) % m
      BY <1>1, ModProd, Zenon
    <2>2. (((a * R) % m) * y) % m = ((a * R) * y) % m
      BY <1>1, <1>3, ModProd, Zenon
    <2>3. (a * R) * y = t * R
      BY <1>1
    <2>4. QED
      BY <2>1, <2>2, <2>3
  <1> HIDE DEF w
  <1>5. w % m = t % m
    <2> HIDE DEF t
    <2>1. m \in Nat \ {0} /\ v \in Int /\ (v * R) % m = 1
      BY <1>1
    <2>2. t * R \in Int /\ (w * R) % m = (t * R) % m
      BY <1>2, <1>3, <1>4
    <2>3. w % m = ((t * R) * v) % m
      BY <1>3, <2>1, <2>2, WithoutRadix
    <2>4. (t * R) % m = (t * R) % m
      OBVIOUS
    <2>5. t % m = ((t * R) * v) % m
      BY <1>3, <2>1, <2>2, <2>4, WithoutRadix
    <2>6. QED
      BY <2>3, <2>5
  <1>6. (a * (y % m)) % m = t % m
    <2>1. ((y % m) * a) % m = (y * a) % m
      BY <1>1, ModProd, Zenon
    <2>2. (y % m) * a = a * (y % m) /\ y * a = a * y
      BY <1>1
    <2>3. QED
      BY <2>1, <2>2
  <1>7. QED
    BY <1>2, <1>5, <1>6 DEF w

\* By a scalar c brought to the Montgomery domain, and by a power of two.
LEMMA ScalarWord ==
    ASSUME NEW m, NEW qInv, NEW u, NEW v, Good(m, qInv, u, v),
           NEW x, NEW xt, NEW xr, Bounded(x, xt, xr, m),
           NEW c \in 0..(R - 1)
    PROVE  Bounded(MRed(x, MForm(c, m, u), m, qInv), m, (xr * (c % m)) % m, m)
  <1>1. m \in Nat \ {0} /\ m \in 1..R /\ 2 * m <= R /\ R \in Int /\ x \in 0..(R - 1) /\ x \in Int /\ c \in Int
        /\ u = BRedParams(m) /\ xr = x % m /\ qInv \in Nat
    BY RAssumption DEF Good, Bounded
  <1> DEFINE y == MForm(c, m, u)
             w == MRed(y, x, m, qInv)
  <1>2. y \in 0..(m - 1) /\ y = (c * R) % m
    BY <1>1, ToMontgomery
  <1>3. y % m = (c * R) % m /\ y \in 0..(R - 1)
    BY <1>1, <1>2
  <1> HIDE DEF y
  <1>4. y * x < m * R
    BY <1>1, <1>2, ProductBelow
  <1>5. w \in 0..(m - 1) /\ w % m = (c * (x % m)) % m
    <2>1. y \in 0..(R - 1) /\ c \in Int /\ x \in 0..(R - 1) /\ y * x < m * R /\ y % m = (c * R) % m
      BY <1>1, <1>3, <1>4
    <2>2. QED
      BY ONLY <2>1, Good(m, qInv, u, v), TimesWord, SMTT(30)
  <1>6. (c * (x % m)) % m = ((x % m) * (c % m)) % m
    <2>1. x % m \in Int
      BY <1>1
    <2>2. ((c % m) * (x % m)) % m = (c * (x % m)) % m
      BY <1>1, <2>1, ModProd, Zenon
    <2>3. (c % m) * (x % m) = (x % m) * (c % m)
      BY <1>1
    <2>4. QED
      BY <2>2, <2>3
  <1>7. MRed(x, y, m, qInv) = w
    <2>1. x * y = y * x
      BY <1>1, <1>2
    <2>2. QED
      BY <2>1 DEF w, MRed, MRedConstant
  <1> HIDE DEF w
  <1>8. Bounded(MRed(x, y, m, qInv), m, (xr * (c % m)) % m, m)
    BY <1>1, <1>5, <1>6, <1>7 DEF Bounded
  <1>9. QED
    BY <1>8 DEF y

\* PowerOf2 of a coefficient brought to the Montgomery domain first.
LEMMA Pow2Word ==
    ASSUME NEW m, NEW qInv, NEW u, NEW v, Good(m, qInv, u, v),
           NEW x, NEW xt, NEW xr, Bounded(x, xt, xr, m),
           NEW n \in 0..(W - 1)
    PROVE  Bounded(PowerOf2(MForm(x, m, u), n, m, qInv), m, (xr * (2^n % m)) % m, m)
  <1>1. m \in Nat \ {0} /\ m \in 1..R /\ 2 * m <= R /\ R \in Int /\ x \in 0..(R - 1) /\ x \in Int
        /\ u = BRedParams(m) /\ xr = x % m /\ qInv \in Nat
    BY RAssumption DEF Good, Bounded
  <1>2. 2^n \in 0..(R - 1)
    <2>1. n \in 0..W /\ n < W
      BY WAssumption
    <2>2. QED
      BY <2>1, WordPowers, RAssumption
  <1> DEFINE y == MForm(x, m, u)
             w == MRed(y, 2^n, m, qInv)
  <1>3. y \in 0..(m - 1) /\ y = (x * R) % m
    BY <1>1, ToMontgomery
  <1>4. y % m = (x * R) % m /\ y \in 0..(R - 1)
    BY <1>1, <1>3
  <1> HIDE DEF y
  <1>5. y * 2^n < m * R
    <2> DEFINE p == 2^n
    <2>1. p \in 0..(R - 1)
      BY <1>2
    <2> HIDE DEF p
    <2>2. y * p < m * R
      BY <1>1, <1>3, <2>1, ProductBelow
    <2>3. QED
      BY <2>2 DEF p
  <1>6. w \in 0..(m - 1) /\ w % m = (x * (2^n % m)) % m
    <2>1. y \in 0..(R - 1) /\ x \in Int /\ 2^n \in 0..(R - 1) /\ y * 2^n < m * R /\ y % m = (x * R) % m
      BY <1>1, <1>2, <1>4, <1>5
    <2>2. QED
      BY ONLY <2>1, Good(m, qInv, u, v), TimesWord, Zenon DEF w
  <1>7. ((x % m) * (2^n % m)) % m = (x * (2^n % m)) % m
    <2>1. 2^n % m \in Int
      BY <1>1, <1>2
    <2>2. QED
      BY <1>1, <2>1, ModProd, Zenon
  <1>8. PowerOf2(y, n, m, qInv) = w
    BY DEF w, MRed, MRedConstant, PowerOf2
  <1> HIDE DEF w
  <1>9. Bounded(PowerOf2(y, n, m, qInv), m, (xr * (2^n % m)) % m, m)
    BY <1>1, <1>6, <1>7, <1>8 DEF Bounded
  <1>10. QED
    BY <1>9 DEF y

\* A scalar added to a coefficient or subtracted.
LEMMA AddBigWord ==
    ASSUME NEW m, NEW qInv, NEW u, NEW v, Good(m, qInv, u, v),
           NEW x, NEW xt, NEW xr, Bounded(x, xt, xr, m),
           NEW k \in 1..(R \div 2),
           xt <= m + 1
    PROVE  Bounded(CRed(Wrap(x + (k % m)), m), m, (xr + k) % m, m)
  <1> DEFINE e == x + (k % m)
  <1>1. m \in Nat \ {0} /\ 8 * m < R /\ x \in Int /\ k \in Int /\ x \in Nat /\ xt \in 1..R /\ x < xt
        /\ xr = x % m /\ k \in Nat
    BY RAssumption DEF Bounded, Good
  <1>2. k % m \in 0..(m - 1) /\ (k % m) % m = k % m /\ k % m \in Int
    <2>1. k % m \in 0..(m - 1) /\ (k % m) % m = k % m
      BY <1>1, ModSmall, Zenon
    <2>2. QED
      BY <2>1
  <1>3. e \in 0..((2 * m) - 1)
    BY <1>1, <1>2
  <1>4. e % m = ((x % m) + k) % m
    <2>1. (x + (k % m)) % m = ((x % m) + k) % m
      BY <1>1, <1>2, Accumulate, Zenon
    <2>2. e = x + (k % m)
      BY <1>1, <1>2
    <2>3. QED
      BY <2>1, <2>2
  <1> HIDE DEF e
  <1>5. e % m = (xr + k) % m
    BY <1>1, <1>4
  <1>6. Bounded(CRed(Wrap(e), m), m, (xr + k) % m, m)
    BY <1>1, <1>3, <1>5, Corrected
  <1>7. QED
    BY <1>6 DEF e

\* AddScalar does not reduce the scalar, which its bound has to allow for.
LEMMA AddScalarWord ==
    ASSUME NEW m, NEW qInv, NEW u, NEW v, Good(m, qInv, u, v),
           NEW x, NEW xt, NEW xr, Bounded(x, xt, xr, m),
           NEW k \in 1..(R \div 2),
           xt + k - 1 < 2 * m
    PROVE  Bounded(CRed(Wrap(x + k), m), m, (xr + k) % m, m)
  <1> DEFINE e == x + k
  <1>1. m \in Nat \ {0} /\ 8 * m < R /\ x \in Int /\ k \in Int /\ x \in Nat /\ xt \in 1..R /\ x < xt
        /\ xr = x % m /\ k \in Nat
    BY RAssumption DEF Bounded, Good
  <1>2. k % m \in 0..(m - 1) /\ (k % m) % m = k % m /\ k % m \in Int
    <2>1. k % m \in 0..(m - 1) /\ (k % m) % m = k % m
      BY <1>1, ModSmall, Zenon
    <2>2. QED
      BY <2>1
  <1>3. e \in 0..((2 * m) - 1)
    BY <1>1, <1>2
  <1>4. e % m = ((x % m) + k) % m
    <2>1. (x + k) % m = ((x % m) + k) % m
      BY <1>1, <1>2, Accumulate, Zenon
    <2>2. e = x + k
      BY <1>1, <1>2
    <2>3. QED
      BY <2>1, <2>2
  <1> HIDE DEF e
  <1>5. e % m = (xr + k) % m
    BY <1>1, <1>4
  <1>6. Bounded(CRed(Wrap(e), m), m, (xr + k) % m, m)
    BY <1>1, <1>3, <1>5, Corrected
  <1>7. QED
    BY <1>6 DEF e

\* SubScalarBigint reduces the scalar first.
LEMMA SubBigWord ==
    ASSUME NEW m, NEW qInv, NEW u, NEW v, Good(m, qInv, u, v),
           NEW x, NEW xt, NEW xr, Bounded(x, xt, xr, m),
           NEW k \in 1..(R \div 2),
           xt <= m
    PROVE  Bounded(CRed(Wrap(x + m - (k % m)), m), m, (xr + (-k)) % m, m)
  <1> DEFINE e == x + m - (k % m)
  <1>1. m \in Nat \ {0} /\ 8 * m < R /\ x \in Int /\ k \in Int /\ x \in Nat /\ xt \in 1..R /\ x < xt
        /\ xr = x % m /\ k \in Nat
    BY RAssumption DEF Bounded, Good
  <1>2. k % m \in 0..(m - 1) /\ (k % m) % m = k % m /\ k % m \in Int
    <2>1. k % m \in 0..(m - 1) /\ (k % m) % m = k % m
      BY <1>1, ModSmall, Zenon
    <2>2. QED
      BY <2>1
  <1>3. e \in 0..((2 * m) - 1)
    BY <1>1, <1>2
  <1>4. e % m = ((x % m) - k) % m
    <2>1. ((x + m) - (k % m)) % m = ((x % m) - k) % m
      BY <1>1, <1>2, Accumulate, Zenon
    <2>2. e = (x + m) - (k % m)
      BY <1>1, <1>2
    <2>3. QED
      BY <2>1, <2>2
  <1> HIDE DEF e
  <1>5. e % m = (xr + (-k)) % m
    BY <1>1, <1>4
  <1>6. Bounded(CRed(Wrap(e), m), m, (xr + (-k)) % m, m)
    BY <1>1, <1>3, <1>5, Corrected
  <1>7. QED
    BY <1>6 DEF e

\* SubScalar lends one modulus only: the scalar must not exceed it.
LEMMA SubScalarWord ==
    ASSUME NEW m, NEW qInv, NEW u, NEW v, Good(m, qInv, u, v),
           NEW x, NEW xt, NEW xr, Bounded(x, xt, xr, m),
           NEW k \in 1..(R \div 2),
           xt <= m /\ k <= m
    PROVE  Bounded(CRed(Wrap(x + m - k), m), m, (xr + (-k)) % m, m)
  <1> DEFINE e == x + m - k
  <1>1. m \in Nat \ {0} /\ 8 * m < R /\ x \in Int /\ k \in Int /\ x \in Nat /\ xt \in 1..R /\ x < xt
        /\ xr = x % m /\ k \in Nat
    BY RAssumption DEF Bounded, Good
  <1>2. k % m \in 0..(m - 1) /\ (k % m) % m = k % m /\ k % m \in Int
    <2>1. k % m \in 0..(m - 1) /\ (k % m) % m = k % m
      BY <1>1, ModSmall, Zenon
    <2>2. QED
      BY <2>1
  <1>3. e \in 0..((2 * m) - 1)
    BY <1>1, <1>2
  <1>4. e % m = ((x % m) - k) % m
    <2>1. ((x + m) - k) % m = ((x % m) - k) % m
      BY <1>1, <1>2, Accumulate, Zenon
    <2>2. e = (x + m) - k
      BY <1>1, <1>2
    <2>3. QED
      BY <2>1, <2>2
  <1> HIDE DEF e
  <1>5. e % m = (xr + (-k)) % m
    BY <1>1, <1>4
  <1>6. Bounded(CRed(Wrap(e), m), m, (xr + (-k)) % m, m)
    BY <1>1, <1>3, <1>5, Corrected
  <1>7. QED
    BY <1>6 DEF e

-----------------------------------------------------------------------------
(* Calls *)
IInv == TypeOK /\ WithinBounds

\* The tables of the ring and of its abstraction have the same rows and
\* columns.
LEMMA Tables ==
    /\ DOMAIN Modulus = Rows /\ Abstract!Rows = Rows /\ Abstract!Coefs = Coefs
    /\ Last \in Level /\ N \in Nat \ {0}
    /\ \A d \in Dest : d \in Regs
  <1>1. Modulus \in Seq(Nat)
    BY RingAssumption DEF setParameters
  <1>2. DOMAIN Modulus = Rows /\ Abstract!Rows = Rows /\ Abstract!Coefs = Coefs
    BY <1>1 DEF Rows, Abstract!Rows, Coefs, Abstract!Coefs
  <1>3. Last \in Level
    BY <1>1, RingAssumption DEF setParameters, Last, Level, Rows
  <1>4. N \in Nat \ {0}
    <2>1. LogN \in 0..LogN
      BY RingAssumption DEF setParameters
    <2>2. QED
      BY <2>1, DegreePowers DEF N
  <1>5. QED
    BY <1>2, <1>3, <1>4 DEF Dest, Regs

Fits(i) == q(i) = Modulus[i] /\ Good(q(i), mred(i), bred(i), Abstract!RadixInv[i])
\* The tables newRing fills make a good modulus of every row.
LEMMA ModulusFits ==
    ASSUME NEW i \in Rows
    PROVE  Fits(i)
  <1>1. q(i) \in Nat /\ getFactors(q(i)) = {q(i)} /\ q(i) % (2 * N) = 1 /\ 8 * q(i) < R
        /\ R \in Nat \ {0} /\ Modulus[i] = q(i)
    <2>1. Modulus \in Seq(Nat) /\ i \in 1..Len(Modulus)
      BY RingAssumption DEF setParameters, Rows
    <2>2. Modulus[i] \in Nat
      BY <2>1
    <2>3. QED
      BY <2>2, RingAssumption, RAssumption DEF setParameters, q
  <1>2. 2 <= q(i)
    <2>1. q(i) \in getFactors(q(i))
      BY <1>1
    <2>2. QED
      BY <1>1, <2>1 DEF getFactors
  <1>3. q(i) % 2 = 1
    <2> DEFINE n == 2 * N
    <2>1. PICK k \in Int : q(i) = ((2 * N) * k) + 1
      <3>1. n \in Nat \ {0} /\ q(i) \in Int /\ q(i) % n = 1
        BY <1>1, Tables
      <3> HIDE DEF n
      <3>2. q(i) \div n \in Int /\ q(i) = (n * (q(i) \div n)) + (q(i) % n)
        BY <3>1, DivMod, Zenon
      <3>3. q(i) = (n * (q(i) \div n)) + 1
        BY <3>1, <3>2
      <3>4. QED
        BY <3>2, <3>3 DEF n
    <2>2. q(i) = 1 + ((N * k) * 2) /\ N * k \in Int
      BY <2>1, Tables
    <2>3. (1 + ((N * k) * 2)) % 2 = 1
      BY <2>2
    <2>4. QED
      BY <2>2, <2>3
  <1>4. mred(i) \in 0..(R - 1) /\ (q(i) * mred(i)) % R = 1 % R
    <2>1. q(i) \in 1..(R - 1)
      BY <1>1, <1>2
    <2>2. mred(i) = MRedParams(q(i))
      BY DEF mred, MredParams, q
    <2>3. QED
      BY <1>3, <2>1, <2>2, MontgomeryInverse
  <1>5. bred(i) = BRedParams(q(i))
    BY DEF bred, BredParams, q
  <1>6. Abstract!RadixInv[i] \in Nat /\ (Abstract!RadixInv[i] * R) % q(i) = 1
    <2>1. \E v \in 0..(q(i) - 1) : (v * R) % q(i) = 1
      <3>1. q(i) \in Nat \ {0} /\ mred(i) \in Nat /\ 2 <= R
        BY <1>1, <1>2, <1>4
      <3>2. QED
        BY <1>2, <1>4, <3>1, RadixInverse, Zenon
    <2>2. Abstract!RadixInv[i] = CHOOSE v \in 0..(q(i) - 1) : (v * R) % q(i) = 1
      BY Tables DEF Abstract!RadixInv, q
    <2>3. QED
      BY <1>1, <2>1, <2>2
  <1>7. QED
    BY <1>1, <1>2, <1>4, <1>5, <1>6 DEF Fits, Good

\* A coefficient of an operand, its bound and its residue.
LEMMA Operand ==
    ASSUME IInv, NEW r \in Regs, NEW i \in Rows, NEW j \in Coefs
    PROVE  Bounded(reg[r][i][j], lim[r][i], Residues[r][i][j], q(i))
  <1>1. reg[r][i][j] \in Nat /\ lim[r][i] \in 1..R /\ reg[r][i][j] < lim[r][i]
    BY DEF IInv, TypeOK, WithinBounds, Polys
  <1>2. Residues[r][i][j] = reg[r][i][j] % q(i)
    BY DEF Residues
  <1>3. QED
    BY <1>1, <1>2 DEF Bounded

\* A call on the rows 1..l of d leaves everything else alone.
Frame(l, d) ==
    /\ reg' = [reg EXCEPT ![d] = reg'[d]] /\ lim' = [lim EXCEPT ![d] = lim'[d]]
    /\ reg'[d] = [i \in Rows |-> reg'[d][i]] /\ lim'[d] = [i \in Rows |-> lim'[d][i]]
    /\ \A i \in Rows : i > l => reg'[d][i] = reg[d][i] /\ lim'[d][i] = lim[d][i]
    /\ \A i \in Rows : i <= l => reg'[d][i] = [j \in Coefs |-> reg'[d][i][j]]

InBound(d, i, j) == lim'[d][i] \in 1..R /\ reg'[d][i][j] \in 0..(lim'[d][i] - 1)
\* A call whose coefficients stay within the bounds it promises keeps the
\* invariant.
LEMMA CallKeeps ==
    ASSUME IInv, NEW l \in Level, NEW d \in Dest, Frame(l, d),
           \A i \in 1..l, j \in Coefs : InBound(d, i, j)
    PROVE  IInv'
  <1>1. d \in Regs
    BY Tables
  <1>2. \A r \in Regs : r # d => reg'[r] = reg[r] /\ lim'[r] = lim[r]
    BY DEF Frame, IInv, TypeOK
  <1>3. reg' = [r \in Regs |-> reg'[r]] /\ lim' = [r \in Regs |-> lim'[r]]
    BY DEF Frame, IInv, TypeOK
  <1>4. ASSUME NEW i \in Rows
        PROVE  /\ reg'[d][i] \in [Coefs -> 0..(R - 1)] /\ lim'[d][i] \in 1..R
               /\ \A j \in Coefs : reg'[d][i][j] < lim'[d][i]
    <2>1. CASE i > l
      BY <1>1, <2>1 DEF Frame, IInv, TypeOK, WithinBounds, Polys
    <2>2. CASE ~(i > l)
      <3>1. i \in 1..l
        BY <2>2 DEF Rows, Level
      <3>2. lim'[d][i] \in 1..R /\ \A j \in Coefs : reg'[d][i][j] \in 0..(lim'[d][i] - 1)
        <4>1. \A j \in Coefs : InBound(d, i, j)
          BY <3>1
        <4>2. 0 \in Coefs
          BY Tables DEF Coefs
        <4>3. QED
          BY <4>1, <4>2 DEF InBound
      <3>3. R \in Nat
        BY RAssumption
      <3>4. \A j \in Coefs : reg'[d][i][j] \in 0..(R - 1)
        BY <3>2, <3>3
      <3>5. reg'[d][i] = [j \in Coefs |-> reg'[d][i][j]]
        BY <2>2 DEF Frame, Rows, Level
      <3>6. reg'[d][i] \in [Coefs -> 0..(R - 1)]
        BY <3>4, <3>5
      <3>7. QED
        BY <3>2, <3>6
    <2>3. QED
      BY <2>1, <2>2
  <1>5. reg'[d] \in Polys /\ lim'[d] \in [Rows -> 1..R]
    BY <1>4 DEF Frame, Polys
  <1>6. \A r \in Regs : reg'[r] \in Polys /\ lim'[r] \in [Rows -> 1..R]
    BY <1>2, <1>5 DEF IInv, TypeOK
  <1>7. \A r \in Regs, i \in Rows, j \in Coefs : reg'[r][i][j] < lim'[r][i] /\ lim'[r][i] <= R
    <2>1. \A r \in Regs, i \in Rows, j \in Coefs : reg'[r][i][j] < lim'[r][i]
      BY <1>2, <1>4 DEF IInv, WithinBounds
    <2>2. \A r \in Regs, i \in Rows : lim'[r][i] <= R
      BY <1>6, RAssumption
    <2>3. QED
      BY <2>1, <2>2
  <1>8. QED
    BY <1>3, <1>6, <1>7 DEF IInv, TypeOK, WithinBounds

\* Its residues are those of g there, and what they were elsewhere.
Moves(l, d, g) == Residues' = [Residues EXCEPT ![d] = [i \in Rows |-> IF i > l THEN @[i] ELSE g[i]]]
Table(g) == \A i \in Rows : g[i] = [j \in Coefs |-> g[i][j]]
\* A call moves the residues of its destination and no others.
LEMMA CallMoves ==
    ASSUME TypeOK, NEW l \in Level, NEW d \in Dest, Frame(l, d), NEW g, Table(g),
           \A i \in 1..l, j \in Coefs : g[i][j] = reg'[d][i][j] % q(i)
    PROVE  Moves(l, d, g)
  <1>1. d \in Regs
    BY Tables
  <1>2. Residues' = [Residues EXCEPT ![d] = Residues'[d]]
    <2>1. \A r \in Regs : r # d => Residues'[r] = Residues[r]
      <3>1. \A r \in Regs : r # d => reg'[r] = reg[r]
        BY DEF Frame, TypeOK
      <3>2. QED
        BY <3>1 DEF Residues
    <2>2. Residues = [r \in Regs |-> Residues[r]] /\ Residues' = [r \in Regs |-> Residues'[r]]
      BY DEF Residues
    <2>3. QED
      BY <2>1, <2>2
  <1>3. ASSUME NEW i \in Rows PROVE Residues'[d][i] = IF i > l THEN Residues[d][i] ELSE g[i]
    <2>1. Residues'[d][i] = [j \in Coefs |-> reg'[d][i][j] % q(i)]
          /\ Residues[d][i] = [j \in Coefs |-> reg[d][i][j] % q(i)]
      BY <1>1 DEF Residues
    <2>2. CASE i > l
      <3>1. reg'[d][i] = reg[d][i]
        BY <2>2 DEF Frame
      <3>2. QED
        BY <2>1, <2>2, <3>1
    <2>3. CASE ~(i > l)
      <3>1. i \in 1..l
        BY <2>3 DEF Rows, Level
      <3>2. g[i] = [j \in Coefs |-> g[i][j]]
        BY DEF Table
      <3>3. QED
        BY <2>1, <2>3, <3>1, <3>2
    <2>4. QED
      BY <2>2, <2>3
  <1>4. Residues'[d] = [i \in Rows |-> Residues'[d][i]]
    BY <1>1 DEF Residues
  <1>5. Residues'[d] = [i \in Rows |-> IF i > l THEN Residues[d][i] ELSE g[i]]
    BY <1>3, <1>4
  <1>6. QED
    BY <1>2, <1>5 DEF Moves

\* The coefficients at row i and column j before the call, and the row's modulus.
Cell(d, i, j) ==
    /\ Fits(i)
    /\ Bounded(reg.a[i][j], lim.a[i], Residues.a[i][j], q(i))
    /\ Bounded(reg.b[i][j], lim.b[i], Residues.b[i][j], q(i))
    /\ Bounded(reg[d][i][j], lim[d][i], Residues[d][i][j], q(i))

\* The coefficients a call reads are within their bounds.
LEMMA Cells ==
    ASSUME IInv, NEW l \in Level, NEW d \in Dest, NEW i \in 1..l, NEW j \in Coefs
    PROVE  i \in Rows /\ Cell(d, i, j)
  <1>1. i \in Rows
    BY DEF Level, Rows
  <1>2. "a" \in Regs /\ "b" \in Regs /\ d \in Regs
    BY DEF Regs, Dest
  <1>3. QED
    BY <1>1, <1>2, ModulusFits, Operand DEF Cell

\* A call that writes coefficients within their bounds keeps the invariant, and
\* moves the residues as those coefficients say.
LEMMA CallStep ==
    ASSUME IInv, NEW l \in Level, NEW d \in Dest, Frame(l, d), NEW g, Table(g),
           \A i \in 1..l, j \in Coefs : Bounded(reg'[d][i][j], lim'[d][i], g[i][j], q(i))
    PROVE  IInv' /\ Moves(l, d, g)
  <1>1. ASSUME NEW i \in 1..l, NEW j \in Coefs
        PROVE  InBound(d, i, j) /\ g[i][j] = reg'[d][i][j] % q(i)
    <2>1. Bounded(reg'[d][i][j], lim'[d][i], g[i][j], q(i))
      OBVIOUS
    <2>2. QED
      BY <2>1, RAssumption DEF Bounded, InBound
  <1>2. TypeOK
    BY DEF IInv
  <1>3. QED
    BY <1>1, <1>2, CallKeeps, CallMoves, Zenon

\* ToMont is MForm with the tables of the row.
LEMMA ToMontIs == \A x, i : ToMont(x, i) = MForm(x, q(i), bred(i))
  BY DEF ToMont, q, bred

\* The bitwise operators of the ring and of its abstraction are the same.
LEMMA SameBits ==
    \A x, k : Abstract!And(x, k) = And(x, k) /\ Abstract!Or(x, k) = Or(x, k) /\ Abstract!Xor(x, k) = Xor(x, k)
  BY DEF And, Or, Xor, BitByBit, Abstract!And, Abstract!Or, Abstract!Xor, Abstract!BitByBit

\* A product by a scalar, reduced before or not, is that of the residues.
LEMMA TimesScalarIs ==
    ASSUME NEW i, Fits(i), NEW k \in 0..(R - 1), NEW x, NEW xt, NEW xr, Bounded(x, xt, xr, q(i))
    PROVE  /\ Bounded(TimesScalar(x, k, i), q(i), (xr * (k % q(i))) % q(i), q(i))
           /\ Bounded(TimesScalar(x, k % q(i), i), q(i), (xr * (k % q(i))) % q(i), q(i))
  <1>1. q(i) \in Nat \ {0} /\ 2 * q(i) <= R /\ bred(i) = BRedParams(q(i)) /\ k \in Int
        /\ Good(q(i), mred(i), bred(i), Abstract!RadixInv[i])
    BY RAssumption DEF Fits, Good
  <1> DEFINE c == k % q(i)
  <1>2. c \in 0..(q(i) - 1) /\ c % q(i) = c
    BY <1>1, ModSmall, Zenon
  <1>3. c \in 0..(R - 1)
    BY <1>1, <1>2, RAssumption
  <1>4. BRedAdd(k, q(i), bred(i)) = c
    BY <1>1, BarrettReduction
  <1>5. BRedAdd(c, q(i), bred(i)) = c % q(i)
    <2> HIDE DEF c
    <2> QED
      BY <1>1, <1>3, BarrettReduction
  <1> HIDE DEF c
  <1>6. Bounded(MRed(x, MForm(c, q(i), bred(i)), q(i), mred(i)), q(i), (xr * (c % q(i))) % q(i), q(i))
    BY <1>1, <1>3, ScalarWord
  <1>7. TimesScalar(x, k, i) = MRed(x, MForm(c, q(i), bred(i)), q(i), mred(i))
        /\ TimesScalar(x, c, i) = MRed(x, MForm(c, q(i), bred(i)), q(i), mred(i))
    BY <1>2, <1>4, <1>5, ToMontIs DEF TimesScalar
  <1>8. QED
    BY <1>2, <1>6, <1>7 DEF c

\* A product by 2 in the Montgomery domain doubles the residue.
LEMMA TwoIs ==
    ASSUME NEW i, Fits(i), NEW x, NEW xt, NEW xr, Bounded(x, xt, xr, q(i))
    PROVE  Bounded(MRed(x, ToMont(2, i), q(i), mred(i)), q(i), (xr * (2 % q(i))) % q(i), q(i))
  <1>1. Good(q(i), mred(i), bred(i), Abstract!RadixInv[i]) /\ 2 \in 0..(R - 1)
    BY RAssumption DEF Fits, Good
  <1>2. QED
    BY <1>1, ScalarWord, ToMontIs

\* TimesPow2 is the product by the power of two.
LEMMA TimesPow2Is ==
    ASSUME NEW i, Fits(i), NEW n \in 0..(W - 1), NEW x, NEW xt, NEW xr, Bounded(x, xt, xr, q(i))
    PROVE  Bounded(TimesPow2(x, n, i), q(i), (xr * (2^n % q(i))) % q(i), q(i))
  <1>1. Good(q(i), mred(i), bred(i), Abstract!RadixInv[i])
    BY DEF Fits
  <1>2. QED
    BY <1>1, Pow2Word, ToMontIs DEF TimesPow2

\* A product by a word of the vector takes the factor R out.
LEMMA VectorIs ==
    ASSUME NEW m, NEW qInv, NEW u, NEW v, Good(m, qInv, u, v), NEW x, NEW xt, NEW xr, Bounded(x, xt, xr, m),
           NEW w \in 0..(R - 1), Montgomery(xt, w + 1, m)
    PROVE  Bounded(MRed(x, w, m, qInv), m, (xr * w * v) % m, m)
  <1>1. MRed(x, w, m, qInv) \in 0..(m - 1) /\ MRed(x, w, m, qInv) % m = (xr * w * v) % m
    BY VectorWord
  <1>2. m \in 1..R
    BY RAssumption DEF Good
  <1> DEFINE e == (xr * w * v) % m
  <1> HIDE DEF e
  <1>3. Bounded(MRed(x, w, m, qInv), m, e, m)
    BY <1>1, <1>2 DEF Bounded, e
  <1>4. QED
    BY <1>3 DEF e

\* A signed coefficient made non-negative is its residue.
LEMMA SignedIs ==
    ASSUME NEW i, Fits(i), NEW c \in (1 - R)..(R - 1)
    PROVE  Bounded(CRed(Wrap(GoRem(c, q(i)) + q(i)), q(i)), q(i), c % q(i), q(i))
  <1> DEFINE m == q(i)
             e == GoRem(c, m) + m
  <1>1. m \in Nat \ {0} /\ 8 * m < R /\ c \in Int /\ 1 \in Int
    BY RAssumption DEF Fits, Good
  <1> HIDE DEF m
  <1>2. e \in 0..((2 * m) - 1) /\ e % m = c % m
    <2>1. CASE c < 0
      <3> DEFINE a == -c
      <3>1. a \in Int /\ a % m \in 0..(m - 1) /\ 1 \in Int
        BY <1>1
      <3>2. e = (-(a % m)) + (1 * m) /\ -(a % m) \in Int
        BY <1>1, <2>1, <3>1 DEF GoRem
      <3>3. ((-(a % m)) + (1 * m)) % m = (-(a % m)) % m
        BY <1>1, <3>1, <3>2, ModPlus, Zenon
      <3>4. (-(a % m)) % m = (-a) % m
        <4> HIDE DEF a
        <4> QED
          BY <1>1, <3>1, ModNeg
      <3>5. -a = c
        OBVIOUS
      <3>6. QED
        BY <1>1, <3>1, <3>2, <3>3, <3>4, <3>5
    <2>2. CASE ~(c < 0)
      <3>1. c % m \in 0..(m - 1) /\ (c % m) % m = c % m
        BY <1>1, ModSmall, Zenon
      <3>2. e = (c % m) + (1 * m) /\ c % m \in Int
        BY <1>1, <2>2, <3>1 DEF GoRem
      <3>3. ((c % m) + (1 * m)) % m = (c % m) % m
        BY <1>1, <3>1, <3>2, ModPlus, Zenon
      <3>4. QED
        BY <1>1, <3>1, <3>2, <3>3
    <2>3. QED
      BY <2>1, <2>2
  <1> HIDE DEF e, m
  <1>3. Bounded(CRed(Wrap(e), m), m, c % m, m)
    BY <1>1, <1>2, Corrected
  <1>4. QED
    BY <1>3 DEF e, m

\* A word brought to the Montgomery domain, from its residue or as it is.
LEMMA ToMontOf ==
    ASSUME NEW i, Fits(i), NEW a \in 0..(R - 1)
    PROVE  Bounded(ToMont(a, i), q(i), (a * R) % q(i), q(i))
           /\ Bounded(ToMont(a, i), q(i), ((a % q(i)) * R) % q(i), q(i))
  <1>1. Good(q(i), mred(i), bred(i), Abstract!RadixInv[i]) /\ q(i) \in Nat \ {0}
        /\ a \in Int /\ R \in Int
    BY RAssumption DEF Fits, Good
  <1>2. Bounded(a, R, a % q(i), q(i))
    BY RAssumption DEF Bounded
  <1>3. Bounded(MForm(a, q(i), bred(i)), q(i), ((a % q(i)) * R) % q(i), q(i))
    BY <1>1, <1>2, ToMontWord
  <1>4. ((a % q(i)) * R) % q(i) = (a * R) % q(i)
    BY <1>1, ModProd, Zenon
  <1>5. QED
    BY <1>3, <1>4, ToMontIs

\* A polynomial with only a constant coefficient, brought to the Montgomery
\* domain.
LEMMA ConstIs ==
    ASSUME NEW i, Fits(i), NEW a \in 0..(R - 1), NEW j
    PROVE  Bounded(IF j = 0 THEN ToMont(a, i) ELSE 0, q(i), IF j = 0 THEN (a * R) % q(i) ELSE 0, q(i))
  <1>1. Bounded(0, q(i), 0, q(i))
    BY RAssumption DEF Fits, Good, Bounded
  <1>2. QED
    BY <1>1, ToMontOf

\* A signed word brought to the Montgomery domain.
LEMMA WordIs ==
    ASSUME NEW i, Fits(i), NEW c \in (1 - R)..(R - 1)
    PROVE  Bounded(ToMont(Raised(c, q(i)), i), q(i), ((c % q(i)) * R) % q(i), q(i))
  <1> DEFINE m == q(i)
             w == Raised(c, m)
  <1>1. m \in Nat \ {0} /\ 8 * m < R /\ c \in Int
    BY RAssumption DEF Fits, Good
  <1>2. w \in 0..(R - 1) /\ w % m = c % m
    <2>1. CASE c >= 0
      <3>1. c \in 0..(R - 1) /\ w = CHOOSE t \in 0..(R - 1) : t = c
        BY <2>1 DEF Raised
      <3>2. QED
        BY <3>1
    <2>2. CASE ~(c >= 0)
      <3> DEFINE P(t) == t < m /\ (t - c) % m = 0
                 a == c % m
      <3>1. a \in 0..(m - 1) /\ a \in Int
        BY <1>1
      <3> HIDE DEF a
      <3>2. \E t \in 0..(R - 1) : P(t)
        <4>1. PICK k \in Int : a = c - (k * m)
          BY <1>1, ModIs, Zenon DEF a
        <4>2. a - c = 0 + ((-k) * m) /\ -k \in Int /\ 0 \in Int
          BY <1>1, <4>1
        <4>3. (0 + ((-k) * m)) % m = 0 % m
          BY <1>1, <4>2, ModPlus, Zenon
        <4>4. 0 % m = 0
          BY <1>1
        <4>5. a < m /\ (a - c) % m = 0 /\ a \in 0..(R - 1)
          BY <1>1, <3>1, <4>2, <4>3, <4>4, RAssumption
        <4>6. QED
          BY <4>5
      <3>3. w = CHOOSE t \in 0..(R - 1) : P(t)
        BY <2>2 DEF Raised
      <3>4. w \in 0..(R - 1) /\ P(w)
        <4> HIDE DEF P
        <4> QED
          BY <3>2, <3>3
      <3> HIDE DEF w
      <3>5. PICK k \in Int : w - c = k * m
        <4>1. w - c \in Int /\ (w - c) % m = 0
          BY <1>1, <3>4
        <4>2. PICK k \in Int : (w - c) % m = (w - c) - (k * m)
          BY <1>1, <4>1, ModIs, Zenon
        <4>3. QED
          BY <1>1, <4>1, <4>2
      <3>6. w = c + (k * m)
        BY <1>1, <3>4, <3>5
      <3>7. (c + (k * m)) % m = c % m
        BY <1>1, ModPlus, Zenon
      <3>8. QED
        BY <3>4, <3>6, <3>7
    <2>3. QED
      BY <2>1, <2>2
  <1> HIDE DEF w
  <1>3. Bounded(ToMont(w, i), m, ((w % m) * R) % m, m)
    BY <1>2, ToMontOf
  <1>4. QED
    BY <1>2, <1>3 DEF w

\* The scalars of the calls are words.
LEMMA ScalarRange == \A k \in 1..(R \div 2) : k \in 0..(R - 1)
  BY RAssumption

-----------------------------------------------------------------------------
(* The calls, one by one *)
LEMMA AddStep ==
    ASSUME IInv, NEW l \in Level, NEW d \in Dest, AddLvl(l, d)
    PROVE  IInv' /\ Abstract!Next
  <1> DEFINE g == [i \in Rows |-> [j \in Coefs |-> (Residues.a[i][j] + Residues.b[i][j]) % Modulus[i]]]
  <1>1. TypeOK /\ d \in Regs /\ d \in Dest
    BY Tables DEF IInv, Dest, Regs
  <1>2. /\ Frame(l, d) /\ call' = [op |-> "add", lvl |-> l, dst |-> d, arg |-> 0]
        /\ \A i \in 1..l, j \in Coefs :
              /\ reg'[d][i][j] = CRed(Wrap(reg.a[i][j] + reg.b[i][j]), q(i))
              /\ lim'[d][i] = q(i)
              /\ lim.a[i] + lim.b[i] - 2 < 2 * q(i)
    BY <1>1 DEF AddLvl, ByCoef, ByRow, TypeOK, Frame, Level, Rows, BelowQ
  <1>3. ASSUME NEW i \in 1..l, NEW j \in Coefs
        PROVE  Bounded(reg'[d][i][j], lim'[d][i], g[i][j], q(i))
    <2>1. i \in Rows /\ Cell(d, i, j)
      BY <1>1, Cells
    <2>2. /\ reg'[d][i][j] = CRed(Wrap(reg.a[i][j] + reg.b[i][j]), q(i))
          /\ lim'[d][i] = q(i)
          /\ lim.a[i] + lim.b[i] - 2 < 2 * q(i)
          /\ g[i][j] = (Residues.a[i][j] + Residues.b[i][j]) % q(i)
      BY <1>2, <2>1 DEF q
    <2> HIDE DEF g
    <2>3. QED
      BY <2>1, <2>2, AddWord DEF Cell, Fits
  <1>4. IInv' /\ Moves(l, d, g)
    <2>1. Table(g)
      BY DEF Table
    <2> HIDE DEF g
    <2>2. QED
      BY <1>1, <1>2, <1>3, <2>1, CallStep, Zenon
  <1>5. Abstract!Does("add", LAMBDA x, y, z, i : x + y)
    BY <1>2, <1>4, Tables DEF Moves, Abstract!Does, Abstract!DoesRow
  <1>6. QED
    BY <1>4, <1>5, Zenon DEF Abstract!Next, Abstract!Arithmetic

\* AddNoMod keeps the invariant, and is the step of the ring of that name.
LEMMA AddNoModStep ==
    ASSUME IInv, NEW l \in Level, NEW d \in Dest, AddNoModLvl(l, d)
    PROVE  IInv' /\ Abstract!Next
  <1> DEFINE g == [i \in Rows |-> [j \in Coefs |-> (Residues.a[i][j] + Residues.b[i][j]) % Modulus[i]]]
  <1>1. TypeOK /\ d \in Regs /\ d \in Dest
    BY Tables DEF IInv, Dest, Regs
  <1>2. /\ Frame(l, d) /\ call' = [op |-> "add", lvl |-> l, dst |-> d, arg |-> 0]
        /\ \A i \in 1..l, j \in Coefs :
              /\ reg'[d][i][j] = Wrap(reg.a[i][j] + reg.b[i][j])
              /\ lim'[d][i] = lim.a[i] + lim.b[i] - 1
              /\ lim.a[i] + lim.b[i] - 2 < R
    BY <1>1 DEF AddNoModLvl, ByCoef, ByRow, TypeOK, Frame, Level, Rows
  <1>3. ASSUME NEW i \in 1..l, NEW j \in Coefs
        PROVE  Bounded(reg'[d][i][j], lim'[d][i], g[i][j], q(i))
    <2>1. i \in Rows /\ Cell(d, i, j)
      BY <1>1, Cells
    <2>2. /\ reg'[d][i][j] = Wrap(reg.a[i][j] + reg.b[i][j])
          /\ lim'[d][i] = lim.a[i] + lim.b[i] - 1
          /\ lim.a[i] + lim.b[i] - 2 < R
          /\ g[i][j] = (Residues.a[i][j] + Residues.b[i][j]) % q(i)
      BY <1>2, <2>1 DEF q
    <2> HIDE DEF g
    <2>3. QED
      BY <2>1, <2>2, AddNoModWord DEF Cell, Fits
  <1>4. IInv' /\ Moves(l, d, g)
    <2>1. Table(g)
      BY DEF Table
    <2> HIDE DEF g
    <2>2. QED
      BY <1>1, <1>2, <1>3, <2>1, CallStep, Zenon
  <1>5. Abstract!Does("add", LAMBDA x, y, z, i : x + y)
    BY <1>2, <1>4, Tables DEF Moves, Abstract!Does, Abstract!DoesRow
  <1>6. QED
    BY <1>4, <1>5, Zenon DEF Abstract!Next, Abstract!Arithmetic

\* Sub keeps the invariant, and is the step of the ring of that name.
LEMMA SubStep ==
    ASSUME IInv, NEW l \in Level, NEW d \in Dest, SubLvl(l, d)
    PROVE  IInv' /\ Abstract!Next
  <1> DEFINE g == [i \in Rows |-> [j \in Coefs |-> (Residues.a[i][j] - Residues.b[i][j]) % Modulus[i]]]
  <1>1. TypeOK /\ d \in Regs /\ d \in Dest
    BY Tables DEF IInv, Dest, Regs
  <1>2. /\ Frame(l, d) /\ call' = [op |-> "sub", lvl |-> l, dst |-> d, arg |-> 0]
        /\ \A i \in 1..l, j \in Coefs :
              /\ reg'[d][i][j] = CRed(Wrap(reg.a[i][j] + q(i) - reg.b[i][j]), q(i))
              /\ lim'[d][i] = q(i)
              /\ lim.a[i] <= q(i)
              /\ lim.b[i] <= q(i) + 1
    BY <1>1 DEF SubLvl, ByCoef, ByRow, TypeOK, Frame, Level, Rows, BelowQ
  <1>3. ASSUME NEW i \in 1..l, NEW j \in Coefs
        PROVE  Bounded(reg'[d][i][j], lim'[d][i], g[i][j], q(i))
    <2>1. i \in Rows /\ Cell(d, i, j)
      BY <1>1, Cells
    <2>2. /\ reg'[d][i][j] = CRed(Wrap(reg.a[i][j] + q(i) - reg.b[i][j]), q(i))
          /\ lim'[d][i] = q(i)
          /\ lim.a[i] <= q(i)
          /\ lim.b[i] <= q(i) + 1
          /\ g[i][j] = (Residues.a[i][j] - Residues.b[i][j]) % q(i)
      BY <1>2, <2>1 DEF q
    <2> HIDE DEF g
    <2>3. QED
      BY <2>1, <2>2, SubWord DEF Cell, Fits
  <1>4. IInv' /\ Moves(l, d, g)
    <2>1. Table(g)
      BY DEF Table
    <2> HIDE DEF g
    <2>2. QED
      BY <1>1, <1>2, <1>3, <2>1, CallStep, Zenon
  <1>5. Abstract!Does("sub", LAMBDA x, y, z, i : x - y)
    BY <1>2, <1>4, Tables DEF Moves, Abstract!Does, Abstract!DoesRow
  <1>6. QED
    BY <1>4, <1>5, Zenon DEF Abstract!Next, Abstract!Arithmetic

\* SubNoMod keeps the invariant, and is the step of the ring of that name.
LEMMA SubNoModStep ==
    ASSUME IInv, NEW l \in Level, NEW d \in Dest, SubNoModLvl(l, d)
    PROVE  IInv' /\ Abstract!Next
  <1> DEFINE g == [i \in Rows |-> [j \in Coefs |-> (Residues.a[i][j] - Residues.b[i][j]) % Modulus[i]]]
  <1>1. TypeOK /\ d \in Regs /\ d \in Dest
    BY Tables DEF IInv, Dest, Regs
  <1>2. /\ Frame(l, d) /\ call' = [op |-> "sub", lvl |-> l, dst |-> d, arg |-> 0]
        /\ \A i \in 1..l, j \in Coefs :
              /\ reg'[d][i][j] = Wrap(reg.a[i][j] + q(i) - reg.b[i][j])
              /\ lim'[d][i] = lim.a[i] + q(i)
              /\ lim.a[i] + q(i) - 1 < R
              /\ lim.b[i] <= q(i) + 1
    BY <1>1 DEF SubNoModLvl, ByCoef, ByRow, TypeOK, Frame, Level, Rows
  <1>3. ASSUME NEW i \in 1..l, NEW j \in Coefs
        PROVE  Bounded(reg'[d][i][j], lim'[d][i], g[i][j], q(i))
    <2>1. i \in Rows /\ Cell(d, i, j)
      BY <1>1, Cells
    <2>2. /\ reg'[d][i][j] = Wrap(reg.a[i][j] + q(i) - reg.b[i][j])
          /\ lim'[d][i] = lim.a[i] + q(i)
          /\ lim.a[i] + q(i) - 1 < R
          /\ lim.b[i] <= q(i) + 1
          /\ g[i][j] = (Residues.a[i][j] - Residues.b[i][j]) % q(i)
      BY <1>2, <2>1 DEF q
    <2> HIDE DEF g
    <2>3. QED
      BY <2>1, <2>2, SubNoModWord DEF Cell, Fits
  <1>4. IInv' /\ Moves(l, d, g)
    <2>1. Table(g)
      BY DEF Table
    <2> HIDE DEF g
    <2>2. QED
      BY <1>1, <1>2, <1>3, <2>1, CallStep, Zenon
  <1>5. Abstract!Does("sub", LAMBDA x, y, z, i : x - y)
    BY <1>2, <1>4, Tables DEF Moves, Abstract!Does, Abstract!DoesRow
  <1>6. QED
    BY <1>4, <1>5, Zenon DEF Abstract!Next, Abstract!Arithmetic

\* Neg keeps the invariant, and is the step of the ring of that name.
LEMMA NegStep ==
    ASSUME IInv, NEW l \in Level, NEW d \in Dest, NegLvl(l, d)
    PROVE  IInv' /\ Abstract!Next
  <1> DEFINE g == [i \in Rows |-> [j \in Coefs |-> (-Residues.a[i][j]) % Modulus[i]]]
  <1>1. TypeOK /\ d \in Regs /\ d \in Dest
    BY Tables DEF IInv, Dest, Regs
  <1>2. /\ Frame(l, d) /\ call' = [op |-> "neg", lvl |-> l, dst |-> d, arg |-> 0]
        /\ \A i \in 1..l, j \in Coefs :
              /\ reg'[d][i][j] = Wrap(q(i) - reg.a[i][j])
              /\ lim'[d][i] = q(i) + 1
              /\ lim.a[i] <= q(i) + 1
    BY <1>1 DEF NegLvl, ByCoef, ByRow, TypeOK, Frame, Level, Rows
  <1>3. ASSUME NEW i \in 1..l, NEW j \in Coefs
        PROVE  Bounded(reg'[d][i][j], lim'[d][i], g[i][j], q(i))
    <2>1. i \in Rows /\ Cell(d, i, j)
      BY <1>1, Cells
    <2>2. /\ reg'[d][i][j] = Wrap(q(i) - reg.a[i][j])
          /\ lim'[d][i] = q(i) + 1
          /\ lim.a[i] <= q(i) + 1
          /\ g[i][j] = (-Residues.a[i][j]) % q(i)
      BY <1>2, <2>1 DEF q
    <2> HIDE DEF g
    <2>3. QED
      BY <2>1, <2>2, NegWord DEF Cell, Fits
  <1>4. IInv' /\ Moves(l, d, g)
    <2>1. Table(g)
      BY DEF Table
    <2> HIDE DEF g
    <2>2. QED
      BY <1>1, <1>2, <1>3, <2>1, CallStep, Zenon
  <1>5. Abstract!Does("neg", LAMBDA x, y, z, i : -x)
    BY <1>2, <1>4, Tables DEF Moves, Abstract!Does, Abstract!DoesRow
  <1>6. QED
    BY <1>4, <1>5, Zenon DEF Abstract!Next, Abstract!Arithmetic

\* Reduce keeps the invariant, and is the step of the ring of that name.
LEMMA ReduceStep ==
    ASSUME IInv, NEW l \in Level, NEW d \in Dest, ReduceLvl(l, d)
    PROVE  IInv' /\ Abstract!Next
  <1> DEFINE g == [i \in Rows |-> [j \in Coefs |-> (Residues.a[i][j]) % Modulus[i]]]
  <1>1. TypeOK /\ d \in Regs /\ d \in Dest
    BY Tables DEF IInv, Dest, Regs
  <1>2. /\ Frame(l, d) /\ call' = [op |-> "copy", lvl |-> l, dst |-> d, arg |-> 0]
        /\ \A i \in 1..l, j \in Coefs :
              /\ reg'[d][i][j] = BRedAdd(reg.a[i][j], q(i), bred(i))
              /\ lim'[d][i] = q(i)
    BY <1>1 DEF ReduceLvl, ByCoef, ByRow, TypeOK, Frame, Level, Rows, Always, BelowQ
  <1>3. ASSUME NEW i \in 1..l, NEW j \in Coefs
        PROVE  Bounded(reg'[d][i][j], lim'[d][i], g[i][j], q(i))
    <2>1. i \in Rows /\ Cell(d, i, j)
      BY <1>1, Cells
    <2>2. /\ reg'[d][i][j] = BRedAdd(reg.a[i][j], q(i), bred(i))
          /\ lim'[d][i] = q(i)
          /\ g[i][j] = (Residues.a[i][j]) % q(i)
      BY <1>2, <2>1 DEF q
    <2> HIDE DEF g
    <2>3. QED
      BY <2>1, <2>2, ReduceWord DEF Cell, Fits
  <1>4. IInv' /\ Moves(l, d, g)
    <2>1. Table(g)
      BY DEF Table
    <2> HIDE DEF g
    <2>2. QED
      BY <1>1, <1>2, <1>3, <2>1, CallStep, Zenon
  <1>5. Abstract!Does("copy", LAMBDA x, y, z, i : x)
    BY <1>2, <1>4, Tables DEF Moves, Abstract!Does, Abstract!DoesRow
  <1>6. QED
    BY <1>4, <1>5, Zenon DEF Abstract!Next, Abstract!Arithmetic

\* ReduceConstant keeps the invariant, and is the step of the ring of that
\* name.
LEMMA ReduceConstantStep ==
    ASSUME IInv, NEW l \in Level, NEW d \in Dest, ReduceConstantLvl(l, d)
    PROVE  IInv' /\ Abstract!Next
  <1> DEFINE g == [i \in Rows |-> [j \in Coefs |-> (Residues.a[i][j]) % Modulus[i]]]
  <1>1. TypeOK /\ d \in Regs /\ d \in Dest
    BY Tables DEF IInv, Dest, Regs
  <1>2. /\ Frame(l, d) /\ call' = [op |-> "copy", lvl |-> l, dst |-> d, arg |-> 0]
        /\ \A i \in 1..l, j \in Coefs :
              /\ reg'[d][i][j] = BRedAddConstant(reg.a[i][j], q(i), bred(i))
              /\ lim'[d][i] = 2 * q(i)
    BY <1>1 DEF ReduceConstantLvl, ByCoef, ByRow, TypeOK, Frame, Level, Rows, Always, Below2Q
  <1>3. ASSUME NEW i \in 1..l, NEW j \in Coefs
        PROVE  Bounded(reg'[d][i][j], lim'[d][i], g[i][j], q(i))
    <2>1. i \in Rows /\ Cell(d, i, j)
      BY <1>1, Cells
    <2>2. /\ reg'[d][i][j] = BRedAddConstant(reg.a[i][j], q(i), bred(i))
          /\ lim'[d][i] = 2 * q(i)
          /\ g[i][j] = (Residues.a[i][j]) % q(i)
      BY <1>2, <2>1 DEF q
    <2> HIDE DEF g
    <2>3. QED
      BY <2>1, <2>2, ReduceWord DEF Cell, Fits
  <1>4. IInv' /\ Moves(l, d, g)
    <2>1. Table(g)
      BY DEF Table
    <2> HIDE DEF g
    <2>2. QED
      BY <1>1, <1>2, <1>3, <2>1, CallStep, Zenon
  <1>5. Abstract!Does("copy", LAMBDA x, y, z, i : x)
    BY <1>2, <1>4, Tables DEF Moves, Abstract!Does, Abstract!DoesRow
  <1>6. QED
    BY <1>4, <1>5, Zenon DEF Abstract!Next, Abstract!Arithmetic

\* Mod keeps the invariant, and is the step of the ring of that name.
LEMMA ModStep ==
    ASSUME IInv, NEW k \in 1..(R \div 2), NEW d \in Dest, Mod(k, d)
    PROVE  IInv' /\ Abstract!Next
  <1> DEFINE g == [i \in Rows |-> [j \in Coefs |-> (Residues.a[i][j] % k) % Modulus[i]]]
  <1>1. TypeOK /\ d \in Regs /\ d \in Dest /\ Last \in Level
    BY Tables DEF IInv, Dest, Regs
  <1>2. /\ Frame(Last, d) /\ call' = [op |-> "mod", lvl |-> Last, dst |-> d, arg |-> k]
        /\ \A i \in 1..Last, j \in Coefs :
              /\ reg'[d][i][j] = BRedAdd(reg.a[i][j], k, BRedParams(k))
              /\ lim'[d][i] = q(i)
              /\ lim.a[i] <= q(i)
    BY <1>1 DEF Mod, ByCoef, ByRow, TypeOK, Frame, Level, Rows, BelowQ
  <1>3. ASSUME NEW i \in 1..Last, NEW j \in Coefs
        PROVE  Bounded(reg'[d][i][j], lim'[d][i], g[i][j], q(i))
    <2>1. i \in Rows /\ Cell(d, i, j)
      BY <1>1, Cells
    <2>2. /\ reg'[d][i][j] = BRedAdd(reg.a[i][j], k, BRedParams(k))
          /\ lim'[d][i] = q(i)
          /\ lim.a[i] <= q(i)
          /\ g[i][j] = (Residues.a[i][j] % k) % q(i)
      BY <1>2, <2>1 DEF q
    <2> HIDE DEF g
    <2>3. QED
      BY <2>1, <2>2, ModWord DEF Cell, Fits
  <1>4. IInv' /\ Moves(Last, d, g)
    <2>1. Table(g)
      BY DEF Table
    <2> HIDE DEF g
    <2>2. QED
      BY <1>1, <1>2, <1>3, <2>1, CallStep, Zenon
  <1>5. Abstract!Does("mod", LAMBDA x, y, z, i : x % call'.arg)
    BY <1>2, <1>4, Tables DEF Moves, Abstract!Does, Abstract!DoesRow
  <1>6. QED
    BY <1>4, <1>5, Zenon DEF Abstract!Next, Abstract!Arithmetic

\* AND keeps the invariant, and is the step of the ring of that name.
LEMMA ANDStep ==
    ASSUME IInv, NEW k \in 1..(R \div 2), NEW d \in Dest, AND(k, d)
    PROVE  IInv' /\ Abstract!Next
  <1> DEFINE g == [i \in Rows |-> [j \in Coefs |-> (Abstract!And(Residues.a[i][j], k)) % Modulus[i]]]
  <1>1. TypeOK /\ d \in Regs /\ d \in Dest /\ Last \in Level
    BY Tables DEF IInv, Dest, Regs
  <1>2. /\ Frame(Last, d) /\ call' = [op |-> "and", lvl |-> Last, dst |-> d, arg |-> k]
        /\ \A i \in 1..Last, j \in Coefs :
              /\ reg'[d][i][j] = And(reg.a[i][j], k)
              /\ lim'[d][i] = q(i)
              /\ lim.a[i] <= q(i)
    BY <1>1 DEF AND, ByCoef, ByRow, TypeOK, Frame, Level, Rows, BelowQ
  <1>3. ASSUME NEW i \in 1..Last, NEW j \in Coefs
        PROVE  Bounded(reg'[d][i][j], lim'[d][i], g[i][j], q(i))
    <2>1. i \in Rows /\ Cell(d, i, j)
      BY <1>1, Cells
    <2>2. /\ reg'[d][i][j] = And(reg.a[i][j], k)
          /\ lim'[d][i] = q(i)
          /\ lim.a[i] <= q(i)
          /\ g[i][j] = (Abstract!And(Residues.a[i][j], k)) % q(i)
      BY <1>2, <2>1 DEF q
    <2> HIDE DEF g
    <2>3. QED
      BY <2>1, <2>2, BitsWord, SameBits DEF Cell, Fits
  <1>4. IInv' /\ Moves(Last, d, g)
    <2>1. Table(g)
      BY DEF Table
    <2> HIDE DEF g
    <2>2. QED
      BY <1>1, <1>2, <1>3, <2>1, CallStep, Zenon
  <1>5. Abstract!Does("and", LAMBDA x, y, z, i : Abstract!And(x, call'.arg))
    BY <1>2, <1>4, Tables DEF Moves, Abstract!Does, Abstract!DoesRow
  <1>6. QED
    BY <1>4, <1>5, Zenon DEF Abstract!Next, Abstract!Arithmetic

\* OR keeps the invariant, and is the step of the ring of that name.
LEMMA ORStep ==
    ASSUME IInv, NEW k \in 1..(R \div 2), NEW d \in Dest, OR(k, d)
    PROVE  IInv' /\ Abstract!Next
  <1> DEFINE g == [i \in Rows |-> [j \in Coefs |-> (Abstract!Or(Residues.a[i][j], k)) % Modulus[i]]]
  <1>1. TypeOK /\ d \in Regs /\ d \in Dest /\ Last \in Level
    BY Tables DEF IInv, Dest, Regs
  <1>2. /\ Frame(Last, d) /\ call' = [op |-> "or", lvl |-> Last, dst |-> d, arg |-> k]
        /\ \A i \in 1..Last, j \in Coefs :
              /\ reg'[d][i][j] = Or(reg.a[i][j], k)
              /\ lim'[d][i] = 2 * q(i)
              /\ lim.a[i] <= q(i)
              /\ k < q(i)
    BY <1>1 DEF OR, ByCoef, ByRow, TypeOK, Frame, Level, Rows, Below2Q
  <1>3. ASSUME NEW i \in 1..Last, NEW j \in Coefs
        PROVE  Bounded(reg'[d][i][j], lim'[d][i], g[i][j], q(i))
    <2>1. i \in Rows /\ Cell(d, i, j)
      BY <1>1, Cells
    <2>2. /\ reg'[d][i][j] = Or(reg.a[i][j], k)
          /\ lim'[d][i] = 2 * q(i)
          /\ lim.a[i] <= q(i)
          /\ k < q(i)
          /\ g[i][j] = (Abstract!Or(Residues.a[i][j], k)) % q(i)
      BY <1>2, <2>1 DEF q
    <2> HIDE DEF g
    <2>3. QED
      BY <2>1, <2>2, BitsWord, SameBits DEF Cell, Fits
  <1>4. IInv' /\ Moves(Last, d, g)
    <2>1. Table(g)
      BY DEF Table
    <2> HIDE DEF g
    <2>2. QED
      BY <1>1, <1>2, <1>3, <2>1, CallStep, Zenon
  <1>5. Abstract!Does("or", LAMBDA x, y, z, i : Abstract!Or(x, call'.arg))
    BY <1>2, <1>4, Tables DEF Moves, Abstract!Does, Abstract!DoesRow
  <1>6. QED
    BY <1>4, <1>5, Zenon DEF Abstract!Next, Abstract!Arithmetic

\* XOR keeps the invariant, and is the step of the ring of that name.
LEMMA XORStep ==
    ASSUME IInv, NEW k \in 1..(R \div 2), NEW d \in Dest, XOR(k, d)
    PROVE  IInv' /\ Abstract!Next
  <1> DEFINE g == [i \in Rows |-> [j \in Coefs |-> (Abstract!Xor(Residues.a[i][j], k)) % Modulus[i]]]
  <1>1. TypeOK /\ d \in Regs /\ d \in Dest /\ Last \in Level
    BY Tables DEF IInv, Dest, Regs
  <1>2. /\ Frame(Last, d) /\ call' = [op |-> "xor", lvl |-> Last, dst |-> d, arg |-> k]
        /\ \A i \in 1..Last, j \in Coefs :
              /\ reg'[d][i][j] = Xor(reg.a[i][j], k)
              /\ lim'[d][i] = 2 * q(i)
              /\ lim.a[i] <= q(i)
              /\ k < q(i)
    BY <1>1 DEF XOR, ByCoef, ByRow, TypeOK, Frame, Level, Rows, Below2Q
  <1>3. ASSUME NEW i \in 1..Last, NEW j \in Coefs
        PROVE  Bounded(reg'[d][i][j], lim'[d][i], g[i][j], q(i))
    <2>1. i \in Rows /\ Cell(d, i, j)
      BY <1>1, Cells
    <2>2. /\ reg'[d][i][j] = Xor(reg.a[i][j], k)
          /\ lim'[d][i] = 2 * q(i)
          /\ lim.a[i] <= q(i)
          /\ k < q(i)
          /\ g[i][j] = (Abstract!Xor(Residues.a[i][j], k)) % q(i)
      BY <1>2, <2>1 DEF q
    <2> HIDE DEF g
    <2>3. QED
      BY <2>1, <2>2, BitsWord, SameBits DEF Cell, Fits
  <1>4. IInv' /\ Moves(Last, d, g)
    <2>1. Table(g)
      BY DEF Table
    <2> HIDE DEF g
    <2>2. QED
      BY <1>1, <1>2, <1>3, <2>1, CallStep, Zenon
  <1>5. Abstract!Does("xor", LAMBDA x, y, z, i : Abstract!Xor(x, call'.arg))
    BY <1>2, <1>4, Tables DEF Moves, Abstract!Does, Abstract!DoesRow
  <1>6. QED
    BY <1>4, <1>5, Zenon DEF Abstract!Next, Abstract!Arithmetic

\* MulCoeffs keeps the invariant, and is the step of the ring of that name.
LEMMA MulCoeffsStep ==
    ASSUME IInv, NEW d \in Dest, MulCoeffs(d)
    PROVE  IInv' /\ Abstract!Next
  <1> DEFINE g == [i \in Rows |-> [j \in Coefs |-> (Residues.a[i][j] * Residues.b[i][j]) % Modulus[i]]]
  <1>1. TypeOK /\ d \in Regs /\ d \in Dest /\ Last \in Level
    BY Tables DEF IInv, Dest, Regs
  <1>2. /\ Frame(Last, d) /\ call' = [op |-> "mul", lvl |-> Last, dst |-> d, arg |-> 0]
        /\ \A i \in 1..Last, j \in Coefs :
              /\ reg'[d][i][j] = BRed(reg.a[i][j], reg.b[i][j], q(i), bred(i))
              /\ lim'[d][i] = q(i)
    BY <1>1 DEF MulCoeffs, ByCoef, ByRow, TypeOK, Frame, Level, Rows, Always, BelowQ
  <1>3. ASSUME NEW i \in 1..Last, NEW j \in Coefs
        PROVE  Bounded(reg'[d][i][j], lim'[d][i], g[i][j], q(i))
    <2>1. i \in Rows /\ Cell(d, i, j)
      BY <1>1, Cells
    <2>2. /\ reg'[d][i][j] = BRed(reg.a[i][j], reg.b[i][j], q(i), bred(i))
          /\ lim'[d][i] = q(i)
          /\ g[i][j] = (Residues.a[i][j] * Residues.b[i][j]) % q(i)
      BY <1>2, <2>1 DEF q
    <2> HIDE DEF g
    <2>3. QED
      BY <2>1, <2>2, MulWord DEF Cell, Fits
  <1>4. IInv' /\ Moves(Last, d, g)
    <2>1. Table(g)
      BY DEF Table
    <2> HIDE DEF g
    <2>2. QED
      BY <1>1, <1>2, <1>3, <2>1, CallStep, Zenon
  <1>5. Abstract!Does("mul", LAMBDA x, y, z, i : x * y)
    BY <1>2, <1>4, Tables DEF Moves, Abstract!Does, Abstract!DoesRow
  <1>6. QED
    BY <1>4, <1>5, Zenon DEF Abstract!Next, Abstract!Arithmetic

\* MulCoeffsConstant keeps the invariant, and is the step of the ring of that
\* name.
LEMMA MulCoeffsConstantStep ==
    ASSUME IInv, NEW d \in Dest, MulCoeffsConstant(d)
    PROVE  IInv' /\ Abstract!Next
  <1> DEFINE g == [i \in Rows |-> [j \in Coefs |-> (Residues.a[i][j] * Residues.b[i][j]) % Modulus[i]]]
  <1>1. TypeOK /\ d \in Regs /\ d \in Dest /\ Last \in Level
    BY Tables DEF IInv, Dest, Regs
  <1>2. /\ Frame(Last, d) /\ call' = [op |-> "mul", lvl |-> Last, dst |-> d, arg |-> 0]
        /\ \A i \in 1..Last, j \in Coefs :
              /\ reg'[d][i][j] = BRedConstant(reg.a[i][j], reg.b[i][j], q(i), bred(i))
              /\ lim'[d][i] = 2 * q(i)
    BY <1>1 DEF MulCoeffsConstant, ByCoef, ByRow, TypeOK, Frame, Level, Rows, Always, Below2Q
  <1>3. ASSUME NEW i \in 1..Last, NEW j \in Coefs
        PROVE  Bounded(reg'[d][i][j], lim'[d][i], g[i][j], q(i))
    <2>1. i \in Rows /\ Cell(d, i, j)
      BY <1>1, Cells
    <2>2. /\ reg'[d][i][j] = BRedConstant(reg.a[i][j], reg.b[i][j], q(i), bred(i))
          /\ lim'[d][i] = 2 * q(i)
          /\ g[i][j] = (Residues.a[i][j] * Residues.b[i][j]) % q(i)
      BY <1>2, <2>1 DEF q
    <2> HIDE DEF g
    <2>3. QED
      BY <2>1, <2>2, MulWord DEF Cell, Fits
  <1>4. IInv' /\ Moves(Last, d, g)
    <2>1. Table(g)
      BY DEF Table
    <2> HIDE DEF g
    <2>2. QED
      BY <1>1, <1>2, <1>3, <2>1, CallStep, Zenon
  <1>5. Abstract!Does("mul", LAMBDA x, y, z, i : x * y)
    BY <1>2, <1>4, Tables DEF Moves, Abstract!Does, Abstract!DoesRow
  <1>6. QED
    BY <1>4, <1>5, Zenon DEF Abstract!Next, Abstract!Arithmetic

\* MulCoeffsAndAdd keeps the invariant, and is the step of the ring of that
\* name.
LEMMA MulCoeffsAndAddStep ==
    ASSUME IInv, NEW d \in Dest, MulCoeffsAndAdd(d)
    PROVE  IInv' /\ Abstract!Next
  <1> DEFINE g ==
                 [i \in Rows |-> [j \in Coefs |->
                     (Residues[d][i][j] + Residues.a[i][j] * Residues.b[i][j]) % Modulus[i]]]
  <1>1. TypeOK /\ d \in Regs /\ d \in Dest /\ Last \in Level
    BY Tables DEF IInv, Dest, Regs
  <1>2. /\ Frame(Last, d) /\ call' = [op |-> "muladd", lvl |-> Last, dst |-> d, arg |-> 0]
        /\ \A i \in 1..Last, j \in Coefs :
              /\ reg'[d][i][j] = CRed(Wrap(reg[d][i][j] + BRed(reg.a[i][j], reg.b[i][j], q(i), bred(i))), q(i))
              /\ lim'[d][i] = q(i)
              /\ lim[d][i] <= q(i) + 1
    BY <1>1 DEF MulCoeffsAndAdd, ByCoef, ByRow, TypeOK, Frame, Level, Rows, BelowQ
  <1>3. ASSUME NEW i \in 1..Last, NEW j \in Coefs
        PROVE  Bounded(reg'[d][i][j], lim'[d][i], g[i][j], q(i))
    <2>1. i \in Rows /\ Cell(d, i, j)
      BY <1>1, Cells
    <2>2. /\ reg'[d][i][j] = CRed(Wrap(reg[d][i][j] + BRed(reg.a[i][j], reg.b[i][j], q(i), bred(i))), q(i))
          /\ lim'[d][i] = q(i)
          /\ lim[d][i] <= q(i) + 1
          /\ g[i][j] = (Residues[d][i][j] + Residues.a[i][j] * Residues.b[i][j]) % q(i)
      BY <1>2, <2>1 DEF q
    <2> HIDE DEF g
    <2>3. QED
      BY <2>1, <2>2, MulAddWord DEF Cell, Fits
  <1>4. IInv' /\ Moves(Last, d, g)
    <2>1. Table(g)
      BY DEF Table
    <2> HIDE DEF g
    <2>2. QED
      BY <1>1, <1>2, <1>3, <2>1, CallStep, Zenon
  <1>5. Abstract!Does("muladd", LAMBDA x, y, z, i : z + x * y)
    BY <1>2, <1>4, Tables DEF Moves, Abstract!Does, Abstract!DoesRow
  <1>6. QED
    BY <1>4, <1>5, Zenon DEF Abstract!Next, Abstract!Arithmetic

\* MulCoeffsAndAddNoMod keeps the invariant, and is the step of the ring of
\* that name.
LEMMA MulCoeffsAndAddNoModStep ==
    ASSUME IInv, NEW d \in Dest, MulCoeffsAndAddNoMod(d)
    PROVE  IInv' /\ Abstract!Next
  <1> DEFINE g ==
                 [i \in Rows |-> [j \in Coefs |->
                     (Residues[d][i][j] + Residues.a[i][j] * Residues.b[i][j]) % Modulus[i]]]
  <1>1. TypeOK /\ d \in Regs /\ d \in Dest /\ Last \in Level
    BY Tables DEF IInv, Dest, Regs
  <1>2. /\ Frame(Last, d) /\ call' = [op |-> "muladd", lvl |-> Last, dst |-> d, arg |-> 0]
        /\ \A i \in 1..Last, j \in Coefs :
              /\ reg'[d][i][j] = Wrap(reg[d][i][j] + BRed(reg.a[i][j], reg.b[i][j], q(i), bred(i)))
              /\ lim'[d][i] = lim[d][i] + q(i) - 1
              /\ lim[d][i] + q(i) - 2 < R
    BY <1>1 DEF MulCoeffsAndAddNoMod, ByCoef, ByRow, TypeOK, Frame, Level, Rows
  <1>3. ASSUME NEW i \in 1..Last, NEW j \in Coefs
        PROVE  Bounded(reg'[d][i][j], lim'[d][i], g[i][j], q(i))
    <2>1. i \in Rows /\ Cell(d, i, j)
      BY <1>1, Cells
    <2>2. /\ reg'[d][i][j] = Wrap(reg[d][i][j] + BRed(reg.a[i][j], reg.b[i][j], q(i), bred(i)))
          /\ lim'[d][i] = lim[d][i] + q(i) - 1
          /\ lim[d][i] + q(i) - 2 < R
          /\ g[i][j] = (Residues[d][i][j] + Residues.a[i][j] * Residues.b[i][j]) % q(i)
      BY <1>2, <2>1 DEF q
    <2> HIDE DEF g
    <2>3. QED
      BY <2>1, <2>2, MulAddWord DEF Cell, Fits
  <1>4. IInv' /\ Moves(Last, d, g)
    <2>1. Table(g)
      BY DEF Table
    <2> HIDE DEF g
    <2>2. QED
      BY <1>1, <1>2, <1>3, <2>1, CallStep, Zenon
  <1>5. Abstract!Does("muladd", LAMBDA x, y, z, i : z + x * y)
    BY <1>2, <1>4, Tables DEF Moves, Abstract!Does, Abstract!DoesRow
  <1>6. QED
    BY <1>4, <1>5, Zenon DEF Abstract!Next, Abstract!Arithmetic

\* MulCoeffsMontgomery keeps the invariant, and is the step of the ring of that
\* name.
LEMMA MulCoeffsMontgomeryStep ==
    ASSUME IInv, NEW l \in Level, NEW d \in Dest, MulCoeffsMontgomeryLvl(l, d)
    PROVE  IInv' /\ Abstract!Next
  <1> DEFINE g ==
                 [i \in Rows |-> [j \in Coefs |->
                     (((Residues.a[i][j] * Residues.b[i][j]) % Modulus[i]) * Abstract!RadixInv[i]) % Modulus[i]]]
  <1>1. TypeOK /\ d \in Regs /\ d \in Dest
    BY Tables DEF IInv, Dest, Regs
  <1>2. /\ Frame(l, d) /\ call' = [op |-> "montmul", lvl |-> l, dst |-> d, arg |-> 0]
        /\ \A i \in 1..l, j \in Coefs :
              /\ reg'[d][i][j] = MRed(reg.a[i][j], reg.b[i][j], q(i), mred(i))
              /\ lim'[d][i] = q(i)
              /\ Montgomery(lim.a[i], lim.b[i], q(i))
    BY <1>1 DEF MulCoeffsMontgomeryLvl, ByCoef, ByRow, TypeOK, Frame, Level, Rows, BelowQ
  <1>3. ASSUME NEW i \in 1..l, NEW j \in Coefs
        PROVE  Bounded(reg'[d][i][j], lim'[d][i], g[i][j], q(i))
    <2>1. i \in Rows /\ Cell(d, i, j)
      BY <1>1, Cells
    <2>2. /\ reg'[d][i][j] = MRed(reg.a[i][j], reg.b[i][j], q(i), mred(i))
          /\ lim'[d][i] = q(i)
          /\ Montgomery(lim.a[i], lim.b[i], q(i))
          /\ g[i][j] = (((Residues.a[i][j] * Residues.b[i][j]) % q(i)) * Abstract!RadixInv[i]) % q(i)
      BY <1>2, <2>1 DEF q
    <2> HIDE DEF g
    <2>3. QED
      BY <2>1, <2>2, MontWord DEF Cell, Fits
  <1>4. IInv' /\ Moves(l, d, g)
    <2>1. Table(g)
      BY DEF Table
    <2> HIDE DEF g
    <2>2. QED
      BY <1>1, <1>2, <1>3, <2>1, CallStep, Zenon
  <1>5. Abstract!Does("montmul", LAMBDA x, y, z, i : ((x * y) % Modulus[i]) * Abstract!RadixInv[i])
    BY <1>2, <1>4, Tables DEF Moves, Abstract!Does, Abstract!DoesRow
  <1>6. QED
    BY <1>4, <1>5, Zenon DEF Abstract!Next, Abstract!Arithmetic

\* MulCoeffsMontgomeryConstant keeps the invariant, and is the step of the ring
\* of that name.
LEMMA MulCoeffsMontgomeryConstantStep ==
    ASSUME IInv, NEW l \in Level, NEW d \in Dest, MulCoeffsMontgomeryConstantLvl(l, d)
    PROVE  IInv' /\ Abstract!Next
  <1> DEFINE g ==
                 [i \in Rows |-> [j \in Coefs |->
                     (((Residues.a[i][j] * Residues.b[i][j]) % Modulus[i]) * Abstract!RadixInv[i]) % Modulus[i]]]
  <1>1. TypeOK /\ d \in Regs /\ d \in Dest
    BY Tables DEF IInv, Dest, Regs
  <1>2. /\ Frame(l, d) /\ call' = [op |-> "montmul", lvl |-> l, dst |-> d, arg |-> 0]
        /\ \A i \in 1..l, j \in Coefs :
              /\ reg'[d][i][j] = MRedConstant(reg.a[i][j], reg.b[i][j], q(i), mred(i))
              /\ lim'[d][i] = 2 * q(i)
              /\ Montgomery(lim.a[i], lim.b[i], q(i))
    BY <1>1 DEF MulCoeffsMontgomeryConstantLvl, ByCoef, ByRow, TypeOK, Frame, Level, Rows, Below2Q
  <1>3. ASSUME NEW i \in 1..l, NEW j \in Coefs
        PROVE  Bounded(reg'[d][i][j], lim'[d][i], g[i][j], q(i))
    <2>1. i \in Rows /\ Cell(d, i, j)
      BY <1>1, Cells
    <2>2. /\ reg'[d][i][j] = MRedConstant(reg.a[i][j], reg.b[i][j], q(i), mred(i))
          /\ lim'[d][i] = 2 * q(i)
          /\ Montgomery(lim.a[i], lim.b[i], q(i))
          /\ g[i][j] = (((Residues.a[i][j] * Residues.b[i][j]) % q(i)) * Abstract!RadixInv[i]) % q(i)
      BY <1>2, <2>1 DEF q
    <2> HIDE DEF g
    <2>3. QED
      BY <2>1, <2>2, MontWord DEF Cell, Fits
  <1>4. IInv' /\ Moves(l, d, g)
    <2>1. Table(g)
      BY DEF Table
    <2> HIDE DEF g
    <2>2. QED
      BY <1>1, <1>2, <1>3, <2>1, CallStep, Zenon
  <1>5. Abstract!Does("montmul", LAMBDA x, y, z, i : ((x * y) % Modulus[i]) * Abstract!RadixInv[i])
    BY <1>2, <1>4, Tables DEF Moves, Abstract!Does, Abstract!DoesRow
  <1>6. QED
    BY <1>4, <1>5, Zenon DEF Abstract!Next, Abstract!Arithmetic

\* MulCoeffsMontgomeryAndAdd keeps the invariant, and is the step of the ring
\* of that name.
LEMMA MulCoeffsMontgomeryAndAddStep ==
    ASSUME IInv, NEW l \in Level, NEW d \in Dest, MulCoeffsMontgomeryAndAddLvl(l, d)
    PROVE  IInv' /\ Abstract!Next
  <1> DEFINE g ==
                 [i \in Rows |-> [j \in Coefs |->
                     (Residues[d][i][j] + ((Residues.a[i][j] * Residues.b[i][j]) % Modulus[i]) * Abstract!RadixInv[i]) % Modulus[i]]]
  <1>1. TypeOK /\ d \in Regs /\ d \in Dest
    BY Tables DEF IInv, Dest, Regs
  <1>2. /\ Frame(l, d) /\ call' = [op |-> "montmuladd", lvl |-> l, dst |-> d, arg |-> 0]
        /\ \A i \in 1..l, j \in Coefs :
              /\ reg'[d][i][j] = CRed(Wrap(reg[d][i][j] + MRed(reg.a[i][j], reg.b[i][j], q(i), mred(i))), q(i))
              /\ lim'[d][i] = q(i)
              /\ Montgomery(lim.a[i], lim.b[i], q(i))
              /\ lim[d][i] <= q(i) + 1
    BY <1>1 DEF MulCoeffsMontgomeryAndAddLvl, ByCoef, ByRow, TypeOK, Frame, Level, Rows, BelowQ
  <1>3. ASSUME NEW i \in 1..l, NEW j \in Coefs
        PROVE  Bounded(reg'[d][i][j], lim'[d][i], g[i][j], q(i))
    <2>1. i \in Rows /\ Cell(d, i, j)
      BY <1>1, Cells
    <2>2. /\ reg'[d][i][j] = CRed(Wrap(reg[d][i][j] + MRed(reg.a[i][j], reg.b[i][j], q(i), mred(i))), q(i))
          /\ lim'[d][i] = q(i)
          /\ Montgomery(lim.a[i], lim.b[i], q(i))
          /\ lim[d][i] <= q(i) + 1
          /\ g[i][j] = (Residues[d][i][j] + ((Residues.a[i][j] * Residues.b[i][j]) % q(i)) * Abstract!RadixInv[i]) % q(i)
      BY <1>2, <2>1 DEF q
    <2> HIDE DEF g
    <2>3. QED
      BY <2>1, <2>2, MontAccWord DEF Cell, Fits
  <1>4. IInv' /\ Moves(l, d, g)
    <2>1. Table(g)
      BY DEF Table
    <2> HIDE DEF g
    <2>2. QED
      BY <1>1, <1>2, <1>3, <2>1, CallStep, Zenon
  <1>5. Abstract!Does("montmuladd", LAMBDA x, y, z, i : z + ((x * y) % Modulus[i]) * Abstract!RadixInv[i])
    BY <1>2, <1>4, Tables DEF Moves, Abstract!Does, Abstract!DoesRow
  <1>6. QED
    BY <1>4, <1>5, Zenon DEF Abstract!Next, Abstract!Arithmetic

\* MulCoeffsMontgomeryAndAddNoMod keeps the invariant, and is the step of the
\* ring of that name.
LEMMA MulCoeffsMontgomeryAndAddNoModStep ==
    ASSUME IInv, NEW l \in Level, NEW d \in Dest, MulCoeffsMontgomeryAndAddNoModLvl(l, d)
    PROVE  IInv' /\ Abstract!Next
  <1> DEFINE g ==
                 [i \in Rows |-> [j \in Coefs |->
                     (Residues[d][i][j] + ((Residues.a[i][j] * Residues.b[i][j]) % Modulus[i]) * Abstract!RadixInv[i]) % Modulus[i]]]
  <1>1. TypeOK /\ d \in Regs /\ d \in Dest
    BY Tables DEF IInv, Dest, Regs
  <1>2. /\ Frame(l, d) /\ call' = [op |-> "montmuladd", lvl |-> l, dst |-> d, arg |-> 0]
        /\ \A i \in 1..l, j \in Coefs :
              /\ reg'[d][i][j] = Wrap(reg[d][i][j] + MRed(reg.a[i][j], reg.b[i][j], q(i), mred(i)))
              /\ lim'[d][i] = lim[d][i] + q(i) - 1
              /\ Montgomery(lim.a[i], lim.b[i], q(i))
              /\ lim[d][i] + q(i) - 2 < R
    BY <1>1 DEF MulCoeffsMontgomeryAndAddNoModLvl, ByCoef, ByRow, TypeOK, Frame, Level, Rows
  <1>3. ASSUME NEW i \in 1..l, NEW j \in Coefs
        PROVE  Bounded(reg'[d][i][j], lim'[d][i], g[i][j], q(i))
    <2>1. i \in Rows /\ Cell(d, i, j)
      BY <1>1, Cells
    <2>2. /\ reg'[d][i][j] = Wrap(reg[d][i][j] + MRed(reg.a[i][j], reg.b[i][j], q(i), mred(i)))
          /\ lim'[d][i] = lim[d][i] + q(i) - 1
          /\ Montgomery(lim.a[i], lim.b[i], q(i))
          /\ lim[d][i] + q(i) - 2 < R
          /\ g[i][j] = (Residues[d][i][j] + ((Residues.a[i][j] * Residues.b[i][j]) % q(i)) * Abstract!RadixInv[i]) % q(i)
      BY <1>2, <2>1 DEF q
    <2> HIDE DEF g
    <2>3. QED
      BY <2>1, <2>2, MontAccWord DEF Cell, Fits
  <1>4. IInv' /\ Moves(l, d, g)
    <2>1. Table(g)
      BY DEF Table
    <2> HIDE DEF g
    <2>2. QED
      BY <1>1, <1>2, <1>3, <2>1, CallStep, Zenon
  <1>5. Abstract!Does("montmuladd", LAMBDA x, y, z, i : z + ((x * y) % Modulus[i]) * Abstract!RadixInv[i])
    BY <1>2, <1>4, Tables DEF Moves, Abstract!Does, Abstract!DoesRow
  <1>6. QED
    BY <1>4, <1>5, Zenon DEF Abstract!Next, Abstract!Arithmetic

\* MulCoeffsMontgomeryConstantAndAddNoMod keeps the invariant, and is the step
\* of the ring of that name.
LEMMA MulCoeffsMontgomeryConstantAndAddNoModStep ==
    ASSUME IInv, NEW l \in Level, NEW d \in Dest, MulCoeffsMontgomeryConstantAndAddNoModLvl(l, d)
    PROVE  IInv' /\ Abstract!Next
  <1> DEFINE g ==
                 [i \in Rows |-> [j \in Coefs |->
                     (Residues[d][i][j] + ((Residues.a[i][j] * Residues.b[i][j]) % Modulus[i]) * Abstract!RadixInv[i]) % Modulus[i]]]
  <1>1. TypeOK /\ d \in Regs /\ d \in Dest
    BY Tables DEF IInv, Dest, Regs
  <1>2. /\ Frame(l, d) /\ call' = [op |-> "montmuladd", lvl |-> l, dst |-> d, arg |-> 0]
        /\ \A i \in 1..l, j \in Coefs :
              /\ reg'[d][i][j] = Wrap(reg[d][i][j] + MRedConstant(reg.a[i][j], reg.b[i][j], q(i), mred(i)))
              /\ lim'[d][i] = lim[d][i] + 2 * q(i) - 1
              /\ Montgomery(lim.a[i], lim.b[i], q(i))
              /\ lim[d][i] + 2 * q(i) - 2 < R
    BY <1>1 DEF MulCoeffsMontgomeryConstantAndAddNoModLvl, ByCoef, ByRow, TypeOK, Frame, Level, Rows
  <1>3. ASSUME NEW i \in 1..l, NEW j \in Coefs
        PROVE  Bounded(reg'[d][i][j], lim'[d][i], g[i][j], q(i))
    <2>1. i \in Rows /\ Cell(d, i, j)
      BY <1>1, Cells
    <2>2. /\ reg'[d][i][j] = Wrap(reg[d][i][j] + MRedConstant(reg.a[i][j], reg.b[i][j], q(i), mred(i)))
          /\ lim'[d][i] = lim[d][i] + 2 * q(i) - 1
          /\ Montgomery(lim.a[i], lim.b[i], q(i))
          /\ lim[d][i] + 2 * q(i) - 2 < R
          /\ g[i][j] = (Residues[d][i][j] + ((Residues.a[i][j] * Residues.b[i][j]) % q(i)) * Abstract!RadixInv[i]) % q(i)
      BY <1>2, <2>1 DEF q
    <2> HIDE DEF g
    <2>3. QED
      BY <2>1, <2>2, MontConstantAddWord DEF Cell, Fits
  <1>4. IInv' /\ Moves(l, d, g)
    <2>1. Table(g)
      BY DEF Table
    <2> HIDE DEF g
    <2>2. QED
      BY <1>1, <1>2, <1>3, <2>1, CallStep, Zenon
  <1>5. Abstract!Does("montmuladd", LAMBDA x, y, z, i : z + ((x * y) % Modulus[i]) * Abstract!RadixInv[i])
    BY <1>2, <1>4, Tables DEF Moves, Abstract!Does, Abstract!DoesRow
  <1>6. QED
    BY <1>4, <1>5, Zenon DEF Abstract!Next, Abstract!Arithmetic

\* MulCoeffsMontgomeryAndSub keeps the invariant, and is the step of the ring
\* of that name.
LEMMA MulCoeffsMontgomeryAndSubStep ==
    ASSUME IInv, NEW d \in Dest, MulCoeffsMontgomeryAndSub(d)
    PROVE  IInv' /\ Abstract!Next
  <1> DEFINE g ==
                 [i \in Rows |-> [j \in Coefs |->
                     (Residues[d][i][j] - ((Residues.a[i][j] * Residues.b[i][j]) % Modulus[i]) * Abstract!RadixInv[i]) % Modulus[i]]]
  <1>1. TypeOK /\ d \in Regs /\ d \in Dest /\ Last \in Level
    BY Tables DEF IInv, Dest, Regs
  <1>2. /\ Frame(Last, d) /\ call' = [op |-> "montmulsub", lvl |-> Last, dst |-> d, arg |-> 0]
        /\ \A i \in 1..Last, j \in Coefs :
              /\ reg'[d][i][j] = CRed(Wrap(reg[d][i][j] + (q(i) - MRed(reg.a[i][j], reg.b[i][j], q(i), mred(i)))), q(i))
              /\ lim'[d][i] = q(i)
              /\ Montgomery(lim.a[i], lim.b[i], q(i))
              /\ lim[d][i] <= q(i)
    BY <1>1 DEF MulCoeffsMontgomeryAndSub, ByCoef, ByRow, TypeOK, Frame, Level, Rows, BelowQ
  <1>3. ASSUME NEW i \in 1..Last, NEW j \in Coefs
        PROVE  Bounded(reg'[d][i][j], lim'[d][i], g[i][j], q(i))
    <2>1. i \in Rows /\ Cell(d, i, j)
      BY <1>1, Cells
    <2>2. /\ reg'[d][i][j] = CRed(Wrap(reg[d][i][j] + (q(i) - MRed(reg.a[i][j], reg.b[i][j], q(i), mred(i)))), q(i))
          /\ lim'[d][i] = q(i)
          /\ Montgomery(lim.a[i], lim.b[i], q(i))
          /\ lim[d][i] <= q(i)
          /\ g[i][j] = (Residues[d][i][j] - ((Residues.a[i][j] * Residues.b[i][j]) % q(i)) * Abstract!RadixInv[i]) % q(i)
      BY <1>2, <2>1 DEF q
    <2> HIDE DEF g
    <2>3. QED
      BY <2>1, <2>2, MontAccWord DEF Cell, Fits
  <1>4. IInv' /\ Moves(Last, d, g)
    <2>1. Table(g)
      BY DEF Table
    <2> HIDE DEF g
    <2>2. QED
      BY <1>1, <1>2, <1>3, <2>1, CallStep, Zenon
  <1>5. Abstract!Does("montmulsub", LAMBDA x, y, z, i : z - ((x * y) % Modulus[i]) * Abstract!RadixInv[i])
    BY <1>2, <1>4, Tables DEF Moves, Abstract!Does, Abstract!DoesRow
  <1>6. QED
    BY <1>4, <1>5, Zenon DEF Abstract!Next, Abstract!Arithmetic

\* MulCoeffsMontgomeryAndSubNoMod keeps the invariant, and is the step of the
\* ring of that name.
LEMMA MulCoeffsMontgomeryAndSubNoModStep ==
    ASSUME IInv, NEW d \in Dest, MulCoeffsMontgomeryAndSubNoMod(d)
    PROVE  IInv' /\ Abstract!Next
  <1> DEFINE g ==
                 [i \in Rows |-> [j \in Coefs |->
                     (Residues[d][i][j] - ((Residues.a[i][j] * Residues.b[i][j]) % Modulus[i]) * Abstract!RadixInv[i]) % Modulus[i]]]
  <1>1. TypeOK /\ d \in Regs /\ d \in Dest /\ Last \in Level
    BY Tables DEF IInv, Dest, Regs
  <1>2. /\ Frame(Last, d) /\ call' = [op |-> "montmulsub", lvl |-> Last, dst |-> d, arg |-> 0]
        /\ \A i \in 1..Last, j \in Coefs :
              /\ reg'[d][i][j] = Wrap(reg[d][i][j] + q(i) - MRed(reg.a[i][j], reg.b[i][j], q(i), mred(i)))
              /\ lim'[d][i] = lim[d][i] + q(i)
              /\ Montgomery(lim.a[i], lim.b[i], q(i))
              /\ lim[d][i] + q(i) - 1 < R
    BY <1>1 DEF MulCoeffsMontgomeryAndSubNoMod, ByCoef, ByRow, TypeOK, Frame, Level, Rows
  <1>3. ASSUME NEW i \in 1..Last, NEW j \in Coefs
        PROVE  Bounded(reg'[d][i][j], lim'[d][i], g[i][j], q(i))
    <2>1. i \in Rows /\ Cell(d, i, j)
      BY <1>1, Cells
    <2>2. /\ reg'[d][i][j] = Wrap(reg[d][i][j] + q(i) - MRed(reg.a[i][j], reg.b[i][j], q(i), mred(i)))
          /\ lim'[d][i] = lim[d][i] + q(i)
          /\ Montgomery(lim.a[i], lim.b[i], q(i))
          /\ lim[d][i] + q(i) - 1 < R
          /\ g[i][j] = (Residues[d][i][j] - ((Residues.a[i][j] * Residues.b[i][j]) % q(i)) * Abstract!RadixInv[i]) % q(i)
      BY <1>2, <2>1 DEF q
    <2> HIDE DEF g
    <2>3. QED
      BY <2>1, <2>2, MontAccWord DEF Cell, Fits
  <1>4. IInv' /\ Moves(Last, d, g)
    <2>1. Table(g)
      BY DEF Table
    <2> HIDE DEF g
    <2>2. QED
      BY <1>1, <1>2, <1>3, <2>1, CallStep, Zenon
  <1>5. Abstract!Does("montmulsub", LAMBDA x, y, z, i : z - ((x * y) % Modulus[i]) * Abstract!RadixInv[i])
    BY <1>2, <1>4, Tables DEF Moves, Abstract!Does, Abstract!DoesRow
  <1>6. QED
    BY <1>4, <1>5, Zenon DEF Abstract!Next, Abstract!Arithmetic

\* AddScalarBigint keeps the invariant, and is the step of the ring of that
\* name.
LEMMA AddScalarBigintStep ==
    ASSUME IInv, NEW k \in 1..(R \div 2), AddScalarBigint(k)
    PROVE  IInv' /\ Abstract!Next
  <1> DEFINE g == [i \in Rows |-> [j \in Coefs |-> (Residues.a[i][j] + k) % Modulus[i]]]
  <1>1. TypeOK /\ "a" \in Regs /\ "a" \in Dest /\ Last \in Level
    BY Tables DEF IInv, Dest, Regs
  <1>2. /\ Frame(Last, "a") /\ call' = [op |-> "addscalar", lvl |-> Last, dst |-> "a", arg |-> k]
        /\ \A i \in 1..Last, j \in Coefs :
              /\ reg'["a"][i][j] = CRed(Wrap(reg.a[i][j] + (k % q(i))), q(i))
              /\ lim'["a"][i] = q(i)
              /\ lim.a[i] <= q(i) + 1
    BY <1>1 DEF AddScalarBigint, ByCoef, ByRow, TypeOK, Frame, Level, Rows, BelowQ
  <1>3. ASSUME NEW i \in 1..Last, NEW j \in Coefs
        PROVE  Bounded(reg'["a"][i][j], lim'["a"][i], g[i][j], q(i))
    <2>1. i \in Rows /\ Cell("a", i, j)
      BY <1>1, Cells
    <2>2. /\ reg'["a"][i][j] = CRed(Wrap(reg.a[i][j] + (k % q(i))), q(i))
          /\ lim'["a"][i] = q(i)
          /\ lim.a[i] <= q(i) + 1
          /\ g[i][j] = (Residues.a[i][j] + k) % q(i)
      BY <1>2, <2>1 DEF q
    <2> HIDE DEF g
    <2>3. QED
      BY <2>1, <2>2, AddBigWord DEF Cell, Fits
  <1>4. IInv' /\ Moves(Last, "a", g)
    <2>1. Table(g)
      BY DEF Table
    <2> HIDE DEF g
    <2>2. QED
      BY <1>1, <1>2, <1>3, <2>1, CallStep, Zenon
  <1>5. Abstract!Does("addscalar", LAMBDA x, y, z, i : x + call'.arg)
    BY <1>2, <1>4, Tables DEF Moves, Abstract!Does, Abstract!DoesRow
  <1>6. QED
    BY <1>4, <1>5, Zenon DEF Abstract!Next, Abstract!Arithmetic

\* AddScalar keeps the invariant, and is the step of the ring of that name.
LEMMA AddScalarStep ==
    ASSUME IInv, NEW k \in 1..(R \div 2), AddScalar(k)
    PROVE  IInv' /\ Abstract!Next
  <1> DEFINE g == [i \in Rows |-> [j \in Coefs |-> (Residues.a[i][j] + k) % Modulus[i]]]
  <1>1. TypeOK /\ "a" \in Regs /\ "a" \in Dest /\ Last \in Level
    BY Tables DEF IInv, Dest, Regs
  <1>2. /\ Frame(Last, "a") /\ call' = [op |-> "addscalar", lvl |-> Last, dst |-> "a", arg |-> k]
        /\ \A i \in 1..Last, j \in Coefs :
              /\ reg'["a"][i][j] = CRed(Wrap(reg.a[i][j] + k), q(i))
              /\ lim'["a"][i] = q(i)
              /\ lim.a[i] + k - 1 < 2 * q(i)
    BY <1>1 DEF AddScalar, ByCoef, ByRow, TypeOK, Frame, Level, Rows, BelowQ
  <1>3. ASSUME NEW i \in 1..Last, NEW j \in Coefs
        PROVE  Bounded(reg'["a"][i][j], lim'["a"][i], g[i][j], q(i))
    <2>1. i \in Rows /\ Cell("a", i, j)
      BY <1>1, Cells
    <2>2. /\ reg'["a"][i][j] = CRed(Wrap(reg.a[i][j] + k), q(i))
          /\ lim'["a"][i] = q(i)
          /\ lim.a[i] + k - 1 < 2 * q(i)
          /\ g[i][j] = (Residues.a[i][j] + k) % q(i)
      BY <1>2, <2>1 DEF q
    <2> HIDE DEF g
    <2>3. QED
      BY <2>1, <2>2, AddScalarWord DEF Cell, Fits
  <1>4. IInv' /\ Moves(Last, "a", g)
    <2>1. Table(g)
      BY DEF Table
    <2> HIDE DEF g
    <2>2. QED
      BY <1>1, <1>2, <1>3, <2>1, CallStep, Zenon
  <1>5. Abstract!Does("addscalar", LAMBDA x, y, z, i : x + call'.arg)
    BY <1>2, <1>4, Tables DEF Moves, Abstract!Does, Abstract!DoesRow
  <1>6. QED
    BY <1>4, <1>5, Zenon DEF Abstract!Next, Abstract!Arithmetic

\* SubScalarBigint keeps the invariant, and is the step of the ring of that
\* name.
LEMMA SubScalarBigintStep ==
    ASSUME IInv, NEW k \in 1..(R \div 2), SubScalarBigint(k)
    PROVE  IInv' /\ Abstract!Next
  <1> DEFINE g == [i \in Rows |-> [j \in Coefs |-> (Residues.a[i][j] + (-k)) % Modulus[i]]]
  <1>1. TypeOK /\ "a" \in Regs /\ "a" \in Dest /\ Last \in Level
    BY Tables DEF IInv, Dest, Regs
  <1>2. /\ Frame(Last, "a") /\ call' = [op |-> "addscalar", lvl |-> Last, dst |-> "a", arg |-> -k]
        /\ \A i \in 1..Last, j \in Coefs :
              /\ reg'["a"][i][j] = CRed(Wrap(reg.a[i][j] + q(i) - (k % q(i))), q(i))
              /\ lim'["a"][i] = q(i)
              /\ lim.a[i] <= q(i)
    BY <1>1 DEF SubScalarBigint, ByCoef, ByRow, TypeOK, Frame, Level, Rows, BelowQ
  <1>3. ASSUME NEW i \in 1..Last, NEW j \in Coefs
        PROVE  Bounded(reg'["a"][i][j], lim'["a"][i], g[i][j], q(i))
    <2>1. i \in Rows /\ Cell("a", i, j)
      BY <1>1, Cells
    <2>2. /\ reg'["a"][i][j] = CRed(Wrap(reg.a[i][j] + q(i) - (k % q(i))), q(i))
          /\ lim'["a"][i] = q(i)
          /\ lim.a[i] <= q(i)
          /\ g[i][j] = (Residues.a[i][j] + (-k)) % q(i)
      BY <1>2, <2>1 DEF q
    <2> HIDE DEF g
    <2>3. QED
      BY <2>1, <2>2, SubBigWord DEF Cell, Fits
  <1>4. IInv' /\ Moves(Last, "a", g)
    <2>1. Table(g)
      BY DEF Table
    <2> HIDE DEF g
    <2>2. QED
      BY <1>1, <1>2, <1>3, <2>1, CallStep, Zenon
  <1>5. Abstract!Does("addscalar", LAMBDA x, y, z, i : x + call'.arg)
    BY <1>2, <1>4, Tables DEF Moves, Abstract!Does, Abstract!DoesRow
  <1>6. QED
    BY <1>4, <1>5, Zenon DEF Abstract!Next, Abstract!Arithmetic

\* SubScalar keeps the invariant, and is the step of the ring of that name.
LEMMA SubScalarStep ==
    ASSUME IInv, NEW k \in 1..(R \div 2), SubScalar(k)
    PROVE  IInv' /\ Abstract!Next
  <1> DEFINE g == [i \in Rows |-> [j \in Coefs |-> (Residues.a[i][j] + (-k)) % Modulus[i]]]
  <1>1. TypeOK /\ "a" \in Regs /\ "a" \in Dest /\ Last \in Level
    BY Tables DEF IInv, Dest, Regs
  <1>2. /\ Frame(Last, "a") /\ call' = [op |-> "addscalar", lvl |-> Last, dst |-> "a", arg |-> -k]
        /\ \A i \in 1..Last, j \in Coefs :
              /\ reg'["a"][i][j] = CRed(Wrap(reg.a[i][j] + q(i) - k), q(i))
              /\ lim'["a"][i] = q(i)
              /\ lim.a[i] <= q(i)
              /\ k <= q(i)
    BY <1>1 DEF SubScalar, ByCoef, ByRow, TypeOK, Frame, Level, Rows, BelowQ
  <1>3. ASSUME NEW i \in 1..Last, NEW j \in Coefs
        PROVE  Bounded(reg'["a"][i][j], lim'["a"][i], g[i][j], q(i))
    <2>1. i \in Rows /\ Cell("a", i, j)
      BY <1>1, Cells
    <2>2. /\ reg'["a"][i][j] = CRed(Wrap(reg.a[i][j] + q(i) - k), q(i))
          /\ lim'["a"][i] = q(i)
          /\ lim.a[i] <= q(i)
          /\ k <= q(i)
          /\ g[i][j] = (Residues.a[i][j] + (-k)) % q(i)
      BY <1>2, <2>1 DEF q
    <2> HIDE DEF g
    <2>3. QED
      BY <2>1, <2>2, SubScalarWord DEF Cell, Fits
  <1>4. IInv' /\ Moves(Last, "a", g)
    <2>1. Table(g)
      BY DEF Table
    <2> HIDE DEF g
    <2>2. QED
      BY <1>1, <1>2, <1>3, <2>1, CallStep, Zenon
  <1>5. Abstract!Does("addscalar", LAMBDA x, y, z, i : x + call'.arg)
    BY <1>2, <1>4, Tables DEF Moves, Abstract!Does, Abstract!DoesRow
  <1>6. QED
    BY <1>4, <1>5, Zenon DEF Abstract!Next, Abstract!Arithmetic

\* MForm keeps the invariant, and is the step of the ring of that name.
LEMMA MFormStep ==
    ASSUME IInv, NEW l \in Level, NEW d \in Dest, MFormLvl(l, d)
    PROVE  IInv' /\ Abstract!Next
  <1> DEFINE g == [i \in Rows |-> [j \in Coefs |-> (Residues.a[i][j] * R) % Modulus[i]]]
  <1>1. TypeOK /\ d \in Regs /\ d \in Dest
    BY Tables DEF IInv, Dest, Regs
  <1>2. /\ Frame(l, d) /\ call' = [op |-> "tomont", lvl |-> l, dst |-> d, arg |-> 0]
        /\ \A i \in 1..l, j \in Coefs :
              /\ reg'[d][i][j] = ToMont(reg.a[i][j], i)
              /\ lim'[d][i] = q(i)
    BY <1>1 DEF MFormLvl, ByCoef, ByRow, TypeOK, Frame, Level, Rows, Always, BelowQ
  <1>3. ASSUME NEW i \in 1..l, NEW j \in Coefs
        PROVE  Bounded(reg'[d][i][j], lim'[d][i], g[i][j], q(i))
    <2>1. i \in Rows /\ Cell(d, i, j)
      BY <1>1, Cells
    <2>2. /\ reg'[d][i][j] = ToMont(reg.a[i][j], i)
          /\ lim'[d][i] = q(i)
          /\ g[i][j] = (Residues.a[i][j] * R) % q(i)
      BY <1>2, <2>1 DEF q
    <2> HIDE DEF g
    <2>3. QED
      BY <2>1, <2>2, ToMontWord, ToMontIs DEF Cell, Fits
  <1>4. IInv' /\ Moves(l, d, g)
    <2>1. Table(g)
      BY DEF Table
    <2> HIDE DEF g
    <2>2. QED
      BY <1>1, <1>2, <1>3, <2>1, CallStep, Zenon
  <1>5. Abstract!Does("tomont", LAMBDA x, y, z, i : x * R)
    BY <1>2, <1>4, Tables DEF Moves, Abstract!Does, Abstract!DoesRow
  <1>6. QED
    BY <1>4, <1>5, Zenon DEF Abstract!Next, Abstract!Arithmetic

\* InvMForm keeps the invariant, and is the step of the ring of that name.
LEMMA InvMFormStep ==
    ASSUME IInv, NEW l \in Level, NEW d \in Dest, InvMFormLvl(l, d)
    PROVE  IInv' /\ Abstract!Next
  <1> DEFINE g == [i \in Rows |-> [j \in Coefs |-> (Residues.a[i][j] * Abstract!RadixInv[i]) % Modulus[i]]]
  <1>1. TypeOK /\ d \in Regs /\ d \in Dest
    BY Tables DEF IInv, Dest, Regs
  <1>2. /\ Frame(l, d) /\ call' = [op |-> "frommont", lvl |-> l, dst |-> d, arg |-> 0]
        /\ \A i \in 1..l, j \in Coefs :
              /\ reg'[d][i][j] = InvMForm(reg.a[i][j], q(i), mred(i))
              /\ lim'[d][i] = q(i)
    BY <1>1 DEF InvMFormLvl, ByCoef, ByRow, TypeOK, Frame, Level, Rows, Always, BelowQ
  <1>3. ASSUME NEW i \in 1..l, NEW j \in Coefs
        PROVE  Bounded(reg'[d][i][j], lim'[d][i], g[i][j], q(i))
    <2>1. i \in Rows /\ Cell(d, i, j)
      BY <1>1, Cells
    <2>2. /\ reg'[d][i][j] = InvMForm(reg.a[i][j], q(i), mred(i))
          /\ lim'[d][i] = q(i)
          /\ g[i][j] = (Residues.a[i][j] * Abstract!RadixInv[i]) % q(i)
      BY <1>2, <2>1 DEF q
    <2> HIDE DEF g
    <2>3. QED
      BY <2>1, <2>2, FromMontWord DEF Cell, Fits
  <1>4. IInv' /\ Moves(l, d, g)
    <2>1. Table(g)
      BY DEF Table
    <2> HIDE DEF g
    <2>2. QED
      BY <1>1, <1>2, <1>3, <2>1, CallStep, Zenon
  <1>5. Abstract!Does("frommont", LAMBDA x, y, z, i : x * Abstract!RadixInv[i])
    BY <1>2, <1>4, Tables DEF Moves, Abstract!Does, Abstract!DoesRow
  <1>6. QED
    BY <1>4, <1>5, Zenon DEF Abstract!Next, Abstract!Arithmetic

\* MulCoeffsMontgomeryMy keeps the invariant, and is the step of the ring of
\* that name.
LEMMA MulCoeffsMontgomeryMyStep ==
    ASSUME IInv, NEW d \in Dest, MulCoeffsMontgomeryMy(d)
    PROVE  IInv' /\ Abstract!Next
  <1> DEFINE g == [i \in Rows |-> [j \in Coefs |-> (Residues.a[i][j] * (2 % Modulus[i])) % Modulus[i]]]
  <1>1. TypeOK /\ d \in Regs /\ d \in Dest /\ Last \in Level
    BY Tables DEF IInv, Dest, Regs
  <1>2. /\ Frame(Last, d) /\ call' = [op |-> "mulscalar", lvl |-> Last, dst |-> d, arg |-> 2]
        /\ \A i \in 1..Last, j \in Coefs :
              /\ reg'[d][i][j] = MRed(reg.a[i][j], ToMont(2, i), q(i), mred(i))
              /\ lim'[d][i] = q(i)
    BY <1>1 DEF MulCoeffsMontgomeryMy, ByCoef, ByRow, TypeOK, Frame, Level, Rows, Always, BelowQ
  <1>3. ASSUME NEW i \in 1..Last, NEW j \in Coefs
        PROVE  Bounded(reg'[d][i][j], lim'[d][i], g[i][j], q(i))
    <2>1. i \in Rows /\ Cell(d, i, j)
      BY <1>1, Cells
    <2>2. /\ reg'[d][i][j] = MRed(reg.a[i][j], ToMont(2, i), q(i), mred(i))
          /\ lim'[d][i] = q(i)
          /\ g[i][j] = (Residues.a[i][j] * (2 % q(i))) % q(i)
      BY <1>2, <2>1 DEF q
    <2> HIDE DEF g
    <2>3. QED
      BY <2>1, <2>2, TwoIs DEF Cell, Fits
  <1>4. IInv' /\ Moves(Last, d, g)
    <2>1. Table(g)
      BY DEF Table
    <2> HIDE DEF g
    <2>2. QED
      BY <1>1, <1>2, <1>3, <2>1, CallStep, Zenon
  <1>5. Abstract!Does("mulscalar", LAMBDA x, y, z, i : x * (call'.arg % Modulus[i]))
    BY <1>2, <1>4, Tables DEF Moves, Abstract!Does, Abstract!DoesRow
  <1>6. QED
    BY <1>4, <1>5, Zenon DEF Abstract!Next, Abstract!Arithmetic

\* MulScalar keeps the invariant, and is the step of the ring of that name.
LEMMA MulScalarStep ==
    ASSUME IInv, NEW l \in Level, NEW k \in 1..(R \div 2), NEW d \in Dest, MulScalarLvl(l, k, d)
    PROVE  IInv' /\ Abstract!Next
  <1> DEFINE g == [i \in Rows |-> [j \in Coefs |-> (Residues.a[i][j] * (k % Modulus[i])) % Modulus[i]]]
  <1>1. TypeOK /\ d \in Regs /\ d \in Dest
    BY Tables DEF IInv, Dest, Regs
  <1>2. /\ Frame(l, d) /\ call' = [op |-> "mulscalar", lvl |-> l, dst |-> d, arg |-> k]
        /\ \A i \in 1..l, j \in Coefs :
              /\ reg'[d][i][j] = TimesScalar(reg.a[i][j], k, i)
              /\ lim'[d][i] = q(i)
    BY <1>1 DEF MulScalarLvl, ByCoef, ByRow, TypeOK, Frame, Level, Rows, Always, BelowQ
  <1>3. ASSUME NEW i \in 1..l, NEW j \in Coefs
        PROVE  Bounded(reg'[d][i][j], lim'[d][i], g[i][j], q(i))
    <2>1. i \in Rows /\ Cell(d, i, j)
      BY <1>1, Cells
    <2>2. /\ reg'[d][i][j] = TimesScalar(reg.a[i][j], k, i)
          /\ lim'[d][i] = q(i)
          /\ g[i][j] = (Residues.a[i][j] * (k % q(i))) % q(i)
      BY <1>2, <2>1 DEF q
    <2> HIDE DEF g
    <2>3. QED
      BY <2>1, <2>2, TimesScalarIs, ScalarRange DEF Cell, Fits
  <1>4. IInv' /\ Moves(l, d, g)
    <2>1. Table(g)
      BY DEF Table
    <2> HIDE DEF g
    <2>2. QED
      BY <1>1, <1>2, <1>3, <2>1, CallStep, Zenon
  <1>5. Abstract!Does("mulscalar", LAMBDA x, y, z, i : x * (call'.arg % Modulus[i]))
    BY <1>2, <1>4, Tables DEF Moves, Abstract!Does, Abstract!DoesRow
  <1>6. QED
    BY <1>4, <1>5, Zenon DEF Abstract!Next, Abstract!Arithmetic

\* MulScalarBigint keeps the invariant, and is the step of the ring of that
\* name.
LEMMA MulScalarBigintStep ==
    ASSUME IInv, NEW l \in Level, NEW k \in 1..(R \div 2), NEW d \in Dest, MulScalarBigintLvl(l, k, d)
    PROVE  IInv' /\ Abstract!Next
  <1> DEFINE g == [i \in Rows |-> [j \in Coefs |-> (Residues.a[i][j] * (k % Modulus[i])) % Modulus[i]]]
  <1>1. TypeOK /\ d \in Regs /\ d \in Dest
    BY Tables DEF IInv, Dest, Regs
  <1>2. /\ Frame(l, d) /\ call' = [op |-> "mulscalar", lvl |-> l, dst |-> d, arg |-> k]
        /\ \A i \in 1..l, j \in Coefs :
              /\ reg'[d][i][j] = TimesScalar(reg.a[i][j], k % q(i), i)
              /\ lim'[d][i] = q(i)
    BY <1>1 DEF MulScalarBigintLvl, ByCoef, ByRow, TypeOK, Frame, Level, Rows, Always, BelowQ
  <1>3. ASSUME NEW i \in 1..l, NEW j \in Coefs
        PROVE  Bounded(reg'[d][i][j], lim'[d][i], g[i][j], q(i))
    <2>1. i \in Rows /\ Cell(d, i, j)
      BY <1>1, Cells
    <2>2. /\ reg'[d][i][j] = TimesScalar(reg.a[i][j], k % q(i), i)
          /\ lim'[d][i] = q(i)
          /\ g[i][j] = (Residues.a[i][j] * (k % q(i))) % q(i)
      BY <1>2, <2>1 DEF q
    <2> HIDE DEF g
    <2>3. QED
      BY <2>1, <2>2, TimesScalarIs, ScalarRange DEF Cell, Fits
  <1>4. IInv' /\ Moves(l, d, g)
    <2>1. Table(g)
      BY DEF Table
    <2> HIDE DEF g
    <2>2. QED
      BY <1>1, <1>2, <1>3, <2>1, CallStep, Zenon
  <1>5. Abstract!Does("mulscalar", LAMBDA x, y, z, i : x * (call'.arg % Modulus[i]))
    BY <1>2, <1>4, Tables DEF Moves, Abstract!Does, Abstract!DoesRow
  <1>6. QED
    BY <1>4, <1>5, Zenon DEF Abstract!Next, Abstract!Arithmetic

\* MulByPow2 keeps the invariant, and is the step of the ring of that name.
LEMMA MulByPow2Step ==
    ASSUME IInv, NEW l \in Level, NEW n \in 0..(W - 1), MulByPow2Lvl(l, n)
    PROVE  IInv' /\ Abstract!Next
  <1> DEFINE g == [i \in Rows |-> [j \in Coefs |-> (Residues.a[i][j] * (2^n % Modulus[i])) % Modulus[i]]]
  <1>1. TypeOK /\ "a" \in Regs /\ "a" \in Dest
    BY Tables DEF IInv, Dest, Regs
  <1>2. /\ Frame(l, "a") /\ call' = [op |-> "pow2", lvl |-> l, dst |-> "a", arg |-> n]
        /\ \A i \in 1..l, j \in Coefs :
              /\ reg'["a"][i][j] = TimesPow2(reg.a[i][j], n, i)
              /\ lim'["a"][i] = q(i)
    BY <1>1 DEF MulByPow2Lvl, ByCoef, ByRow, TypeOK, Frame, Level, Rows, Always, BelowQ
  <1>3. ASSUME NEW i \in 1..l, NEW j \in Coefs
        PROVE  Bounded(reg'["a"][i][j], lim'["a"][i], g[i][j], q(i))
    <2>1. i \in Rows /\ Cell("a", i, j)
      BY <1>1, Cells
    <2>2. /\ reg'["a"][i][j] = TimesPow2(reg.a[i][j], n, i)
          /\ lim'["a"][i] = q(i)
          /\ g[i][j] = (Residues.a[i][j] * (2^n % q(i))) % q(i)
      BY <1>2, <2>1 DEF q
    <2> HIDE DEF g
    <2>3. QED
      BY <2>1, <2>2, TimesPow2Is DEF Cell, Fits
  <1>4. IInv' /\ Moves(l, "a", g)
    <2>1. Table(g)
      BY DEF Table
    <2> HIDE DEF g
    <2>2. QED
      BY <1>1, <1>2, <1>3, <2>1, CallStep, Zenon
  <1>5. Abstract!Does("pow2", LAMBDA x, y, z, i : x * (2^call'.arg % Modulus[i]))
    BY <1>2, <1>4, Tables DEF Moves, Abstract!Does, Abstract!DoesRow
  <1>6. QED
    BY <1>4, <1>5, Zenon DEF Abstract!Next, Abstract!Arithmetic

\* MulByVectorMontgomery keeps the invariant, and is the step of the ring of
\* that name.
LEMMA MulByVectorMontgomeryStep ==
    ASSUME IInv, NEW v \in [Coefs -> 0..(R - 1)], NEW d \in Dest, MulByVectorMontgomery(v, d)
    PROVE  IInv' /\ Abstract!Next
  <1> DEFINE g == [i \in Rows |-> [j \in Coefs |-> (Residues.a[i][j] * v[j] * Abstract!RadixInv[i]) % Modulus[i]]]
  <1>1. TypeOK /\ d \in Regs /\ d \in Dest /\ Last \in Level
    BY Tables DEF IInv, Dest, Regs
  <1>2. /\ Frame(Last, d) /\ call' = [op |-> "vecmul", lvl |-> Last, dst |-> d, arg |-> v]
        /\ \A i \in 1..Last, j \in Coefs :
              /\ reg'[d][i][j] = MRed(reg.a[i][j], v[j], q(i), mred(i))
              /\ lim'[d][i] = q(i)
              /\ Montgomery(lim.a[i], v[j] + 1, q(i))
    BY <1>1 DEF MulByVectorMontgomery, ByCoef, ByRow, TypeOK, Frame, Level, Rows, BelowQ
  <1>3. ASSUME NEW i \in 1..Last, NEW j \in Coefs
        PROVE  Bounded(reg'[d][i][j], lim'[d][i], g[i][j], q(i))
    <2>1. i \in Rows /\ Cell(d, i, j)
      BY <1>1, Cells
    <2>2. /\ reg'[d][i][j] = MRed(reg.a[i][j], v[j], q(i), mred(i))
          /\ lim'[d][i] = q(i)
          /\ Montgomery(lim.a[i], v[j] + 1, q(i))
          /\ g[i][j] = (Residues.a[i][j] * v[j] * Abstract!RadixInv[i]) % q(i)
      BY <1>2, <2>1 DEF q
    <2> HIDE DEF g
    <2>3. QED
      BY <2>1, <2>2, VectorIs DEF Cell, Fits
  <1>4. IInv' /\ Moves(Last, d, g)
    <2>1. Table(g)
      BY DEF Table
    <2> HIDE DEF g
    <2>2. QED
      BY <1>1, <1>2, <1>3, <2>1, CallStep, Zenon
  <1>5. Abstract!DoesRow("vecmul", LAMBDA x, y, z, i :
        [j \in Abstract!Coefs |-> (x[j] * call'.arg[j] * Abstract!RadixInv[i]) % Modulus[i]])
    BY <1>2, <1>4, Tables DEF Moves, Abstract!Does, Abstract!DoesRow
  <1>6. QED
    BY <1>4, <1>5, Zenon DEF Abstract!Next, Abstract!Arithmetic

\* MulByVectorMontgomeryAndAddNoMod keeps the invariant, and is the step of the
\* ring of that name.
LEMMA MulByVectorMontgomeryAndAddNoModStep ==
    ASSUME IInv, NEW v \in [Coefs -> 0..(R - 1)], NEW d \in Dest, MulByVectorMontgomeryAndAddNoMod(v, d)
    PROVE  IInv' /\ Abstract!Next
  <1> DEFINE g ==
                 [i \in Rows |-> [j \in Coefs |->
                     (Residues[d][i][j] + Residues.a[i][j] * v[j] * Abstract!RadixInv[i]) % Modulus[i]]]
  <1>1. TypeOK /\ d \in Regs /\ d \in Dest /\ Last \in Level
    BY Tables DEF IInv, Dest, Regs
  <1>2. /\ Frame(Last, d) /\ call' = [op |-> "vecmuladd", lvl |-> Last, dst |-> d, arg |-> v]
        /\ \A i \in 1..Last, j \in Coefs :
              /\ reg'[d][i][j] = Wrap(reg[d][i][j] + MRed(reg.a[i][j], v[j], q(i), mred(i)))
              /\ lim'[d][i] = lim[d][i] + q(i) - 1
              /\ lim[d][i] + q(i) - 2 < R
              /\ Montgomery(lim.a[i], v[j] + 1, q(i))
    BY <1>1 DEF MulByVectorMontgomeryAndAddNoMod, ByCoef, ByRow, TypeOK, Frame, Level, Rows
  <1>3. ASSUME NEW i \in 1..Last, NEW j \in Coefs
        PROVE  Bounded(reg'[d][i][j], lim'[d][i], g[i][j], q(i))
    <2>1. i \in Rows /\ Cell(d, i, j)
      BY <1>1, Cells
    <2>2. /\ reg'[d][i][j] = Wrap(reg[d][i][j] + MRed(reg.a[i][j], v[j], q(i), mred(i)))
          /\ lim'[d][i] = lim[d][i] + q(i) - 1
          /\ lim[d][i] + q(i) - 2 < R
          /\ Montgomery(lim.a[i], v[j] + 1, q(i))
          /\ g[i][j] = (Residues[d][i][j] + Residues.a[i][j] * v[j] * Abstract!RadixInv[i]) % q(i)
      BY <1>2, <2>1 DEF q
    <2> HIDE DEF g
    <2>3. QED
      BY <2>1, <2>2, VectorAccWord DEF Cell, Fits
  <1>4. IInv' /\ Moves(Last, d, g)
    <2>1. Table(g)
      BY DEF Table
    <2> HIDE DEF g
    <2>2. QED
      BY <1>1, <1>2, <1>3, <2>1, CallStep, Zenon
  <1>5. Abstract!DoesRow("vecmuladd", LAMBDA x, y, z, i :
        [j \in Abstract!Coefs |-> (z[j] + x[j] * call'.arg[j] * Abstract!RadixInv[i]) % Modulus[i]])
    BY <1>2, <1>4, Tables DEF Moves, Abstract!Does, Abstract!DoesRow
  <1>6. QED
    BY <1>4, <1>5, Zenon DEF Abstract!Next, Abstract!Arithmetic

\* SetCoefficients keeps the invariant, and is the step of the ring of that
\* name.
LEMMA SetCoefficientsStep ==
    ASSUME IInv, NEW coeffs \in [Coefs -> (1 - R)..(R - 1)], NEW d \in Dest, SetCoefficients(coeffs, d)
    PROVE  IInv' /\ Abstract!Next
  <1> DEFINE g == [i \in Rows |-> [j \in Coefs |-> (coeffs[j]) % Modulus[i]]]
  <1>1. TypeOK /\ d \in Regs /\ d \in Dest /\ Last \in Level
    BY Tables DEF IInv, Dest, Regs
  <1>2. /\ Frame(Last, d) /\ call' = [op |-> "set", lvl |-> Last, dst |-> d, arg |-> coeffs]
        /\ \A i \in 1..Last, j \in Coefs :
              /\ reg'[d][i][j] = CRed(Wrap(GoRem(coeffs[j], q(i)) + q(i)), q(i))
              /\ lim'[d][i] = q(i)
    BY <1>1 DEF SetCoefficients, ByCoef, ByRow, TypeOK, Frame, Level, Rows, Always, BelowQ
  <1>3. ASSUME NEW i \in 1..Last, NEW j \in Coefs
        PROVE  Bounded(reg'[d][i][j], lim'[d][i], g[i][j], q(i))
    <2>1. i \in Rows /\ Cell(d, i, j)
      BY <1>1, Cells
    <2>2. /\ reg'[d][i][j] = CRed(Wrap(GoRem(coeffs[j], q(i)) + q(i)), q(i))
          /\ lim'[d][i] = q(i)
          /\ g[i][j] = (coeffs[j]) % q(i)
      BY <1>2, <2>1 DEF q
    <2> HIDE DEF g
    <2>3. QED
      BY <2>1, <2>2, SignedIs DEF Cell, Fits
  <1>4. IInv' /\ Moves(Last, d, g)
    <2>1. Table(g)
      BY DEF Table
    <2> HIDE DEF g
    <2>2. QED
      BY <1>1, <1>2, <1>3, <2>1, CallStep, Zenon
  <1>5. Abstract!DoesRow("set", LAMBDA x, y, z, i : [j \in Abstract!Coefs |-> call'.arg[j] % Modulus[i]])
    BY <1>2, <1>4, Tables DEF Moves, Abstract!Does, Abstract!DoesRow
  <1>6. QED
    BY <1>4, <1>5, Zenon DEF Abstract!Next, Abstract!Structure

\* MFormArrayInt keeps the invariant, and is the step of the ring of that name.
LEMMA MFormArrayIntStep ==
    ASSUME IInv, NEW coeffs \in [Coefs -> (1 - R)..(R - 1)], NEW d \in Dest, MFormArrayInt(coeffs, d)
    PROVE  IInv' /\ Abstract!Next
  <1> DEFINE g == [i \in Rows |-> [j \in Coefs |-> ((coeffs[j] % Modulus[i]) * R) % Modulus[i]]]
  <1>1. TypeOK /\ d \in Regs /\ d \in Dest /\ Last \in Level
    BY Tables DEF IInv, Dest, Regs
  <1>2. /\ Frame(Last, d) /\ call' = [op |-> "setmont", lvl |-> Last, dst |-> d, arg |-> coeffs]
        /\ \A i \in 1..Last, j \in Coefs :
              /\ reg'[d][i][j] = ToMont(Raised(coeffs[j], q(i)), i)
              /\ lim'[d][i] = q(i)
    BY <1>1 DEF MFormArrayInt, ByCoef, ByRow, TypeOK, Frame, Level, Rows, Always, BelowQ
  <1>3. ASSUME NEW i \in 1..Last, NEW j \in Coefs
        PROVE  Bounded(reg'[d][i][j], lim'[d][i], g[i][j], q(i))
    <2>1. i \in Rows /\ Cell(d, i, j)
      BY <1>1, Cells
    <2>2. /\ reg'[d][i][j] = ToMont(Raised(coeffs[j], q(i)), i)
          /\ lim'[d][i] = q(i)
          /\ g[i][j] = ((coeffs[j] % q(i)) * R) % q(i)
      BY <1>2, <2>1 DEF q
    <2> HIDE DEF g
    <2>3. QED
      BY <2>1, <2>2, WordIs DEF Cell, Fits
  <1>4. IInv' /\ Moves(Last, d, g)
    <2>1. Table(g)
      BY DEF Table
    <2> HIDE DEF g
    <2>2. QED
      BY <1>1, <1>2, <1>3, <2>1, CallStep, Zenon
  <1>5. Abstract!DoesRow("setmont", LAMBDA x, y, z, i :
        [j \in Abstract!Coefs |-> ((call'.arg[j] % Modulus[i]) * R) % Modulus[i]])
    BY <1>2, <1>4, Tables DEF Moves, Abstract!Does, Abstract!DoesRow
  <1>6. QED
    BY <1>4, <1>5, Zenon DEF Abstract!Next, Abstract!Structure

\* N divides 2^N, so that a shift can be reduced by either.
LEMMA RotationIs ==
    ASSUME NEW n \in Nat, n % 2^N < N, NEW j \in 0..(N - 1)
    PROVE  /\ (j + n) % N \in 0..(N - 1)
           /\ j < N - (n % 2^N) => (j + n) % N = (n % 2^N) + j
           /\ ~(j < N - (n % 2^N)) => (j + n) % N = j - (N - (n % 2^N))
  <1> DEFINE p == 2^N
             k == n % p
  <1>1. N \in Nat \ {0} /\ p \in Nat \ {0} /\ p % N = 0
    BY Tables, OpsAssumption
  <1> HIDE DEF p
  <1>2. k \in Nat /\ k < N
    BY <1>1 DEF p
  <1>3. PICK a \in Int : n = k + (a * p)
    <2>1. n \in Int
      OBVIOUS
    <2>2. PICK b \in Int : n % p = n - (b * p)
      BY <1>1, <2>1, ModIs, Zenon
    <2>3. n = k + (b * p)
      BY <1>1, <2>2
    <2>4. QED
      BY <2>2, <2>3
  <1>4. PICK b \in Int : p = b * N
    <2>1. p \in Int
      BY <1>1
    <2>2. PICK b \in Int : p % N = p - (b * N)
      BY <1>1, <2>1, ModIs, Zenon
    <2>3. QED
      BY <1>1, <2>2
  <1> HIDE DEF k
  <1>5. j + n = (j + k) + ((a * b) * N) /\ j + k \in Int /\ a * b \in Int
    BY <1>1, <1>2, <1>3, <1>4
  <1>6. (j + n) % N = (j + k) % N
    <2> DEFINE c == a * b
               e == j + k
    <2>1. e \in Int /\ c \in Int
      BY <1>5
    <2> HIDE DEF c, e
    <2>2. (e + (c * N)) % N = e % N
      BY <1>1, <2>1, ModPlus, Zenon
    <2>3. QED
      BY <1>5, <2>2 DEF c, e
  <1>7. /\ j < N - k => (j + k) % N = k + j
        /\ ~(j < N - k) => (j + k) % N = j - (N - k)
    <2>1. ASSUME j < N - k PROVE (j + k) % N = k + j
      BY <1>1, <1>2, <2>1
    <2>2. ASSUME ~(j < N - k) PROVE (j + k) % N = j - (N - k)
      <3> DEFINE e == j - (N - k)
      <3>1. e \in 0..(N - 1) /\ j + k = e + (1 * N) /\ e \in Int /\ 1 \in Int
        BY <1>1, <1>2, <2>2
      <3> HIDE DEF e
      <3>2. (e + (1 * N)) % N = e % N
        BY <1>1, <3>1, ModPlus, Zenon
      <3>3. e % N = e
        BY <1>1, <3>1
      <3>4. QED
        BY <3>1, <3>2, <3>3 DEF e
    <2>3. QED
      BY <2>1, <2>2
  <1>8. (j + n) % N \in 0..(N - 1)
    BY <1>1
  <1>9. QED
    BY <1>6, <1>7, <1>8 DEF k, p

\* MFormArray keeps the invariant, and is the step of the ring of that name.
LEMMA MFormArrayStep ==
    ASSUME IInv, NEW coeffs \in [Rows -> 0..(R - 1)], NEW d \in Dest, MFormArray(coeffs, d)
    PROVE  IInv' /\ Abstract!Next
  <1> DEFINE g == [i \in Rows |-> [j \in Coefs |-> IF j = 0 THEN (coeffs[i] * R) % Modulus[i] ELSE 0]]
  <1>1. TypeOK /\ d \in Regs /\ d \in Dest /\ Last \in Level
    BY Tables DEF IInv, Dest, Regs
  <1>2. /\ Frame(Last, d) /\ call' = [op |-> "const", lvl |-> Last, dst |-> d, arg |-> coeffs]
        /\ \A i \in 1..Last, j \in Coefs :
              /\ j = 0 => reg'[d][i][j] = ToMont(coeffs[i], i)
              /\ j # 0 => reg'[d][i][j] = 0
              /\ lim'[d][i] = q(i)
    BY <1>1 DEF MFormArray, ByRow, TypeOK, Frame, Level, Rows, Always, BelowQ
  <1>3. ASSUME NEW i \in 1..Last, NEW j \in Coefs
        PROVE  Bounded(reg'[d][i][j], lim'[d][i], g[i][j], q(i))
    <2>1. i \in Rows /\ Cell(d, i, j)
      BY <1>1, Cells
    <2>2. /\ lim'[d][i] = q(i)
          /\ j = 0 => reg'[d][i][j] = ToMont(coeffs[i], i) /\ g[i][j] = (coeffs[i] * R) % q(i)
          /\ j # 0 => reg'[d][i][j] = 0 /\ g[i][j] = 0
      BY <1>2, <2>1 DEF q
    <2>3. coeffs[i] \in 0..(R - 1)
      BY <2>1
    <2> HIDE DEF g
    <2>4. QED
      BY <2>1, <2>2, <2>3, ConstIs DEF Cell
  <1>4. IInv' /\ Moves(Last, d, g)
    <2>1. Table(g)
      BY DEF Table
    <2> HIDE DEF g
    <2>2. QED
      BY <1>1, <1>2, <1>3, <2>1, CallStep, Zenon
  <1> DEFINE h(x, y, i) == [j \in Abstract!Coefs |-> IF j = 0 THEN (call'.arg[i] * R) % Modulus[i] ELSE 0]
  <1>5. \A i \in Rows : g[i] = h(Residues.a[i], Residues.b[i], i)
    BY <1>2, Tables
  <1> HIDE DEF h, g
  <1>6. Residues' = [Residues EXCEPT ![d] =
            [i \in Rows |-> IF i > Last THEN @[i] ELSE h(Residues.a[i], Residues.b[i], i)]]
    BY <1>4, <1>5 DEF Moves
  <1>7. Abstract!DoesRow("const", LAMBDA x, y, z, i : h(x, y, i))
    BY <1>2, <1>6, Tables DEF Abstract!DoesRow
  <1>8. QED
    BY <1>4, <1>7, Zenon DEF Abstract!Next, Abstract!Structure, h

\* Shift keeps the invariant, and is the step of the ring of that name.
LEMMA ShiftStep ==
    ASSUME IInv, NEW n \in 1..(R \div 2), NEW d \in Dest, Shift(n, d)
    PROVE  IInv' /\ Abstract!Next
  <1> DEFINE g == [i \in Rows |-> [j \in Coefs |-> Residues.a[i][(j + n) % N]]]
  <1>1. TypeOK /\ d \in Regs /\ d \in Dest /\ Last \in Level
    BY Tables DEF IInv, Dest, Regs
  <1> DEFINE k == n % 2^N
  <1>2. /\ Frame(Last, d) /\ call' = [op |-> "shift", lvl |-> Last, dst |-> d, arg |-> n] /\ k < N
        /\ \A i \in 1..Last, j \in Coefs :
              /\ j < N - k => reg'[d][i][j] = reg.a[i][k + j]
              /\ ~(j < N - k) => reg'[d][i][j] = reg.a[i][j - (N - k)]
              /\ lim'[d][i] = lim.a[i]
    <2>1. k < N /\ ByRow("shift", Last, d, n,
                 LAMBDA x, y, z, i : [j \in Coefs |-> IF j < N - k THEN x[k + j] ELSE x[j - (N - k)]],
                 Always, LAMBDA la, lb, lc, m : la)
      BY Zenon DEF Shift
    <2> HIDE DEF k
    <2> DEFINE f(x) == [j \in Coefs |-> IF j < N - k THEN x[k + j] ELSE x[j - (N - k)]]
    <2>2. \A x, j : j \in Coefs => /\ j < N - k => f(x)[j] = x[k + j]
                                   /\ ~(j < N - k) => f(x)[j] = x[j - (N - k)]
      OBVIOUS
    <2>3. \A x : f(x) = [j \in Coefs |-> f(x)[j]]
      OBVIOUS
    <2>4. ByRow("shift", Last, d, n, LAMBDA x, y, z, i : f(x), Always, LAMBDA la, lb, lc, m : la)
      BY <2>1
    <2> HIDE DEF f
    <2>5. /\ Frame(Last, d) /\ call' = [op |-> "shift", lvl |-> Last, dst |-> d, arg |-> n]
          /\ \A i \in 1..Last : reg'[d][i] = f(reg.a[i]) /\ lim'[d][i] = lim.a[i]
      BY <1>1, <2>3, <2>4 DEF ByRow, TypeOK, Frame, Level, Rows, Always
    <2>6. ASSUME NEW i \in 1..Last, NEW j \in Coefs
          PROVE  /\ j < N - k => reg'[d][i][j] = reg.a[i][k + j]
                 /\ ~(j < N - k) => reg'[d][i][j] = reg.a[i][j - (N - k)]
                 /\ lim'[d][i] = lim.a[i]
      <3>1. reg'[d][i] = f(reg.a[i]) /\ lim'[d][i] = lim.a[i]
        BY <2>5
      <3>2. /\ j < N - k => f(reg.a[i])[j] = reg.a[i][k + j]
            /\ ~(j < N - k) => f(reg.a[i])[j] = reg.a[i][j - (N - k)]
        BY <2>2, Zenon
      <3>3. QED
        BY <3>1, <3>2
    <2>7. QED
      BY <2>1, <2>5, <2>6, Zenon
  <1>3. ASSUME NEW i \in 1..Last, NEW j \in Coefs
        PROVE  Bounded(reg'[d][i][j], lim'[d][i], g[i][j], q(i))
    <2> DEFINE s == (j + n) % N
    <2>1. i \in Rows
      BY <1>1 DEF Level, Rows
    <2>2. /\ s \in Coefs
          /\ j < N - k => s = k + j
          /\ ~(j < N - k) => s = j - (N - k)
      BY <1>2, RotationIs DEF Coefs
    <2>3. reg'[d][i][j] = reg.a[i][s] /\ lim'[d][i] = lim.a[i] /\ g[i][j] = Residues.a[i][s]
      BY <1>2, <2>1, <2>2
    <2> HIDE DEF s, g, k
    <2>4. Bounded(reg.a[i][s], lim.a[i], Residues.a[i][s], q(i))
      BY <2>1, <2>2, Operand DEF Regs
    <2>5. QED
      BY <2>3, <2>4
  <1>4. IInv' /\ Moves(Last, d, g)
    <2>1. Table(g)
      BY DEF Table
    <2> HIDE DEF g
    <2>2. QED
      BY <1>1, <1>2, <1>3, <2>1, CallStep, Zenon
  <1> DEFINE h(x, y, i) == [j \in Abstract!Coefs |-> x[(j + call'.arg) % N]]
  <1>5. \A i \in Rows : g[i] = h(Residues.a[i], Residues.b[i], i)
    BY <1>2, Tables
  <1> HIDE DEF h, g
  <1>6. Residues' = [Residues EXCEPT ![d] =
            [i \in Rows |-> IF i > Last THEN @[i] ELSE h(Residues.a[i], Residues.b[i], i)]]
    BY <1>4, <1>5 DEF Moves
  <1>7. Abstract!DoesRow("shift", LAMBDA x, y, z, i : h(x, y, i))
    BY <1>2, <1>6, Tables DEF Abstract!DoesRow
  <1>8. QED
    BY <1>4, <1>7, Zenon DEF Abstract!Next, Abstract!Structure, h

\* Where the coefficient j of x times X^n comes from, and with which sign.
From(j, n) == (j - (n % (2 * N))) % (2 * N)
\* A difference of an index and a shift that is negative needs one 2N to be
\* reduced.
LEMMA FromIs ==
    ASSUME NEW j \in 0..(N - 1), NEW s \in 0..((2 * N) - 1)
    PROVE  /\ j >= s => (j - s) % (2 * N) = j - s
           /\ ~(j >= s) => (j - s) % (2 * N) = (j - s) + (2 * N)
  <1> DEFINE p == 2 * N
             e == (j - s) + p
  <1>1. N \in Nat \ {0} /\ p \in Nat \ {0}
    BY Tables
  <1>2. ASSUME j >= s PROVE (j - s) % p = j - s
    <2>1. j - s \in 0..(p - 1)
      BY <1>1, <1>2
    <2> HIDE DEF p
    <2>2. QED
      BY <1>1, <2>1
  <1>3. ASSUME ~(j >= s) PROVE (j - s) % p = e
    <2>1. e \in 0..(p - 1) /\ e \in Int /\ j - s = e - (1 * p) /\ 1 \in Int
      BY <1>1, <1>3
    <2> HIDE DEF p, e
    <2>2. (e - (1 * p)) % p = e % p
      BY <1>1, <2>1, ModMinus, Zenon
    <2>3. e % p = e
      BY <1>1, <2>1
    <2>4. QED
      BY <2>1, <2>2, <2>3
  <1>4. QED
    BY <1>2, <1>3

\* A shifted coefficient is one of x, or the modulus minus one of x when it
\* wrapped.
LEMMA MonomialIs ==
    ASSUME NEW n \in Nat, NEW x, x = [j \in Coefs |-> x[j]], \A j \in Coefs : x[j] \in Int,
           NEW i, q(i) \in Int
    PROVE  /\ Monomial(x, n, i) = [j \in Coefs |-> Monomial(x, n, i)[j]]
           /\ \A j \in Coefs :
                 \/ /\ From(j, n) < N /\ From(j, n) \in Coefs
                    /\ Monomial(x, n, i)[j] = x[From(j, n)]
                 \/ /\ ~(From(j, n) < N) /\ From(j, n) - N \in Coefs
                    /\ Monomial(x, n, i)[j] = q(i) - x[From(j, n) - N]
  <1> DEFINE s == n % (2 * N)
             k == s % N
             t == [j \in Coefs |-> IF s < N THEN x[j] ELSE q(i) - x[j]]
             r == [j \in Coefs |-> IF j < k THEN q(i) - t[N - k + j] ELSE t[j - k]]
  <1>1. N \in Nat \ {0} /\ s \in 0..((2 * N) - 1)
    <2> DEFINE p == 2 * N
    <2>1. N \in Nat \ {0} /\ p \in Nat \ {0}
      BY Tables
    <2> HIDE DEF p
    <2>2. n % p \in 0..(p - 1)
      BY <2>1
    <2>3. QED
      BY <2>1, <2>2 DEF p
  <1>2. Monomial(x, n, i) = IF s = 0 THEN x ELSE r
    BY DEF Monomial
  <1>3. \A j \in Coefs : From(j, n) = (j - s) % (2 * N)
    BY DEF From
  <1> HIDE DEF s
  <1>4. k \in 0..(N - 1) /\ (s < N => k = s) /\ (~(s < N) => k = s - N)
    <2>1. CASE s < N
      BY <1>1, <2>1
    <2>2. CASE ~(s < N)
      <3> DEFINE e == s - N
      <3>1. e \in 0..(N - 1) /\ e \in Int /\ s = e + (1 * N) /\ 1 \in Int
        BY <1>1, <2>2
      <3> HIDE DEF e
      <3>2. (e + (1 * N)) % N = e % N
        BY <1>1, <3>1, ModPlus, Zenon
      <3>3. e % N = e
        BY <1>1, <3>1
      <3>4. QED
        BY <1>1, <2>2, <3>1, <3>2, <3>3 DEF e
    <2>3. QED
      BY <2>1, <2>2
  <1> HIDE DEF k
  <1>5. \A j \in Coefs : (s < N => t[j] = x[j]) /\ (~(s < N) => t[j] = q(i) - x[j])
    OBVIOUS
  <1>6. \A j \in Coefs : (j < k => r[j] = q(i) - t[N - k + j]) /\ (~(j < k) => r[j] = t[j - k])
    OBVIOUS
  <1>7. r = [j \in Coefs |-> r[j]]
    OBVIOUS
  <1> HIDE DEF t, r
  <1>8. ASSUME NEW j \in Coefs
        PROVE  \/ /\ From(j, n) < N /\ From(j, n) \in Coefs
                  /\ Monomial(x, n, i)[j] = x[From(j, n)]
               \/ /\ ~(From(j, n) < N) /\ From(j, n) - N \in Coefs
                  /\ Monomial(x, n, i)[j] = q(i) - x[From(j, n) - N]
    <2> DEFINE f == From(j, n)
    <2>1. j \in 0..(N - 1) /\ \A c : c \in 0..(N - 1) <=> c \in Coefs
      BY DEF Coefs
    <2>2. f = (j - s) % (2 * N)
      BY <1>3
    <2>3. (j >= s => f = j - s) /\ (~(j >= s) => f = (j - s) + (2 * N))
      BY <1>1, <2>1, <2>2, FromIs
    <2> HIDE DEF f
    <2>4. CASE s = 0
      <3>1. f = j /\ f < N
        BY <1>1, <2>1, <2>3, <2>4
      <3>2. QED
        BY <1>2, <2>4, <3>1 DEF f
    <2>5. CASE s # 0 /\ s < N /\ j < s
      <3>1. f - N = (N - k) + j /\ f - N \in Coefs /\ ~(f < N) /\ j < k /\ (N - k) + j \in Coefs
        BY <1>1, <1>4, <2>1, <2>3, <2>5
      <3>2. r[j] = q(i) - x[f - N]
        BY <1>5, <1>6, <2>5, <3>1
      <3>3. QED
        BY <1>2, <2>5, <3>1, <3>2 DEF f
    <2>6. CASE s # 0 /\ s < N /\ ~(j < s)
      <3>1. f = j - k /\ f \in Coefs /\ f < N /\ ~(j < k)
        BY <1>1, <1>4, <2>1, <2>3, <2>6
      <3>2. r[j] = x[f]
        BY <1>5, <1>6, <2>6, <3>1
      <3>3. QED
        BY <1>2, <2>6, <3>1, <3>2 DEF f
    <2>7. CASE ~(s < N) /\ j < k
      <3>1. f = (N - k) + j /\ f \in Coefs /\ f < N /\ s # 0
        BY <1>1, <1>4, <2>1, <2>3, <2>7
      <3>2. r[j] = q(i) - (q(i) - x[f])
        BY <1>5, <1>6, <2>7, <3>1
      <3>3. x[f] \in Int
        BY <3>1
      <3>4. r[j] = x[f]
        BY <3>2, <3>3
      <3>5. QED
        BY <1>2, <3>1, <3>4 DEF f
    <2>8. CASE ~(s < N) /\ ~(j < k)
      <3>1. f - N = j - k /\ f - N \in Coefs /\ ~(f < N) /\ s # 0
        BY <1>1, <1>4, <2>1, <2>3, <2>8
      <3>2. r[j] = q(i) - x[f - N]
        BY <1>5, <1>6, <2>8, <3>1
      <3>3. QED
        BY <1>2, <3>1, <3>2 DEF f
    <2>9. QED
      BY <2>4, <2>5, <2>6, <2>7, <2>8
  <1>9. Monomial(x, n, i) = [j \in Coefs |-> Monomial(x, n, i)[j]]
    BY <1>2, <1>7
  <1>10. QED
    BY <1>8, <1>9

\* The opposite of a coefficient, which MultByMonomial writes without a
\* reduction.
LEMMA OppositeWord ==
    ASSUME NEW m, NEW qInv, NEW u, NEW v, Good(m, qInv, u, v), NEW x, NEW xt, NEW xr, Bounded(x, xt, xr, m),
           xt <= m + 1
    PROVE  Bounded(m - x, m + 1, (-xr) % m, m) /\ Bounded(x, m + 1, xr % m, m)
  <1>1. Bounded(Wrap(m - x), m + 1, (-xr) % m, m)
    BY NegWord
  <1>2. m - x \in 0..(R - 1) /\ m - x \in Int /\ m + 1 \in 1..R /\ x \in Int /\ m \in Nat \ {0} /\ xr = x % m
        /\ x \in Nat /\ x < m + 1
    BY RAssumption DEF Good, Bounded
  <1>3. Wrap(m - x) = m - x
    BY <1>2, WrapRange
  <1>4. (x % m) % m = x % m
    BY <1>2, ModSmall, Zenon
  <1>5. QED
    BY <1>1, <1>2, <1>3, <1>4 DEF Bounded

\* MultByMonomial keeps the invariant, and is the step of the ring of that
\* name.
LEMMA MultByMonomialStep ==
    ASSUME IInv, NEW n \in 1..(R \div 2), NEW d \in Dest, MultByMonomial(n, d)
    PROVE  IInv' /\ Abstract!Next
  <1> DEFINE g ==
                 [i \in Rows |-> [j \in Coefs |->
                     (IF From(j, n) < N THEN Residues.a[i][From(j, n)] ELSE -Residues.a[i][From(j, n) - N]) % Modulus[i]]]
  <1>1. TypeOK /\ d \in Regs /\ d \in Dest /\ Last \in Level /\ n \in Nat
    BY Tables DEF IInv, Dest, Regs
  <1>2. /\ Frame(Last, d) /\ call' = [op |-> "monomial", lvl |-> Last, dst |-> d, arg |-> n]
        /\ \A i \in 1..Last : /\ reg'[d][i] = Monomial(reg.a[i], n, i)
                              /\ lim'[d][i] = q(i) + 1 /\ lim.a[i] <= q(i) + 1
    <2> DEFINE f(x, i) == Monomial(x, n, i)
    <2>1. ByRow("monomial", Last, d, n, LAMBDA x, y, z, i : f(x, i),
                LAMBDA la, lb, lc, m : la <= m + 1, LAMBDA la, lb, lc, m : m + 1)
      BY Zenon DEF MultByMonomial
    <2>2. \A i \in Rows : f(reg.a[i], i) = [j \in Coefs |-> f(reg.a[i], i)[j]]
      <3>1. SUFFICES ASSUME NEW i \in Rows PROVE f(reg.a[i], i) = [j \in Coefs |-> f(reg.a[i], i)[j]]
        OBVIOUS
      <3>2. reg.a[i] = [j \in Coefs |-> reg.a[i][j]] /\ (\A j \in Coefs : reg.a[i][j] \in Int) /\ q(i) \in Int
        BY <1>1, ModulusFits, RAssumption DEF TypeOK, Polys, Regs, Fits, Good
      <3>3. QED
        BY <1>1, <3>2, MonomialIs, Zenon
    <2> HIDE DEF f
    <2>3. /\ Frame(Last, d) /\ call' = [op |-> "monomial", lvl |-> Last, dst |-> d, arg |-> n]
          /\ \A i \in 1..Last : /\ reg'[d][i] = f(reg.a[i], i)
                                /\ lim'[d][i] = q(i) + 1 /\ lim.a[i] <= q(i) + 1
      BY <1>1, <2>1, <2>2 DEF ByRow, TypeOK, Frame, Level, Rows
    <2>4. QED
      BY <2>3 DEF f
  <1>3. ASSUME NEW i \in 1..Last, NEW j \in Coefs
        PROVE  Bounded(reg'[d][i][j], lim'[d][i], g[i][j], q(i))
    <2> DEFINE f == From(j, n)
    <2>1. i \in Rows /\ Fits(i)
      BY <1>1, ModulusFits DEF Level, Rows
    <2>2. /\ reg'[d][i][j] = Monomial(reg.a[i], n, i)[j]
          /\ lim'[d][i] = q(i) + 1 /\ lim.a[i] <= q(i) + 1
      BY <1>2
    <2>3. /\ f < N => g[i][j] = Residues.a[i][f] % q(i)
          /\ ~(f < N) => g[i][j] = (-Residues.a[i][f - N]) % q(i)
      BY <2>1 DEF q
    <2>4. \/ f < N /\ f \in Coefs /\ reg'[d][i][j] = reg.a[i][f]
          \/ ~(f < N) /\ f - N \in Coefs /\ reg'[d][i][j] = q(i) - reg.a[i][f - N]
      <3>1. reg.a[i] = [c \in Coefs |-> reg.a[i][c]] /\ (\A c \in Coefs : reg.a[i][c] \in Int) /\ q(i) \in Int
        BY <1>1, <2>1, RAssumption DEF TypeOK, Polys, Regs, Fits, Good
      <3>2. QED
        BY <1>1, <2>2, <3>1, MonomialIs
    <2> HIDE DEF g, f
    <2>5. \A c \in Coefs : Bounded(reg.a[i][c], lim.a[i], Residues.a[i][c], q(i))
      BY <2>1, Operand DEF Regs
    <2>6. QED
      BY <2>1, <2>2, <2>3, <2>4, <2>5, OppositeWord DEF Fits
  <1>4. IInv' /\ Moves(Last, d, g)
    <2>1. Table(g)
      BY DEF Table
    <2> HIDE DEF g
    <2>2. QED
      BY <1>1, <1>2, <1>3, <2>1, CallStep, Zenon
  <1> DEFINE h(x, y, i) == Abstract!TimesMonomial(x, call'.arg % (2 * N), i)
  <1>5. \A i \in Rows : g[i] = h(Residues.a[i], Residues.b[i], i)
    BY <1>2, Tables DEF Abstract!TimesMonomial, From
  <1> HIDE DEF h, g
  <1>6. Residues' = [Residues EXCEPT ![d] =
            [i \in Rows |-> IF i > Last THEN @[i] ELSE h(Residues.a[i], Residues.b[i], i)]]
    BY <1>4, <1>5 DEF Moves
  <1>7. Abstract!DoesRow("monomial", LAMBDA x, y, z, i : h(x, y, i))
    BY <1>2, <1>6, Tables DEF Abstract!DoesRow
  <1>8. QED
    BY <1>4, <1>7, Zenon DEF Abstract!Next, Abstract!Structure, h

\* Equal keeps the invariant, and is the step of the ring of that name.
LEMMA EqualStep ==
    ASSUME IInv, NEW l \in Level, EqualLvl(l)
    PROVE  IInv' /\ Abstract!Next
  <1>1. TypeOK /\ l \in Nat /\ \A i \in Rows : (i \in 1..l <=> ~(i > l))
    BY DEF IInv, Level, Rows
  <1>2. \A r \in Regs, i \in Rows, j \in Coefs :
            BRedAdd(reg[r][i][j], q(i), bred(i)) = Residues[r][i][j] /\ Residues[r][i][j] \in 0..(q(i) - 1)
    <2>1. SUFFICES ASSUME NEW r \in Regs, NEW i \in Rows, NEW j \in Coefs
                   PROVE  BRedAdd(reg[r][i][j], q(i), bred(i)) = Residues[r][i][j]
                          /\ Residues[r][i][j] \in 0..(q(i) - 1)
      OBVIOUS
    <2>2. Fits(i) /\ Bounded(reg[r][i][j], lim[r][i], Residues[r][i][j], q(i))
      BY ModulusFits, Operand
    <2>3. q(i) \in Nat \ {0} /\ 2 * q(i) <= R /\ reg[r][i][j] \in 0..(R - 1) /\ bred(i) = BRedParams(q(i))
          /\ Residues[r][i][j] = reg[r][i][j] % q(i) /\ reg[r][i][j] \in Int
      BY <2>2, RAssumption DEF Fits, Good, Bounded
    <2>4. reg[r][i][j] % q(i) \in 0..(q(i) - 1)
      BY <2>3, ModSmall, Zenon
    <2>5. QED
      BY <2>3, <2>4, BarrettReduction
  <1> DEFINE new(r) == [i \in Rows |-> IF i > l THEN reg[r][i] ELSE Residues[r][i]]
             top(r) == [i \in Rows |-> IF i > l THEN lim[r][i] ELSE q(i)]
  <1>3. \A r \in Regs : new(r) = [i \in Rows |-> IF i > l THEN reg[r][i]
                                     ELSE [j \in Coefs |-> BRedAdd(reg[r][i][j], q(i), bred(i))]]
    <2>1. \A r \in Regs, i \in Rows :
              Residues[r][i] = [j \in Coefs |-> BRedAdd(reg[r][i][j], q(i), bred(i))]
      <3>1. \A r \in Regs, i \in Rows : Residues[r][i] = [j \in Coefs |-> Residues[r][i][j]]
        BY DEF Residues
      <3>2. QED
        BY <1>2, <3>1
    <2>2. QED
      BY <2>1
  <1>4. /\ reg' = [r \in Regs |-> IF r = "c" THEN reg.c ELSE new(r)]
        /\ lim' = [r \in Regs |-> IF r = "c" THEN lim.c ELSE top(r)]
        /\ call' = [op |-> "equal", lvl |-> l, dst |-> "a", arg |-> \A i \in 1..l : new("a")[i] = new("b")[i]]
    <2> HIDE DEF new
    <2>1. "a" \in Regs /\ "b" \in Regs /\ "c" \in Regs
      BY DEF Regs
    <2>2. [r \in Regs |-> IF r = "c" THEN reg.c ELSE [i \in Rows |->
                       IF i > l THEN reg[r][i]
                       ELSE [j \in Coefs |-> BRedAdd(reg[r][i][j], q(i), bred(i))]]]
          = [r \in Regs |-> IF r = "c" THEN reg.c ELSE new(r)]
      BY <1>3
    <2>3. QED
      BY <2>1, <2>2 DEF EqualLvl
  <1>5. \A r \in Regs, i \in Rows :
            \/ reg'[r][i] = reg[r][i] /\ lim'[r][i] = lim[r][i]
            \/ reg'[r][i] = Residues[r][i] /\ lim'[r][i] = q(i)
    BY <1>4 DEF Regs
  <1>6. \A r \in Regs, i \in Rows : q(i) \in 1..R /\ Residues[r][i] \in [Coefs -> 0..(R - 1)]
    <2>1. SUFFICES ASSUME NEW r \in Regs, NEW i \in Rows
                   PROVE  q(i) \in 1..R /\ Residues[r][i] \in [Coefs -> 0..(R - 1)]
      OBVIOUS
    <2>2. q(i) \in 1..R
      BY ModulusFits, RAssumption DEF Fits, Good
    <2>3. \A j \in Coefs : Residues[r][i][j] \in 0..(R - 1)
      BY <1>2, <2>2, RAssumption
    <2>4. Residues[r][i] = [j \in Coefs |-> Residues[r][i][j]]
      BY DEF Residues
    <2>5. QED
      BY <2>2, <2>3, <2>4
  <1>7. \A r \in Regs : reg'[r] = [i \in Rows |-> reg'[r][i]] /\ lim'[r] = [i \in Rows |-> lim'[r][i]]
    <2>1. reg.c = [i \in Rows |-> reg.c[i]] /\ lim.c = [i \in Rows |-> lim.c[i]]
      BY <1>1 DEF TypeOK, Polys, Regs
    <2>2. QED
      BY <1>4, <2>1
  <1>8. IInv'
    <2>1. \A r \in Regs, i \in Rows : reg[r][i] \in [Coefs -> 0..(R - 1)] /\ lim[r][i] \in 1..R
      BY <1>1 DEF TypeOK, Polys
    <2>2. \A r \in Regs, i \in Rows : reg'[r][i] \in [Coefs -> 0..(R - 1)] /\ lim'[r][i] \in 1..R
      BY <1>5, <1>6, <2>1
    <2>3. \A r \in Regs : reg'[r] \in Polys /\ lim'[r] \in [Rows -> 1..R]
      BY <1>7, <2>2 DEF Polys
    <2>4. \A r \in Regs, i \in Rows, j \in Coefs : reg'[r][i][j] < lim'[r][i]
      <3>1. SUFFICES ASSUME NEW r \in Regs, NEW i \in Rows, NEW j \in Coefs PROVE reg'[r][i][j] < lim'[r][i]
        OBVIOUS
      <3>2. reg[r][i][j] < lim[r][i]
        BY DEF IInv, WithinBounds
      <3>3. Residues[r][i][j] < q(i)
        BY <1>2, <1>6
      <3>4. QED
        BY <1>5, <3>2, <3>3
    <2>5. reg' = [r \in Regs |-> reg'[r]] /\ lim' = [r \in Regs |-> lim'[r]]
      BY <1>4
    <2>6. \A r \in Regs, i \in Rows : lim'[r][i] <= R
      BY <2>2, RAssumption
    <2>7. QED
      BY <2>3, <2>4, <2>5, <2>6 DEF IInv, TypeOK, WithinBounds
  <1>9. Residues' = Residues
    <2>1. \A r \in Regs, i \in Rows, j \in Coefs : reg'[r][i][j] % q(i) = reg[r][i][j] % q(i)
      <3>1. SUFFICES ASSUME NEW r \in Regs, NEW i \in Rows, NEW j \in Coefs
                     PROVE  reg'[r][i][j] % q(i) = reg[r][i][j] % q(i)
        OBVIOUS
      <3>2. Residues[r][i][j] = reg[r][i][j] % q(i)
        BY DEF Residues
      <3>3. q(i) \in Nat \ {0} /\ reg[r][i][j] \in Int
        BY <1>1, ModulusFits, RAssumption DEF Fits, Good, TypeOK, Polys
      <3>4. (reg[r][i][j] % q(i)) % q(i) = reg[r][i][j] % q(i)
        BY <3>3, ModSmall, Zenon
      <3>5. QED
        BY <1>5, <3>2, <3>4
    <2>2. QED
      BY <2>1 DEF Residues
  <1>10. \A i \in 1..l : new("a")[i] = Residues.a[i] /\ new("b")[i] = Residues.b[i]
    BY <1>1 DEF Level, Rows
  <1>11. Abstract!Compare
    <2> HIDE DEF new
    <2>1. call'.arg = \A i \in 1..l : Residues.a[i] = Residues.b[i]
      BY <1>4, <1>10
    <2>2. QED
      BY <1>4, <1>9, <2>1 DEF Abstract!Compare
  <1>12. QED
    BY <1>8, <1>11 DEF Abstract!Next
-----------------------------------------------------------------------------
(* Bit reversal *)
\* The numbers made of the lowest bits of x in reverse order.
Reversed(x) ==
    LET rev[b \in 0..LogN] == IF b = 0 THEN 0 ELSE 2 * rev[b-1] + ((x \div 2^(b-1)) % 2) IN rev

\* Powers of two double up to 2^LogN.
LEMMA Halves ==
    ASSUME NEW k \in 1..LogN
    PROVE  /\ 2^k \in Nat \ {0} /\ 2^(k - 1) \in Nat \ {0} /\ 2^k = 2 * 2^(k - 1)
           /\ k - 1 \in 0..LogN /\ k \in 0..LogN
  <1>1. LogN \in Nat
    BY RingAssumption DEF setParameters
  <1>2. k \in 0..LogN /\ k - 1 \in 0..LogN /\ k > 0
    BY <1>1
  <1>3. QED
    BY <1>2, DegreePowers

\* Reversed follows its recursion, and its values are numbers of n bits.
LEMMA ReversedIs ==
    ASSUME NEW x \in Nat
    PROVE  /\ BitReverse64(x, LogN) = Reversed(x)[LogN]
           /\ Reversed(x)[0] = 0
           /\ \A b \in 1..LogN : Reversed(x)[b] = 2 * Reversed(x)[b-1] + ((x \div 2^(b-1)) % 2)
           /\ \A b \in 0..LogN : Reversed(x)[b] \in Nat
  <1> DEFINE n == LogN
             S == Nat
             next(k, s) == 2 * s + ((x \div 2^(k-1)) % 2)
             rev[b \in 0..LogN] == IF b = 0 THEN 0 ELSE 2 * rev[b-1] + ((x \div 2^(b-1)) % 2)
  <1>1. Reversed(x) = rev /\ BitReverse64(x, LogN) = rev[LogN]
    BY DEF BitReverse64, Reversed
  <1>2. n \in Nat /\ 0 \in S
    BY RingAssumption DEF setParameters
  <1>3. \A k \in 1..n, s \in S : next(k, s) \in S
    <2>1. SUFFICES ASSUME NEW k \in 1..n, NEW s \in S PROVE next(k, s) \in S
      OBVIOUS
    <2> DEFINE p == 2^(k-1)
    <2>2. p \in Nat \ {0}
      BY Halves
    <2> HIDE DEF p
    <2>3. x \div p \in Nat
      BY <2>2, DivNat
    <2>4. (x \div p) % 2 \in Nat
      BY <2>3
    <2>5. QED
      BY <2>4 DEF p
  <1>4. rev = [k \in 0..n |-> IF k = 0 THEN 0 ELSE next(k, rev[k-1])]
    <2> DEFINE g == [k \in 1..n |-> [s \in S |-> next(k, s)]]
    <2>1. g \in [1..n -> [S -> S]]
      BY <1>2, <1>3
    <2> HIDE DEF g, S, n, rev
    <2>2. PICK f \in [0..n -> S] : Follows(f, n, 0, g)
      BY <1>2, <1>3, <2>1, Recursion, Zenon
    <2>3. ASSUME NEW k \in 1..n PROVE f[k] = next(k, f[k - 1])
      <3>1. k - 1 \in 0..n
        BY <1>2, <1>3
      <3>2. f[k - 1] \in S /\ f[k] = g[k][f[k - 1]]
        BY <2>2, <3>1 DEF Follows
      <3>3. \A s \in S : g[k][s] = next(k, s)
        BY Zenon DEF g
      <3>4. QED
        BY <3>2, <3>3, Zenon
    <2>4. f = [k \in 0..n |-> IF k = 0 THEN 0 ELSE next(k, f[k-1])]
      <3>1. \A k \in 0..n : k # 0 => k \in 1..n
        BY <1>2, <1>3
      <3>2. f[0] = 0 /\ f = [k \in 0..n |-> f[k]]
        BY <2>2 DEF Follows
      <3> HIDE DEF next
      <3>3. \A k \in 0..n : f[k] = IF k = 0 THEN 0 ELSE next(k, f[k-1])
        BY <2>3, <3>1, <3>2
      <3>4. QED
        BY <3>2, <3>3, Zenon
    <2>5. QED
      BY <2>4 DEF rev, n
  <1> HIDE DEF rev
  <1>5. \A k \in 0..n : rev[k] \in S
    <2>1. 0 \in 0..n /\ rev[0] \in S
      BY <1>2, <1>4
    <2>2. ASSUME NEW k \in 1..n, rev[k-1] \in S PROVE rev[k] \in S
      <3>1. k \in 0..n /\ k # 0
        BY <1>2
      <3> HIDE DEF next
      <3>2. rev[k] = next(k, rev[k-1])
        BY <1>4, <3>1
      <3>3. QED
        BY <1>3, <2>2, <3>2
    <2> HIDE DEF S, n
    <2>3. QED
      BY <1>2, <2>1, <2>2, StaysIn
  <1>6. rev[0] = 0
    BY <1>2, <1>4
  <1>7. \A b \in 1..n : rev[b] = next(b, rev[b-1])
    <2>1. \A b \in 1..n : b \in 0..n /\ b # 0
      BY <1>2
    <2> HIDE DEF next
    <2>2. QED
      BY <1>4, <2>1
  <1>8. QED
    BY <1>1, <1>5, <1>6, <1>7

\* The lowest bit ends highest.
LEMMA LowestFirst ==
    ASSUME NEW y \in Nat, NEW c \in {0, 1}
    PROVE  \A b \in 1..LogN : Reversed((2 * y) + c)[b] = (c * 2^(b - 1)) + Reversed(y)[b - 1]
  <1> DEFINE z == (2 * y) + c
             P(b) == Reversed(z)[b] = (c * 2^(b - 1)) + Reversed(y)[b - 1]
             H == {b \in 0..LogN : b > 0 => P(b)}
  <1>1. z \in Nat /\ LogN \in Nat /\ 0 \in H
    BY RingAssumption DEF setParameters
  <1>2. ASSUME NEW b \in 1..LogN, b - 1 \in H PROVE b \in H
    <2>1. Reversed(z)[b] = 2 * Reversed(z)[b-1] + ((z \div 2^(b-1)) % 2)
      <3> HIDE DEF z
      <3>1. QED
        BY <1>1, ReversedIs
    <2>2. CASE b = 1
      <3>1. 2^(b-1) = 1
        <4>1. 0 \in 0..W
          BY WAssumption
        <4>2. 2^0 = 1
          BY <4>1, WordPowers
        <4>3. QED
          BY <2>2, <4>2
      <3>2. Reversed(z)[0] = 0 /\ Reversed(y)[0] = 0
        <4> HIDE DEF z
        <4> QED
          BY <1>1, ReversedIs
      <3>3. z \div 1 = z /\ z % 2 = c /\ b - 1 = 0
        BY <1>1, <2>2
      <3>4. P(b)
        BY <2>1, <2>2, <3>1, <3>2, <3>3
      <3>5. QED
        BY <1>1, <3>4
    <2>3. CASE b # 1
      <3> DEFINE p == 2^(b - 2)
                 a == Reversed(y)[b - 2]
      <3>1. b - 1 \in 1..LogN /\ b - 2 \in 0..LogN /\ (b - 1) - 1 = b - 2
        BY <1>1, <2>3
      <3>2. p \in Nat \ {0} /\ 2^(b - 1) = 2 * p
        BY <3>1, Halves
      <3>3. a \in Nat /\ Reversed(y)[b - 1] = 2 * a + ((y \div p) % 2)
        BY <3>1, ReversedIs
      <3>4. Reversed(z)[b - 1] = (c * p) + a
        BY <1>2, <3>1
      <3>5. z \div (2 * p) = y \div p
        <4> DEFINE d == y \div p
                   e == y % p
                   w == 2 * p
                   s == (2 * e) + c
        <4> HIDE DEF p
        <4>1. d \in Int /\ e \in 0..(p - 1) /\ y = (p * d) + e
          BY <3>2, DivMod
        <4> HIDE DEF d, e
        <4>2. z = ((2 * p) * d) + ((2 * e) + c) /\ (2 * e) + c \in 0..((2 * p) - 1) /\ 2 * p \in Nat \ {0}
          BY <3>2, <4>1
        <4>3. z = (w * d) + s /\ s \in 0..(w - 1) /\ w \in Nat \ {0}
          BY <4>2
        <4> HIDE DEF w, s, z
        <4>4. ((w * d) + s) \div w = d
          BY <4>1, <4>3, DivModUnique, Zenon
        <4>5. z \div w = d
          BY <4>3, <4>4
        <4>6. QED
          BY <4>5 DEF w, d
      <3>6. (y \div p) % 2 \in Int
        <4> HIDE DEF p
        <4>1. y \div p \in Int
          BY <3>2
        <4>2. QED
          BY <4>1
      <3>7. P(b)
        <4> DEFINE t == (y \div p) % 2
        <4>1. t \in Int
          BY <3>6
        <4>2. Reversed(z)[b] = 2 * Reversed(z)[b-1] + t
          BY <2>1, <3>2, <3>5
        <4>3. Reversed(y)[b - 1] = 2 * a + t
          BY <3>3
        <4> HIDE DEF t, p, a, z
        <4>4. 2 * ((c * p) + a) + t = (c * (2 * p)) + (2 * a + t)
          BY <3>2, <3>3, <4>1
        <4>5. QED
          BY <3>2, <3>4, <4>2, <4>3, <4>4
      <3>8. QED
        BY <1>1, <3>7
    <2>4. QED
      BY <2>2, <2>3
  <1> HIDE DEF H, P
  <1>3. \A b \in 0..LogN : b \in H
    BY <1>1, <1>2, Induction
  <1>4. \A b \in 1..LogN : b \in 0..LogN /\ b > 0
    BY <1>1
  <1>5. \A b \in 1..LogN : P(b)
    BY <1>3, <1>4 DEF H
  <1>6. QED
    BY <1>5 DEF P

\* Reversing twice gives the lowest bits back.
LEMMA ReversedTwice ==
    ASSUME NEW x \in Nat
    PROVE  \A b \in 0..LogN : Reversed(Reversed(x)[b])[b] = x % 2^b /\ Reversed(x)[b] < 2^b
  <1> DEFINE H == {b \in 0..LogN : Reversed(Reversed(x)[b])[b] = x % 2^b /\ Reversed(x)[b] < 2^b}
  <1>1. LogN \in Nat
    BY RingAssumption DEF setParameters
  <1>2. 0 \in H
    <2>1. 0 \in 0..W
      BY WAssumption
    <2>2. 2^0 = 1
      BY <2>1, WordPowers
    <2>3. Reversed(x)[0] = 0 /\ Reversed(0)[0] = 0
      BY ReversedIs
    <2>4. x % 1 = 0
      OBVIOUS
    <2>5. QED
      BY <1>1, <2>2, <2>3, <2>4
  <1>3. ASSUME NEW b \in 1..LogN, b - 1 \in H PROVE b \in H
    <2> DEFINE p == 2^(b - 1)
               y == Reversed(x)[b - 1]
               c == (x \div p) % 2
               d == x \div p
    <2>1. p \in Nat \ {0} /\ 2^b = 2 * p /\ b - 1 \in 0..LogN
      BY Halves
    <2>2. y \in Nat /\ Reversed(x)[b] = (2 * y) + c
      BY <2>1, ReversedIs
    <2>3. d \in Nat /\ x % p \in 0..(p - 1) /\ x = (p * d) + (x % p)
      <3> HIDE DEF p
      <3> QED
        BY <2>1, DivNat
    <2>4. c \in {0, 1} /\ d = (2 * (d \div 2)) + c /\ d \div 2 \in Int
      <3> HIDE DEF d
      <3>1. d % 2 \in {0, 1} /\ d = (2 * (d \div 2)) + (d % 2) /\ d \div 2 \in Int
        BY <2>3
      <3>2. QED
        BY <3>1 DEF d
    <2>5. Reversed((2 * y) + c)[b] = (c * p) + Reversed(y)[b - 1]
      <3> HIDE DEF y, c
      <3> QED
        BY <2>2, <2>4, LowestFirst
    <2>6. Reversed(y)[b - 1] = x % p /\ y < p
      BY <1>3
    <2>7. x % (2 * p) = (c * p) + (x % p)
      <3> DEFINE e == d \div 2
                 f == x % p
                 w == 2 * p
                 s == (c * p) + f
      <3> HIDE DEF p, c, d
      <3>1. f \in 0..(p - 1) /\ x = (p * d) + f /\ d = (2 * e) + c /\ e \in Int
        BY <2>3, <2>4
      <3> HIDE DEF e, f
      <3>2. p * ((2 * e) + c) = (w * e) + (c * p)
        BY <2>1, <2>4, <3>1
      <3>3. c * p = 0 \/ c * p = p
        BY <2>1, <2>4
      <3>4. x = (w * e) + s /\ s \in 0..(w - 1) /\ w \in Nat \ {0}
        BY <2>1, <2>4, <3>1, <3>2, <3>3
      <3> HIDE DEF w, s
      <3>5. ((w * e) + s) % w = s
        BY <3>1, <3>4, DivModUnique, Zenon
      <3>6. x % w = s
        BY <3>4, <3>5
      <3>7. QED
        BY <3>6 DEF w, s, f
    <2>8. (2 * y) + c < 2 * p
      <3> HIDE DEF y, c, p
      <3> QED
        BY <2>1, <2>2, <2>4, <2>6
    <2>9. b \in 0..LogN
      BY <1>1
    <2> HIDE DEF y, c, p, d
    <2>10. QED
      BY <2>1, <2>2, <2>5, <2>6, <2>7, <2>8, <2>9
  <1> HIDE DEF H
  <1>4. \A b \in 0..LogN : b \in H
    BY <1>1, <1>2, <1>3, Induction
  <1>5. QED
    BY <1>4 DEF H

\* MovedTo is the reversal of the bits of an index.
LEMMA MovedToIs ==
    ASSUME NEW j \in Coefs
    PROVE  MovedTo(j) = BitReversal[j] /\ BitReversal[j] \in Coefs
  <1>1. ASSUME NEW k \in Coefs
        PROVE  BitReversal[k] \in Coefs /\ BitReversal[BitReversal[k]] = k
    <2>1. k \in Nat /\ LogN \in 0..LogN /\ 2^LogN = N
      BY RingAssumption DEF setParameters, Coefs, N
    <2> DEFINE r == Reversed(k)[LogN]
    <2>2. r \in Nat /\ r < N /\ Reversed(r)[LogN] = k % N /\ BitReversal[k] = r
      BY <2>1, ReversedIs, ReversedTwice DEF BitReversal
    <2>3. r \in Coefs
      BY <2>2, Tables DEF Coefs
    <2> HIDE DEF r
    <2>4. BitReversal[r] = k % N
      BY <2>2, <2>3, ReversedIs DEF BitReversal
    <2>5. k % N = k
      BY Tables DEF Coefs
    <2>6. QED
      BY <2>2, <2>3, <2>4, <2>5
  <1>2. BitReversal[j] \in Coefs /\ BitReversal[BitReversal[j]] = j
    BY <1>1
  <1>3. MovedTo(j) \in Coefs /\ BitReversal[MovedTo(j)] = j
    BY <1>2 DEF MovedTo
  <1>4. BitReversal[BitReversal[MovedTo(j)]] = MovedTo(j)
    BY <1>1, <1>3
  <1>5. QED
    BY <1>2, <1>3, <1>4

\* BitReverse keeps the invariant, and is the step of the ring of that name.
LEMMA BitReverseStep ==
    ASSUME IInv, NEW d \in Dest, BitReverse(d)
    PROVE  IInv' /\ Abstract!Next
  <1> DEFINE g == [i \in Rows |-> [j \in Coefs |-> Residues.a[i][BitReversal[j]]]]
  <1>1. TypeOK /\ d \in Regs /\ d \in Dest /\ Last \in Level
    BY Tables DEF IInv, Dest, Regs
  <1>2. /\ Frame(Last, d) /\ call' = [op |-> "permute", lvl |-> Last, dst |-> d, arg |-> BitReversal]
        /\ \A i \in 1..Last, j \in Coefs :
              reg'[d][i][j] = reg.a[i][MovedTo(j)] /\ lim'[d][i] = lim.a[i]
    <2> DEFINE f(x) == [j \in Coefs |-> x[MovedTo(j)]]
    <2>1. ByRow("permute", Last, d, BitReversal, LAMBDA x, y, z, i : f(x), Always, LAMBDA la, lb, lc, m : la)
      BY Zenon DEF BitReverse
    <2>2. \A x, j : j \in Coefs => f(x)[j] = x[MovedTo(j)]
      OBVIOUS
    <2> HIDE DEF f
    <2>3. \A x : f(x) = [j \in Coefs |-> f(x)[j]]
      BY DEF f
    <2>4. /\ Frame(Last, d) /\ call' = [op |-> "permute", lvl |-> Last, dst |-> d, arg |-> BitReversal]
          /\ \A i \in 1..Last : reg'[d][i] = f(reg.a[i]) /\ lim'[d][i] = lim.a[i]
      BY <1>1, <2>1, <2>3 DEF ByRow, TypeOK, Frame, Level, Rows, Always
    <2>5. QED
      BY <2>2, <2>4
  <1>3. ASSUME NEW i \in 1..Last, NEW j \in Coefs
        PROVE  Bounded(reg'[d][i][j], lim'[d][i], g[i][j], q(i))
    <2>1. i \in Rows
      BY <1>1 DEF Level, Rows
    <2>2. /\ MovedTo(j) \in Coefs /\ reg'[d][i][j] = reg.a[i][MovedTo(j)] /\ lim'[d][i] = lim.a[i]
          /\ g[i][j] = Residues.a[i][MovedTo(j)]
      BY <1>2, <2>1, MovedToIs
    <2> HIDE DEF g
    <2>3. Bounded(reg.a[i][MovedTo(j)], lim.a[i], Residues.a[i][MovedTo(j)], q(i))
      BY <2>1, <2>2, Operand DEF Regs
    <2>4. QED
      BY <2>2, <2>3
  <1>4. IInv' /\ Moves(Last, d, g)
    <2>1. Table(g)
      BY DEF Table
    <2> HIDE DEF g
    <2>2. QED
      BY <1>1, <1>2, <1>3, <2>1, CallStep, Zenon
  <1> DEFINE h(x, y, i) == [j \in Abstract!Coefs |-> x[call'.arg[j]]]
  <1>5. \A i \in Rows : g[i] = h(Residues.a[i], Residues.b[i], i)
    BY <1>2, Tables
  <1> HIDE DEF h, g
  <1>6. Residues' = [Residues EXCEPT ![d] =
            [i \in Rows |-> IF i > Last THEN @[i] ELSE h(Residues.a[i], Residues.b[i], i)]]
    BY <1>4, <1>5 DEF Moves
  <1>7. Abstract!DoesRow("permute", LAMBDA x, y, z, i : h(x, y, i))
    BY <1>2, <1>6, Tables DEF Abstract!DoesRow
  <1>8. QED
    BY <1>4, <1>7, Zenon DEF Abstract!Next, Abstract!Structure, h
-----------------------------------------------------------------------------
(* Products of polynomials *)
\* The k-th term of coefficient j of the product of x and y, in words and in
\* integers.
WordTerm(x, y, i, j, k) ==
    IF k <= j THEN MRed(x[k], y[j - k], q(i), mred(i))
    ELSE q(i) - MRed(x[k], y[N + j - k], q(i), mred(i))

Term(x, y, j, k) == IF k <= j THEN x[k] * y[j - k] ELSE -(x[k] * y[N + j - k])
WordTerms(x, y, i, j) == \A k \in Coefs : WordTerm(x, y, i, j, k) \in 0..q(i)
Terms(x, y, j) == \A k \in Coefs : Term(x, y, j, k) \in Int
WordSums(s, x, y, i, j) ==
    /\ s[0] = 0 /\ \A k \in 0..N : s[k] \in 0..(q(i) - 1)
    /\ \A k \in 1..N : s[k] = (s[k-1] + WordTerm(x, y, i, j, k - 1)) % q(i)

Sums(a, x, y, j) ==
    /\ a[0] = 0 /\ \A k \in 0..N : a[k] \in Int
    /\ \A k \in 1..N : a[k] = a[k-1] + Term(x, y, j, k - 1)

Alike(m, n, c, D, A, s, a) ==
    /\ s[0] = 0 /\ a[0] = 0 /\ \A k \in 0..n : s[k] \in Int /\ a[k] \in Int
    /\ \A k \in 1..n : /\ D[k] \in Int /\ A[k] \in Int /\ (D[k] * c) % m = A[k] % m
                       /\ s[k] = (s[k-1] + D[k]) % m /\ a[k] = a[k-1] + A[k]

\* Words reduced after every term add up to the sum of the terms.
LEMMA SumsMove ==
    ASSUME NEW m \in Nat \ {0}, NEW n \in Nat, NEW c \in Int,
           NEW D, NEW A, NEW s, NEW a, Alike(m, n, c, D, A, s, a)
    PROVE  (s[n] * c) % m = a[n] % m
  <1> DEFINE H == {k \in 0..n : (s[k] * c) % m = a[k] % m}
  <1>1. 0 \in H
    <2>1. 0 * c = 0 /\ 0 \in 0..n
      OBVIOUS
    <2>2. QED
      BY <2>1 DEF Alike
  <1>2. ASSUME NEW k \in 1..n, k - 1 \in H PROVE k \in H
    <2> DEFINE t == s[k-1]
               b == a[k-1]
               w == D[k]
               z == A[k]
    <2>1. k \in 0..n /\ k - 1 \in 0..n
      OBVIOUS
    <2>2. t \in Int /\ b \in Int /\ w \in Int /\ z \in Int /\ (w * c) % m = z % m /\ (t * c) % m = b % m
          /\ s[k] = (t + w) % m /\ a[k] = b + z
      BY <1>2, <2>1 DEF Alike
    <2> HIDE DEF t, b, w, z, H
    <2>3. t + w \in Int /\ t * c \in Int /\ w * c \in Int /\ (t + w) * c = (t * c) + (w * c)
      BY <2>2
    <2>4. (((t + w) % m) * c) % m = ((t + w) * c) % m
      BY <2>3, ModProd, Zenon
    <2>5. (((t * c) % m) + ((w * c) % m)) % m = ((t * c) + (w * c)) % m
      BY <2>3, ModSum, Zenon
    <2>6. ((b % m) + (z % m)) % m = (b + z) % m
      BY <2>2, ModSum, Zenon
    <2>7. (s[k] * c) % m = a[k] % m
      BY <2>2, <2>3, <2>4, <2>5, <2>6, Zenon
    <2>8. QED
      BY <2>1, <2>7 DEF H
  <1> HIDE DEF H
  <1>3. \A k \in 0..n : k \in H
    BY <1>1, <1>2, Induction
  <1>4. n \in 0..n
    OBVIOUS
  <1>5. QED
    BY <1>3, <1>4 DEF H

\* What the loop of the schoolbook product computes.
LEMMA ConvolutionIs ==
    ASSUME NEW i, Fits(i), NEW x, NEW y, NEW j \in Coefs,
           WordTerms(x, y, i, j)
    PROVE  \E s : Convolution(x, y, i)[j] = s[N] /\ WordSums(s, x, y, i, j)
  <1> DEFINE n == N
             S == 0..(q(i) - 1)
             next(k, s) == CRed(Wrap(s + WordTerm(x, y, i, j, k - 1)), q(i))
             term(k) == IF k <= j THEN MRed(x[k], y[j - k], q(i), mred(i))
                        ELSE q(i) - MRed(x[k], y[N + j - k], q(i), mred(i))
             sum[k \in 0..N] == IF k = 0 THEN 0 ELSE CRed(Wrap(sum[k-1] + term(k-1)), q(i))
             sums[k \in 0..N] == IF k = 0 THEN 0 ELSE next(k, sums[k-1])
  <1>1. Convolution(x, y, i)[j] = sum[N]
    BY DEF Convolution
  <1>2. n \in Nat /\ q(i) \in Nat \ {0} /\ 8 * q(i) < R /\ 0 \in S /\ N \in Nat \ {0}
    BY Tables DEF Fits, Good
  <1>3. \A k \in 1..n, s \in S : next(k, s) \in S /\ next(k, s) = (s + WordTerm(x, y, i, j, k - 1)) % q(i)
    <2>1. SUFFICES ASSUME NEW k \in 1..n, NEW s \in S
                   PROVE  next(k, s) \in S /\ next(k, s) = (s + WordTerm(x, y, i, j, k - 1)) % q(i)
      OBVIOUS
    <2> DEFINE t == WordTerm(x, y, i, j, k - 1)
               m == q(i)
               e == s + t
    <2>2. k - 1 \in Coefs
      BY <1>2 DEF Coefs
    <2>3. t \in 0..m /\ m \in Nat \ {0} /\ 8 * m < R /\ s \in 0..(m - 1)
      BY <1>2, <2>2 DEF WordTerms
    <2> HIDE DEF t, m
    <2>4. e \in 0..((2 * m) - 1)
      BY <2>3
    <2> HIDE DEF e
    <2>5. Bounded(CRed(Wrap(e), m), m, e % m, m)
      BY <2>3, <2>4, Corrected
    <2>6. CRed(Wrap(e), m) \in 0..(m - 1) /\ CRed(Wrap(e), m) = e % m
      BY <2>3, <2>5 DEF Bounded
    <2>7. QED
      BY <2>6 DEF e, t, m
  <1>4. \A k \in 1..n, s \in S : next(k, s) \in S
    BY <1>3
  <1>5. sum = sums
    BY DEF WordTerm
  <1>6. sums = [k \in 0..n |-> IF k = 0 THEN 0 ELSE next(k, sums[k-1])]
    <2> DEFINE g == [k \in 1..n |-> [s \in S |-> next(k, s)]]
    <2>1. g \in [1..n -> [S -> S]]
      BY <1>2, <1>4
    <2> HIDE DEF g, S, n, sums
    <2>2. PICK f \in [0..n -> S] : Follows(f, n, 0, g)
      BY <1>2, <1>4, <2>1, Recursion, Zenon
    <2>3. ASSUME NEW k \in 1..n PROVE f[k] = next(k, f[k - 1])
      <3>1. k - 1 \in 0..n
        BY <1>2, <1>4
      <3>2. f[k - 1] \in S /\ f[k] = g[k][f[k - 1]]
        BY <2>2, <3>1 DEF Follows
      <3>3. \A s \in S : g[k][s] = next(k, s)
        BY Zenon DEF g
      <3>4. QED
        BY <3>2, <3>3, Zenon
    <2>4. f = [k \in 0..n |-> IF k = 0 THEN 0 ELSE next(k, f[k-1])]
      <3>1. \A k \in 0..n : k # 0 => k \in 1..n
        BY <1>2, <1>4
      <3>2. f[0] = 0 /\ f = [k \in 0..n |-> f[k]]
        BY <2>2 DEF Follows
      <3> HIDE DEF next
      <3>3. \A k \in 0..n : f[k] = IF k = 0 THEN 0 ELSE next(k, f[k-1])
        BY <2>3, <3>1, <3>2
      <3>4. QED
        BY <3>2, <3>3, Zenon
    <2>5. QED
      BY <2>4 DEF sums, n
  <1> HIDE DEF sums
  <1>7. \A k \in 0..n : sums[k] \in S
    <2>1. 0 \in 0..n /\ sums[0] \in S
      BY <1>2, <1>6
    <2>2. ASSUME NEW k \in 1..n, sums[k-1] \in S PROVE sums[k] \in S
      <3>1. k \in 0..n /\ k # 0
        BY <1>2
      <3> HIDE DEF next
      <3>2. sums[k] = next(k, sums[k-1])
        BY <1>6, <3>1
      <3>3. QED
        BY <1>4, <2>2, <3>2
    <2> HIDE DEF S, n
    <2>3. QED
      BY <1>2, <2>1, <2>2, StaysIn
  <1>8. sums[0] = 0
    BY <1>2, <1>6
  <1>9. ASSUME NEW k \in 1..n
        PROVE  sums[k] = (sums[k-1] + WordTerm(x, y, i, j, k - 1)) % q(i)
    <2>1. k \in 0..n /\ k # 0 /\ k - 1 \in 0..n
      BY <1>2
    <2>2. sums[k - 1] \in S
      BY <1>7, <2>1
    <2>3. sums[k] = next(k, sums[k-1])
      <3> HIDE DEF next
      <3> QED
        BY <1>6, <2>1
    <2>4. next(k, sums[k-1]) = (sums[k-1] + WordTerm(x, y, i, j, k - 1)) % q(i)
      <3> HIDE DEF next, S
      <3> QED
        BY <1>3, <2>2
    <2>5. QED
      BY <2>3, <2>4
  <1>10. /\ Convolution(x, y, i)[j] = sums[N] /\ sums[0] = 0
         /\ \A k \in 0..N : sums[k] \in 0..(q(i) - 1)
         /\ \A k \in 1..N : sums[k] = (sums[k-1] + WordTerm(x, y, i, j, k - 1)) % q(i)
    BY <1>1, <1>5, <1>7, <1>8, <1>9, Zenon
  <1>11. QED
    BY <1>10 DEF WordSums

\* NegacyclicProduct is the sum of its terms.
LEMMA ProductIs ==
    ASSUME NEW i, Fits(i), NEW x, NEW y, NEW j \in Coefs, Terms(x, y, j)
    PROVE  \E a : Abstract!NegacyclicProduct(x, y, i)[j] = a[N] % q(i) /\ Sums(a, x, y, j)
  <1> DEFINE n == N
             S == Int
             next(k, s) == s + Term(x, y, j, k - 1)
             term(k) == IF k <= j THEN x[k] * y[j - k] ELSE -(x[k] * y[N + j - k])
             sum[k \in 0..N] == IF k = 0 THEN 0 ELSE sum[k-1] + term(k-1)
             sums[k \in 0..N] == IF k = 0 THEN 0 ELSE next(k, sums[k-1])
  <1>1. Abstract!NegacyclicProduct(x, y, i)[j] = sum[N] % q(i)
    BY Tables DEF Abstract!NegacyclicProduct, q
  <1>2. n \in Nat /\ 0 \in S /\ N \in Nat \ {0}
    BY Tables
  <1>3. \A k \in 1..n, s \in S : next(k, s) \in S
    <2>1. \A k \in 1..n : k - 1 \in Coefs
      BY <1>2 DEF Coefs
    <2>2. \A k \in 1..n : Term(x, y, j, k - 1) \in Int
      BY <2>1 DEF Terms
    <2>3. QED
      BY <2>2
  <1>4. sum = sums
    BY DEF Term
  <1>5. sums = [k \in 0..n |-> IF k = 0 THEN 0 ELSE next(k, sums[k-1])]
    <2> DEFINE g == [k \in 1..n |-> [s \in S |-> next(k, s)]]
    <2>1. g \in [1..n -> [S -> S]]
      BY <1>2, <1>3
    <2> HIDE DEF g, S, n, sums
    <2>2. PICK f \in [0..n -> S] : Follows(f, n, 0, g)
      BY <1>2, <1>3, <2>1, Recursion, Zenon
    <2>3. ASSUME NEW k \in 1..n PROVE f[k] = next(k, f[k - 1])
      <3>1. k - 1 \in 0..n
        BY <1>2, <1>3
      <3>2. f[k - 1] \in S /\ f[k] = g[k][f[k - 1]]
        BY <2>2, <3>1 DEF Follows
      <3>3. \A s \in S : g[k][s] = next(k, s)
        BY Zenon DEF g
      <3>4. QED
        BY <3>2, <3>3, Zenon
    <2>4. f = [k \in 0..n |-> IF k = 0 THEN 0 ELSE next(k, f[k-1])]
      <3>1. \A k \in 0..n : k # 0 => k \in 1..n
        BY <1>2, <1>3
      <3>2. f[0] = 0 /\ f = [k \in 0..n |-> f[k]]
        BY <2>2 DEF Follows
      <3> HIDE DEF next
      <3>3. \A k \in 0..n : f[k] = IF k = 0 THEN 0 ELSE next(k, f[k-1])
        BY <2>3, <3>1, <3>2
      <3>4. QED
        BY <3>2, <3>3, Zenon
    <2>5. QED
      BY <2>4 DEF sums, n
  <1> HIDE DEF sums
  <1>6. \A k \in 0..n : sums[k] \in S
    <2>1. 0 \in 0..n /\ sums[0] \in S
      BY <1>2, <1>5
    <2>2. ASSUME NEW k \in 1..n, sums[k-1] \in S PROVE sums[k] \in S
      <3>1. k \in 0..n /\ k # 0
        BY <1>2
      <3> HIDE DEF next
      <3>2. sums[k] = next(k, sums[k-1])
        BY <1>5, <3>1
      <3>3. QED
        BY <1>3, <2>2, <3>2
    <2> HIDE DEF S, n
    <2>3. QED
      BY <1>2, <2>1, <2>2, StaysIn
  <1>7. sums[0] = 0
    BY <1>2, <1>5
  <1>8. ASSUME NEW k \in 1..n
        PROVE  sums[k] = sums[k-1] + Term(x, y, j, k - 1)
    <2>1. k \in 0..n /\ k # 0
      BY <1>2
    <2>2. sums[k] = next(k, sums[k-1])
      <3> HIDE DEF next
      <3> QED
        BY <1>5, <2>1
    <2>3. QED
      BY <2>2
  <1>9. /\ Abstract!NegacyclicProduct(x, y, i)[j] = sums[N] % q(i) /\ sums[0] = 0
        /\ \A k \in 0..N : sums[k] \in Int
        /\ \A k \in 1..N : sums[k] = sums[k-1] + Term(x, y, j, k - 1)
    BY <1>1, <1>4, <1>6, <1>7, <1>8, Zenon
  <1>10. QED
    BY <1>9 DEF Sums

\* The convolution of two rows of words is the product of their residues.
LEMMA ConvolutionWord ==
    ASSUME NEW i, Fits(i), NEW x, NEW y, NEW X, NEW Y, NEW j \in Coefs, NEW c \in Int,
           WordTerms(x, y, i, j), Terms(X, Y, j),
           \A k \in Coefs : (WordTerm(x, y, i, j, k) * c) % q(i) = Term(X, Y, j, k) % q(i)
    PROVE  /\ Convolution(x, y, i)[j] \in 0..(q(i) - 1)
           /\ (Convolution(x, y, i)[j] * c) % q(i) = Abstract!NegacyclicProduct(X, Y, i)[j]
           /\ Abstract!NegacyclicProduct(X, Y, i)[j] \in 0..(q(i) - 1)
  <1> DEFINE m == q(i)
             n == N
             D == [k \in 1..n |-> WordTerm(x, y, i, j, k - 1)]
             A == [k \in 1..n |-> Term(X, Y, j, k - 1)]
  <1>1. m \in Nat \ {0} /\ n \in Nat \ {0}
    BY Tables DEF Fits, Good
  <1>2. PICK s : Convolution(x, y, i)[j] = s[N] /\ WordSums(s, x, y, i, j)
    BY ConvolutionIs, Zenon
  <1>3. PICK a : Abstract!NegacyclicProduct(X, Y, i)[j] = a[N] % q(i) /\ Sums(a, X, Y, j)
    BY ProductIs, Zenon
  <1>4. ASSUME NEW k \in 1..n
        PROVE  /\ D[k] \in Int /\ A[k] \in Int /\ (D[k] * c) % m = A[k] % m
               /\ s[k] = (s[k-1] + D[k]) % m /\ a[k] = a[k-1] + A[k]
    <2>1. k - 1 \in Coefs
      BY <1>1 DEF Coefs
    <2>2. WordTerm(x, y, i, j, k - 1) \in Int
      BY <1>1, <2>1 DEF WordTerms
    <2>3. Term(X, Y, j, k - 1) \in Int
      BY <2>1 DEF Terms
    <2>4. QED
      BY <1>2, <1>3, <2>1, <2>2, <2>3 DEF WordSums, Sums
  <1>5. \A k \in 0..n : s[k] \in Int /\ a[k] \in Int
    BY <1>1, <1>2, <1>3 DEF WordSums, Sums
  <1>6. s[n] \in 0..(m - 1) /\ Abstract!NegacyclicProduct(X, Y, i)[j] = a[n] % m /\ a[n] \in Int
        /\ Convolution(x, y, i)[j] = s[n] /\ s[0] = 0 /\ a[0] = 0
    BY <1>1, <1>2, <1>3 DEF WordSums, Sums
  <1> HIDE DEF n, m, D, A
  <1>7. (s[n] * c) % m = a[n] % m
    <2>1. n \in Nat
      BY <1>1
    <2>2. Alike(m, n, c, D, A, s, a)
      BY <1>4, <1>5, <1>6 DEF Alike
    <2>3. QED
      BY <1>1, <2>1, <2>2, SumsMove
  <1>8. a[n] % m \in 0..(m - 1)
    BY <1>1, <1>6
  <1>9. QED
    BY <1>6, <1>7, <1>8 DEF m

\* A term of MulPolyNaiveMontgomery, of operands in the Montgomery domain.
LEMMA TermMont ==
    ASSUME NEW m, NEW qInv, NEW u, NEW v, Good(m, qInv, u, v),
           NEW x, NEW xt, NEW xr, Bounded(x, xt, xr, m), NEW y, NEW yt, NEW yr, Bounded(y, yt, yr, m),
           Montgomery(xt, yt, m)
    PROVE  MRed(x, y, m, qInv) \in 0..(m - 1) /\ (MRed(x, y, m, qInv) * R) % m = (xr * yr) % m
           /\ xr * yr \in Int
  <1> DEFINE p == MRed(x, y, m, qInv)
             e == (xr * yr) % m
             f == e * v
  <1>1. p \in 0..(m - 1) /\ p % m = f % m
    BY Mont
  <1>2. m \in Nat \ {0} /\ v \in Int /\ (v * R) % m = 1 /\ v * R \in Int /\ R \in Int /\ xr * yr \in Int
        /\ p \in Int /\ 1 \in Int
    BY <1>1, RAssumption DEF Good, Bounded
  <1> HIDE DEF p
  <1>3. e \in Int /\ f \in Int /\ e % m = e
    <2> DEFINE w == xr * yr
    <2>1. e \in Int /\ e % m = e
      <3>1. w \in Int
        BY <1>2
      <3> HIDE DEF w
      <3>2. w % m \in 0..(m - 1) /\ (w % m) % m = w % m
        BY <1>2, <3>1, ModSmall, Zenon
      <3>3. QED
        BY <1>2, <3>2 DEF w
    <2> HIDE DEF e
    <2>2. QED
      BY <1>2, <2>1
  <1>4. (p * R) % m = ((p % m) * R) % m
    BY <1>2, ModProd, Zenon
  <1>5. (f * R) % m = ((f % m) * R) % m
    <2> HIDE DEF f
    <2>1. QED
      BY <1>2, <1>3, ModProd, Zenon
  <1>6. ((v * R) * e) % m = (((v * R) % m) * e) % m
    <2> HIDE DEF e
    <2>1. QED
      BY <1>2, <1>3, ModProd, Zenon
  <1>7. f * R = (v * R) * e /\ 1 * e = e
    <2> HIDE DEF e
    <2>1. QED
      BY <1>2, <1>3
  <1> HIDE DEF e, f
  <1>8. (p * R) % m = e
    BY <1>1, <1>2, <1>3, <1>4, <1>5, <1>6, <1>7
  <1>9. QED
    BY <1>1, <1>2, <1>8 DEF p, e

\* A term of MulPolyNaive, of one operand brought to the Montgomery domain.
LEMMA TermPlain ==
    ASSUME NEW m, NEW qInv, NEW u, NEW v, Good(m, qInv, u, v),
           NEW z, NEW xr \in Int, Bounded(z, m, (xr * R) % m, m), NEW y, NEW yt, NEW yr, Bounded(y, yt, yr, m)
    PROVE  MRed(z, y, m, qInv) \in 0..(m - 1) /\ (MRed(z, y, m, qInv) * 1) % m = (xr * yr) % m
           /\ xr * yr \in Int
  <1> DEFINE p == MRed(z, y, m, qInv)
             g == xr * R
             e == xr * yr
             zr == g % m
             t == e * R
  <1>1. m \in Nat \ {0} /\ v \in Int /\ (v * R) % m = 1 /\ R \in Nat /\ yr \in Int /\ yt \in 1..R
    BY RAssumption DEF Good, Bounded
  <1>2. Montgomery(m, yt, m)
    <2>1. yt - 1 \in Nat /\ yt - 1 < R /\ m - 1 \in Nat
      BY <1>1
    <2> DEFINE b == yt - 1
    <2> HIDE DEF b
    <2>2. b \in Nat /\ b < R
      BY <2>1 DEF b
    <2>3. (m - 1) * b = (m * b) - b /\ m * b \in Int /\ m * R \in Int /\ m * b <= m * R
      BY <1>1, <2>2
    <2>4. m * b < m * R
      <3> DEFINE c == m * (R - b)
      <3>1. m * R = (m * b) + c /\ c \in Nat \ {0}
        BY <1>1, <2>2
      <3> HIDE DEF c
      <3>2. QED
        BY <2>3, <3>1
    <2>5. QED
      BY <2>2, <2>3, <2>4 DEF Montgomery, b
  <1>3. g \in Int /\ e \in Int /\ t \in Int /\ g * yr = t /\ zr \in Int
    <2>1. g \in Int /\ e \in Int
      BY <1>1
    <2>2. g * yr = t
      BY <1>1
    <2>3. zr \in Int
      <3> HIDE DEF g
      <3> QED
        BY <1>1, <2>1
    <2> HIDE DEF e
    <2>4. t \in Int
      BY <1>1, <2>1
    <2>5. QED
      BY <2>1, <2>2, <2>3, <2>4
  <1>4. p \in 0..(m - 1) /\ (p * R) % m = (zr * yr) % m
    <2>1. Bounded(z, m, zr, m)
      OBVIOUS
    <2> HIDE DEF zr
    <2>2. QED
      BY <1>2, <2>1, TermMont
  <1> HIDE DEF p
  <1>5. (zr * yr) % m = (g * yr) % m
    <2> HIDE DEF g
    <2>1. QED
      BY <1>1, <1>3, ModProd, Zenon
  <1> HIDE DEF zr, g
  <1>6. (p * R) % m = t % m /\ (e * R) % m = t % m /\ p \in Int
    BY <1>1, <1>3, <1>4, <1>5
  <1> HIDE DEF e, t
  <1>7. p % m = ((t % m) * v) % m
    <2>1. p \in Int /\ t \in Int /\ v \in Int /\ m \in Nat \ {0} /\ (v * R) % m = 1 /\ (p * R) % m = t % m
      BY <1>1, <1>3, <1>6
    <2>2. QED
      BY <2>1, WithoutRadix, Zenon
  <1>8. e % m = ((t % m) * v) % m
    <2>1. e \in Int /\ t \in Int /\ v \in Int /\ m \in Nat \ {0} /\ (v * R) % m = 1 /\ (e * R) % m = t % m
      BY <1>1, <1>3, <1>6
    <2>2. QED
      BY <2>1, WithoutRadix, Zenon
  <1>9. p * 1 = p
    BY <1>6
  <1>10. QED
    BY <1>3, <1>4, <1>7, <1>8, <1>9 DEF p, e

\* A product is subtracted by adding its difference from the modulus.
LEMMA TermTaken ==
    ASSUME NEW m \in Nat \ {0}, NEW p \in 0..(m - 1), NEW c \in Int, NEW e \in Int, (p * c) % m = e % m
    PROVE  m - p \in 0..m /\ ((m - p) * c) % m = (-e) % m /\ -e \in Int /\ p \in 0..m
  <1> DEFINE f == p * c
  <1>1. f \in Int /\ -f \in Int /\ (m - p) * c = (-f) + (c * m) /\ p \in Int
    BY DEF f
  <1>2. ((-f) + (c * m)) % m = (-f) % m
    <2> HIDE DEF f
    <2>1. QED
      BY <1>1, ModPlus, Zenon
  <1>3. (-(f % m)) % m = (-f) % m
    <2> HIDE DEF f
    <2>1. QED
      BY <1>1, ModNeg, Zenon
  <1>4. (-(e % m)) % m = (-e) % m
    BY ModNeg, Zenon
  <1>5. m - p \in 0..m /\ -e \in Int /\ p \in 0..m
    OBVIOUS
  <1>6. f % m = e % m
    OBVIOUS
  <1> HIDE DEF f
  <1>7. QED
    BY <1>1, <1>2, <1>3, <1>4, <1>5, <1>6

Similar(i, x, y, X, Y, c) ==
    \A k, h \in Coefs : /\ MRed(x[k], y[h], q(i), mred(i)) \in 0..(q(i) - 1)
                        /\ (MRed(x[k], y[h], q(i), mred(i)) * c) % q(i) = (X[k] * Y[h]) % q(i)
                        /\ X[k] * Y[h] \in Int

\* Term by term, the words are the integers.
LEMMA TermsMove ==
    ASSUME NEW i, Fits(i), NEW j \in Coefs, NEW c \in Int, NEW x, NEW y, NEW X, NEW Y,
           Similar(i, x, y, X, Y, c)
    PROVE  /\ WordTerms(x, y, i, j) /\ Terms(X, Y, j)
           /\ \A k \in Coefs : (WordTerm(x, y, i, j, k) * c) % q(i) = Term(X, Y, j, k) % q(i)
  <1> DEFINE m == q(i)
             p(k, h) == MRed(x[k], y[h], m, mred(i))
             e(k, h) == X[k] * Y[h]
  <1>1. m \in Nat \ {0} /\ N \in Nat \ {0}
    BY Tables DEF Fits, Good
  <1> USE DEF Similar
  <1>2. ASSUME NEW k \in Coefs
        PROVE  /\ WordTerm(x, y, i, j, k) \in 0..m /\ Term(X, Y, j, k) \in Int
               /\ (WordTerm(x, y, i, j, k) * c) % m = Term(X, Y, j, k) % m
    <2>1. CASE k <= j
      <3>1. j - k \in Coefs
        BY <1>1, <2>1 DEF Coefs
      <3> DEFINE w == p(k, j - k)
                 z == e(k, j - k)
      <3>2. w \in 0..(m - 1) /\ (w * c) % m = z % m /\ z \in Int
        BY <3>1
      <3>3. WordTerm(x, y, i, j, k) = w /\ Term(X, Y, j, k) = z
        BY <2>1 DEF WordTerm, Term
      <3> HIDE DEF w, z, m
      <3>4. QED
        BY <1>1, <3>2, <3>3
    <2>2. CASE ~(k <= j)
      <3>1. N + j - k \in Coefs
        BY <1>1, <2>2 DEF Coefs
      <3> DEFINE w == p(k, N + j - k)
                 z == e(k, N + j - k)
      <3>2. w \in 0..(m - 1) /\ (w * c) % m = z % m /\ z \in Int
        BY <3>1
      <3>3. WordTerm(x, y, i, j, k) = m - w /\ Term(X, Y, j, k) = -z
        BY <2>2 DEF WordTerm, Term
      <3> HIDE DEF w, z, m
      <3>4. m - w \in 0..m /\ ((m - w) * c) % m = (-z) % m /\ -z \in Int
        BY <1>1, <3>2, TermTaken
      <3>5. QED
        BY <3>3, <3>4
    <2>3. QED
      BY <2>1, <2>2
  <1>3. QED
    BY <1>2 DEF WordTerms, Terms

\* MulPolyNaive keeps the invariant, and is the step of the ring of that name.
LEMMA MulPolyNaiveStep ==
    ASSUME IInv, NEW d \in Dest, MulPolyNaive(d)
    PROVE  IInv' /\ Abstract!Next
  <1> DEFINE np(i) == Abstract!NegacyclicProduct(Residues.a[i], Residues.b[i], i)
             g == [i \in Rows |-> np(i)]
  <1>1. TypeOK /\ d \in Regs /\ d \in Dest /\ Last \in Level
    BY Tables DEF IInv, Dest, Regs
  <1>2. /\ Frame(Last, d) /\ call' = [op |-> "product", lvl |-> Last, dst |-> d, arg |-> 0]
        /\ \A i \in 1..Last : TRUE
        /\ \A i \in 1..Last, j \in Coefs :
              reg'[d][i][j] = Convolution(ToMontRow(reg.a[i], i), reg.b[i], i)[j] /\ lim'[d][i] = q(i)
    <2> DEFINE f(x, y, i) == Convolution(ToMontRow(x, i), y, i)
    <2>1. \A x, y, i : f(x, y, i) = [j \in Coefs |-> f(x, y, i)[j]]
      BY DEF Convolution
    <2>2. ByRow("product", Last, d, 0, LAMBDA x, y, z, i : f(x, y, i),
                Always, BelowQ)
      BY Zenon DEF MulPolyNaive
    <2> HIDE DEF f
    <2>3. /\ Frame(Last, d) /\ call' = [op |-> "product", lvl |-> Last, dst |-> d, arg |-> 0]
          /\ \A i \in 1..Last : TRUE
          /\ \A i \in 1..Last : reg'[d][i] = f(reg.a[i], reg.b[i], i) /\ lim'[d][i] = q(i)
      BY <1>1, <2>1, <2>2 DEF ByRow, TypeOK, Frame, Level, Rows, Always, BelowQ
    <2>4. QED
      BY <2>3 DEF f
  <1>3. ASSUME NEW i \in 1..Last, NEW j \in Coefs
        PROVE  Bounded(reg'[d][i][j], lim'[d][i], g[i][j], q(i))
    <2> DEFINE X == Residues.a[i]
               Y == Residues.b[i]
               x == ToMontRow(reg.a[i], i)
               y == reg.b[i]
               s == Convolution(x, y, i)[j]
               e == np(i)[j]
               m == q(i)
    <2>1. i \in Rows /\ Fits(i) /\ 1 \in Int /\ R \in Int
      BY <1>1, ModulusFits, RAssumption DEF Level, Rows
    <2>2. \A k \in Coefs : /\ Bounded(reg.a[i][k], lim.a[i], X[k], m)
                           /\ Bounded(y[k], lim.b[i], Y[k], m)
      BY <2>1, Operand DEF Regs
    <2>3. Similar(i, x, y, X, Y, 1)
      <3> SUFFICES \A k, h \in Coefs : /\ MRed(x[k], y[h], m, mred(i)) \in 0..(m - 1)
                                        /\ (MRed(x[k], y[h], m, mred(i)) * 1) % m = (X[k] * Y[h]) % m
                                        /\ X[k] * Y[h] \in Int
        BY DEF Similar
      <3>1. SUFFICES ASSUME NEW k \in Coefs, NEW h \in Coefs
                     PROVE  /\ MRed(x[k], y[h], m, mred(i)) \in 0..(m - 1)
                            /\ (MRed(x[k], y[h], m, mred(i)) * 1) % m = (X[k] * Y[h]) % m
                            /\ X[k] * Y[h] \in Int
        OBVIOUS
      <3>2. x[k] = ToMont(reg.a[i][k], i) /\ Bounded(y[h], lim.b[i], Y[h], m)
        BY <2>2 DEF ToMontRow
      <3>3. reg.a[i][k] \in 0..(R - 1) /\ X[k] = reg.a[i][k] % m /\ X[k] \in Int
        BY <2>1, <2>2, RAssumption DEF Bounded, Fits, Good
      <3> HIDE DEF m
      <3>4. Bounded(x[k], m, (X[k] * R) % m, m)
        BY <2>1, <3>2, <3>3, ToMontOf DEF m
      <3> HIDE DEF x, y, X, Y
      <3>5. Good(m, mred(i), bred(i), Abstract!RadixInv[i])
        BY <2>1 DEF Fits, m
      <3> DEFINE p == MRed(x[k], y[h], m, mred(i))
                 a == X[k]
                 b == Y[h]
                 z == x[k]
                 t == y[h]
                 qInv == mred(i)
                 u == bred(i)
                 v == Abstract!RadixInv[i]
                 yt == lim.b[i]
      <3>6. Good(m, qInv, u, v) /\ a \in Int /\ Bounded(z, m, (a * R) % m, m) /\ Bounded(t, yt, b, m)
        BY <3>2, <3>3, <3>4, <3>5
      <3> HIDE DEF p, a, b, z, t, qInv, u, v, yt
      <3>7. MRed(z, t, m, qInv) \in 0..(m - 1) /\ (MRed(z, t, m, qInv) * 1) % m = (a * b) % m
            /\ a * b \in Int
        BY ONLY <3>6, TermPlain
      <3>8. QED
        BY <3>7 DEF p, a, b, z, t, qInv
    <2>4. g[i][j] = e
      BY <2>1 DEF q
    <2>5. reg'[d][i][j] = s /\ lim'[d][i] = m
      BY <1>2
    <2> HIDE DEF g, np, X, Y, x, y
    <2>6. /\ WordTerms(x, y, i, j) /\ Terms(X, Y, j)
          /\ \A k \in Coefs : (WordTerm(x, y, i, j, k) * 1) % q(i) = Term(X, Y, j, k) % q(i)
      BY <2>1, <2>3, TermsMove
    <2>7. s \in 0..(m - 1) /\ (s * 1) % m = Abstract!NegacyclicProduct(X, Y, i)[j]
          /\ Abstract!NegacyclicProduct(X, Y, i)[j] \in 0..(m - 1)
      BY <2>1, <2>6, ConvolutionWord
    <2>8. s \in 0..(m - 1) /\ (s * 1) % m = e /\ e \in 0..(m - 1)
      BY <2>7 DEF np, X, Y
    <2>9. m \in Nat \ {0} /\ m \in 1..R /\ (Abstract!RadixInv[i] * R) % m = 1 /\ Abstract!RadixInv[i] \in Int
      BY <2>1, RAssumption DEF Fits, Good
    <2> HIDE DEF s, e, m
    <2>10. s % m = e
      BY <2>8, <2>9
    <2>11. QED
      BY <2>4, <2>5, <2>8, <2>9, <2>10 DEF Bounded, m
  <1>4. IInv' /\ Moves(Last, d, g)
    <2>1. Table(g)
      BY Tables DEF Table, Abstract!NegacyclicProduct
    <2> HIDE DEF g
    <2>2. QED
      BY <1>1, <1>2, <1>3, <2>1, CallStep, Zenon
  <1> DEFINE h(x, y, i) == Abstract!NegacyclicProduct(x, y, i)
  <1>5. \A i \in Rows : g[i] = h(Residues.a[i], Residues.b[i], i)
    BY <1>2, Tables
  <1> HIDE DEF h, g
  <1>6. Residues' = [Residues EXCEPT ![d] =
            [i \in Rows |-> IF i > Last THEN @[i] ELSE h(Residues.a[i], Residues.b[i], i)]]
    BY <1>4, <1>5 DEF Moves
  <1>7. Abstract!DoesRow("product", LAMBDA x, y, z, i : h(x, y, i))
    BY <1>2, <1>6, Tables DEF Abstract!DoesRow
  <1>8. QED
    BY <1>4, <1>7, Zenon DEF Abstract!Next, Abstract!Structure, h

\* MulPolyNaiveMontgomery keeps the invariant, and is the step of the ring of
\* that name.
LEMMA MulPolyNaiveMontgomeryStep ==
    ASSUME IInv, NEW d \in Dest, MulPolyNaiveMontgomery(d)
    PROVE  IInv' /\ Abstract!Next
  <1> DEFINE np(i) == Abstract!NegacyclicProduct(Residues.a[i], Residues.b[i], i)
             g == [i \in Rows |-> [j \in Coefs |-> (np(i)[j] * Abstract!RadixInv[i]) % Modulus[i]]]
  <1>1. TypeOK /\ d \in Regs /\ d \in Dest /\ Last \in Level
    BY Tables DEF IInv, Dest, Regs
  <1>2. /\ Frame(Last, d) /\ call' = [op |-> "montproduct", lvl |-> Last, dst |-> d, arg |-> 0]
        /\ \A i \in 1..Last : Montgomery(lim.a[i], lim.b[i], q(i))
        /\ \A i \in 1..Last, j \in Coefs :
              reg'[d][i][j] = Convolution(reg.a[i], reg.b[i], i)[j] /\ lim'[d][i] = q(i)
    <2> DEFINE f(x, y, i) == Convolution(x, y, i)
    <2>1. \A x, y, i : f(x, y, i) = [j \in Coefs |-> f(x, y, i)[j]]
      BY DEF Convolution
    <2>2. ByRow("montproduct", Last, d, 0, LAMBDA x, y, z, i : f(x, y, i),
                LAMBDA la, lb, lc, m : Montgomery(la, lb, m), BelowQ)
      BY Zenon DEF MulPolyNaiveMontgomery
    <2> HIDE DEF f
    <2>3. /\ Frame(Last, d) /\ call' = [op |-> "montproduct", lvl |-> Last, dst |-> d, arg |-> 0]
          /\ \A i \in 1..Last : Montgomery(lim.a[i], lim.b[i], q(i))
          /\ \A i \in 1..Last : reg'[d][i] = f(reg.a[i], reg.b[i], i) /\ lim'[d][i] = q(i)
      BY <1>1, <2>1, <2>2 DEF ByRow, TypeOK, Frame, Level, Rows, Always, BelowQ
    <2>4. QED
      BY <2>3 DEF f
  <1>3. ASSUME NEW i \in 1..Last, NEW j \in Coefs
        PROVE  Bounded(reg'[d][i][j], lim'[d][i], g[i][j], q(i))
    <2> DEFINE X == Residues.a[i]
               Y == Residues.b[i]
               x == reg.a[i]
               y == reg.b[i]
               s == Convolution(x, y, i)[j]
               e == np(i)[j]
               m == q(i)
    <2>1. i \in Rows /\ Fits(i) /\ 1 \in Int /\ R \in Int
      BY <1>1, ModulusFits, RAssumption DEF Level, Rows
    <2>2. \A k \in Coefs : /\ Bounded(reg.a[i][k], lim.a[i], X[k], m)
                           /\ Bounded(y[k], lim.b[i], Y[k], m)
      BY <2>1, Operand DEF Regs
    <2>3. Similar(i, x, y, X, Y, R)
      <3> SUFFICES \A k, h \in Coefs : /\ MRed(x[k], y[h], m, mred(i)) \in 0..(m - 1)
                                        /\ (MRed(x[k], y[h], m, mred(i)) * R) % m = (X[k] * Y[h]) % m
                                        /\ X[k] * Y[h] \in Int
        BY DEF Similar
      <3>1. Montgomery(lim.a[i], lim.b[i], m)
        BY <1>2
      <3> HIDE DEF m, X, Y, y
      <3>2. QED
        BY <2>1, <2>2, <3>1, TermMont DEF Fits, m
    <2>4. g[i][j] = (e * Abstract!RadixInv[i]) % m
      BY <2>1 DEF q
    <2>5. reg'[d][i][j] = s /\ lim'[d][i] = m
      BY <1>2
    <2> HIDE DEF g, np, X, Y, x, y
    <2>6. /\ WordTerms(x, y, i, j) /\ Terms(X, Y, j)
          /\ \A k \in Coefs : (WordTerm(x, y, i, j, k) * R) % q(i) = Term(X, Y, j, k) % q(i)
      BY <2>1, <2>3, TermsMove
    <2>7. s \in 0..(m - 1) /\ (s * R) % m = Abstract!NegacyclicProduct(X, Y, i)[j]
          /\ Abstract!NegacyclicProduct(X, Y, i)[j] \in 0..(m - 1)
      BY <2>1, <2>6, ConvolutionWord
    <2>8. s \in 0..(m - 1) /\ (s * R) % m = e /\ e \in 0..(m - 1)
      BY <2>7 DEF np, X, Y
    <2>9. m \in Nat \ {0} /\ m \in 1..R /\ (Abstract!RadixInv[i] * R) % m = 1 /\ Abstract!RadixInv[i] \in Int
      BY <2>1, RAssumption DEF Fits, Good
    <2> HIDE DEF s, e, m
    <2>10. s % m = (e * Abstract!RadixInv[i]) % m
      <3>1. e % m = e /\ e \in Int /\ s \in Int
        BY <2>8, <2>9
      <3> DEFINE v == Abstract!RadixInv[i]
      <3> HIDE DEF v
      <3>2. v \in Int /\ (v * R) % m = 1
        BY <2>9 DEF v
      <3>3. (s * R) % m = e % m
        BY <2>8, <3>1
      <3>4. s % m = (e * v) % m
        BY ONLY <2>9, <3>1, <3>2, <3>3, WithoutRadix
      <3>5. QED
        BY <3>4 DEF v
    <2>11. QED
      BY <2>4, <2>5, <2>8, <2>9, <2>10 DEF Bounded, m
  <1>4. IInv' /\ Moves(Last, d, g)
    <2>1. Table(g)
      BY Tables DEF Table
    <2> HIDE DEF g
    <2>2. QED
      BY <1>1, <1>2, <1>3, <2>1, CallStep, Zenon
  <1> DEFINE h(x, y, i) ==
                 [j \in Abstract!Coefs |->
                     (Abstract!NegacyclicProduct(x, y, i)[j] * Abstract!RadixInv[i]) % Modulus[i]]
  <1>5. \A i \in Rows : g[i] = h(Residues.a[i], Residues.b[i], i)
    BY <1>2, Tables
  <1> HIDE DEF h, g
  <1>6. Residues' = [Residues EXCEPT ![d] =
            [i \in Rows |-> IF i > Last THEN @[i] ELSE h(Residues.a[i], Residues.b[i], i)]]
    BY <1>4, <1>5 DEF Moves
  <1>7. Abstract!DoesRow("montproduct", LAMBDA x, y, z, i : h(x, y, i))
    BY <1>2, <1>6, Tables DEF Abstract!DoesRow
  <1>8. QED
    BY <1>4, <1>7, Zenon DEF Abstract!Next, Abstract!Structure, h
-----------------------------------------------------------------------------
(* Rotation *)
\* The root of unity behind the tables of row i.
Psi(i) == Pow(primitiveRoot(q(i)) % q(i), RootPower(i), q(i))
\* What the proofs about a row use of its modulus and tables.
LEMMA RowIs ==
    ASSUME NEW i \in Rows
    PROVE  /\ q(i) \in Nat \ {0} /\ 2 <= q(i) /\ 2 * q(i) <= R /\ q(i) \in 1..(R - 1) /\ R \in Nat
           /\ mred(i) \in Nat /\ (q(i) * mred(i)) % R = 1 % R /\ bred(i) = BRedParams(q(i))
           /\ Abstract!RadixInv[i] \in Int /\ (Abstract!RadixInv[i] * R) % q(i) = 1
           /\ RootPower(i) \in Nat /\ q(i) - 1 = RootPower(i) * (2 * N) /\ 2 * N \in 1..(q(i) - 1)
           /\ N \in Nat \ {0} /\ 2 * N \in Nat \ {0}
  <1>1. /\ q(i) \in Nat \ {0} /\ 2 <= q(i) /\ 8 * q(i) < R /\ R \in Nat
        /\ mred(i) \in Nat /\ (q(i) * mred(i)) % R = 1 % R /\ bred(i) = BRedParams(q(i))
        /\ Abstract!RadixInv[i] \in Int /\ (Abstract!RadixInv[i] * R) % q(i) = 1
    BY ModulusFits, RAssumption DEF Fits, Good
  <1> DEFINE w == 2 * N
             m == q(i)
             d == m \div w
             c == m - 1
  <1>2. w \in Nat \ {0} /\ N \in Nat \ {0}
    BY Tables
  <1>3. m % w = 1
    BY RingAssumption DEF setParameters, q
  <1>4. RootPower(i) = c \div w
    BY DEF RootPower, q
  <1> HIDE DEF m, w
  <1>5. d \in Int /\ m % w \in 0..(w - 1) /\ m = (w * d) + (m % w)
    <2>1. m \in Int
      BY <1>1 DEF m
    <2>2. QED
      BY <1>2, <2>1, DivMod, Zenon
  <1>6. d \in Nat
    BY <1>1, <1>2, DivNat DEF m
  <1> HIDE DEF d
  <1>7. c = (w * d) + 0 /\ 0 \in 0..(w - 1) /\ 0 \in Int
    BY <1>2, <1>3, <1>5, <1>6
  <1>8. ((w * d) + 0) \div w = d
    BY <1>2, <1>5, <1>7, DivModUnique, Zenon
  <1> HIDE DEF c
  <1>9. c \div w = d
    BY <1>7, <1>8
  <1>10. c = d * w /\ w \in 1..(m - 1)
    <2>1. c = d * w
      BY <1>2, <1>5, <1>7
    <2>2. c \in Nat \ {0}
      BY <1>1 DEF c, m
    <2>3. d # 0
      BY <1>2, <2>1, <2>2
    <2>4. w <= d * w
      BY <1>2, <1>6, <2>3
    <2>5. c = m - 1 /\ m \in Nat
      BY <1>1 DEF c, m
    <2>6. QED
      BY <1>2, <2>1, <2>2, <2>4, <2>5
  <1>11. QED
    BY <1>1, <1>2, <1>4, <1>6, <1>9, <1>10 DEF m, w, c

\* The table holds the root of the row in the Montgomery domain, and its power
\* 2N is one.
LEMMA PsiIs ==
    ASSUME NEW i \in Rows
    PROVE  /\ Psi(i) \in 0..(q(i) - 1) /\ PsiMont[i] \in 0..(q(i) - 1)
           /\ PsiMont[i] = (Psi(i) * R) % q(i) /\ Pow(Psi(i), 2 * N, q(i)) = 1
  <1> DEFINE m == q(i)
             g == primitiveRoot(m)
             x == g % m
             r == RootPower(i)
             w == 2 * N
             a == ModExp(g, r, m)
             c == m - 1
  <1>1. /\ m \in Nat \ {0} /\ 2 <= m /\ 2 * m <= R /\ m \in 1..(R - 1) /\ R \in Nat /\ bred(i) = BRedParams(m)
        /\ r \in Nat /\ c = r * w /\ w \in 1..(m - 1) /\ w \in Nat
    BY RowIs
  <1>2. g \in 3..m /\ ModExp(g, c, m) = 1 /\ PsiMont[i] = ToMont(a, i)
    BY PrimitiveRoots DEF PsiMont, q
  <1> HIDE DEF m, g, r, w, a, c
  <1>3. g \in 0..m /\ g \in 0..(R - 1) /\ r \in 0..(R - 1) /\ c \in 0..(R - 1)
    <2>1. c \in 0..(R - 1)
      BY <1>1 DEF c
    <2>2. r <= r * w
      BY <1>1
    <2>3. QED
      BY <1>1, <1>2, <2>1, <2>2
  <1>4. x \in 0..(m - 1) /\ x \in Int
    BY <1>1, <1>3
  <1> HIDE DEF x
  <1>5. a \in 0..m /\ a % m = Pow(x, r, m)
    BY <1>1, <1>3, Exponentiation DEF a, x
  <1>6. Psi(i) = Pow(x, r, m) /\ Psi(i) \in 0..(m - 1)
    <2>1. Psi(i) = Pow(x, r, m)
      BY DEF Psi, x, g, m, r
    <2>2. QED
      BY <1>1, <1>4, <2>1, PowSteps
  <1>7. PsiMont[i] = (a * R) % m /\ PsiMont[i] \in 0..(m - 1)
    <2>1. a \in 0..(R - 1)
      BY <1>1, <1>5
    <2>2. MForm(a, m, BRedParams(m)) \in 0..(m - 1) /\ MForm(a, m, BRedParams(m)) = (a * R) % m
      BY <1>1, <2>1, ToMontgomery
    <2>3. ToMont(a, i) = MForm(a, m, BRedParams(m))
      BY <1>1, ToMontIs DEF m
    <2>4. QED
      BY <1>2, <2>2, <2>3
  <1>8. ((a % m) * R) % m = (a * R) % m
    <2>1. a \in Int /\ R \in Int
      BY <1>1, <1>5
    <2>2. QED
      BY <1>1, <2>1, ModProd, Zenon
  <1>9. Pow(Pow(x, r, m), w, m) = 1
    <2>1. Pow(x, r * w, m) = Pow(Pow(x, r, m), w, m)
      BY <1>1, <1>4, PowTimes
    <2>2. ModExp(g, c, m) % m = Pow(x, c, m)
      BY <1>1, <1>3, Exponentiation DEF x
    <2>3. 1 % m = 1
      BY <1>1
    <2>4. QED
      BY <1>1, <1>2, <2>1, <2>2, <2>3
  <1>10. QED
    BY <1>5, <1>6, <1>7, <1>8, <1>9 DEF m, w

\* The table holds the root itself once out of the Montgomery domain.
LEMMA InvPsi ==
    ASSUME NEW i \in Rows
    PROVE  InvMForm(PsiMont[i], q(i), mred(i)) = Psi(i)
  <1> DEFINE m == q(i)
             z == Psi(i)
             p == PsiMont[i]
             a == InvMForm(p, m, mred(i))
             v == Abstract!RadixInv[i]
             t == z * R
  <1>1. /\ m \in Nat \ {0} /\ m \in 1..(R - 1) /\ R \in Nat /\ mred(i) \in Nat /\ (m * mred(i)) % R = 1 % R
        /\ v \in Int /\ (v * R) % m = 1
    BY RowIs
  <1>2. z \in 0..(m - 1) /\ p \in 0..(m - 1) /\ p = t % m
    BY PsiIs
  <1> HIDE DEF p, m, z, v
  <1>3. a \in 0..(m - 1) /\ (a * R) % m = p % m
    <2>1. p \in 0..(R - 1) /\ m < R
      BY <1>1, <1>2
    <2>2. QED
      BY <1>1, <2>1, FromMontgomery
  <1> HIDE DEF a
  <1>4. t \in Int /\ a \in Int /\ z \in Int /\ p % m = t % m
    <2>1. t \in Int /\ a \in Int /\ z \in Int
      BY <1>1, <1>2, <1>3
    <2> HIDE DEF t
    <2>2. QED
      BY <1>1, <1>2, <2>1, ModSmall, Zenon
  <1>5. a % m = ((t % m) * v) % m
    <2>1. (a * R) % m = t % m
      BY <1>3, <1>4
    <2> HIDE DEF t
    <2>2. QED
      BY <1>1, <1>4, <2>1, WithoutRadix, Zenon
  <1>6. z % m = ((t % m) * v) % m
    <2>1. (z * R) % m = t % m
      OBVIOUS
    <2> HIDE DEF t
    <2>2. QED
      BY <1>1, <1>4, <2>1, WithoutRadix, Zenon
  <1>7. a % m = a /\ z % m = z
    BY <1>1, <1>2, <1>3
  <1>8. QED
    BY <1>5, <1>6, <1>7 DEF a, z, p, m

\* Exponents count modulo 2N.
LEMMA PsiPower ==
    ASSUME NEW i \in Rows, NEW k \in Nat
    PROVE  Pow(Psi(i), k, q(i)) = Pow(Psi(i), k % (2 * N), q(i))
  <1> DEFINE m == q(i)
             z == Psi(i)
             w == 2 * N
             d == k \div w
             r == k % w
  <1>1. m \in Nat \ {0} /\ 2 <= m /\ w \in Nat \ {0} /\ z \in 0..(m - 1) /\ z \in Int /\ Pow(z, w, m) = 1
    BY RowIs, PsiIs
  <1> HIDE DEF m, z, w
  <1>2. d \in Nat /\ r \in 0..(w - 1) /\ r \in Nat /\ k = (w * d) + r
    <2>1. d \in Nat /\ k % w \in 0..(w - 1) /\ k = (w * d) + (k % w)
      BY <1>1, DivNat, Zenon
    <2> HIDE DEF d, r
    <2>2. r \in 0..(w - 1)
      BY <2>1 DEF r
    <2>3. r \in Nat
      BY <2>2
    <2>4. QED
      BY <2>1, <2>2, <2>3 DEF r
  <1> HIDE DEF d, r
  <1>3. w * d \in Nat
    BY <1>1, <1>2
  <1>4. Pow(z, (w * d) + r, m) = (Pow(z, w * d, m) * Pow(z, r, m)) % m
    BY <1>1, <1>2, <1>3, PowPlus, Zenon
  <1>5. Pow(z, w * d, m) = Pow(Pow(z, w, m), d, m)
    BY <1>1, <1>2, PowTimes, Zenon
  <1>6. Pow(1, d, m) = 1
    BY <1>1, <1>2, PowOfOne
  <1> DEFINE a == Pow(z, r, m)
  <1>7. a \in 0..(m - 1)
    BY <1>1, <1>2, PowSteps
  <1> HIDE DEF a
  <1>8. (1 * a) % m = a
    BY <1>1, <1>7
  <1>9. Pow(z, k, m) = a
    BY <1>1, <1>2, <1>4, <1>5, <1>6, <1>8 DEF a
  <1>10. QED
    BY <1>9 DEF a, r, m, z, w

\* Raising the root to an exponent depends on the exponent modulo 2N only.
LEMMA Exponents ==
    ASSUME NEW i \in Rows, NEW n \in 1..(R \div 2), NEW j \in Coefs
    PROVE  /\ n % 2^N \in 0..(R - 1) /\ n % 2^N \in Nat /\ j \in Nat
           /\ (2 * n * j) % (2 * N) \in 0..(R - 1)
           /\ Pow(Psi(i), (2 * (n % 2^N)) * j, q(i)) = Pow(Psi(i), (2 * n * j) % (2 * N), q(i))
  <1> DEFINE p == 2^N
             e == n % p
             d == n \div p
             t == p \div N
             w == 2 * N
             a == (2 * n) * j
             b == (2 * e) * j
             c == (d * t) * j
  <1>1. p \in Nat \ {0} /\ p % N = 0 /\ N \in Nat \ {0} /\ w \in Nat \ {0} /\ w \in 1..(q(i) - 1)
        /\ q(i) \in 1..(R - 1) /\ R \in Nat
    BY OpsAssumption, RowIs
  <1>2. n \in Nat /\ j \in Nat /\ n < R
    <2>1. n \in Int /\ n <= R \div 2 /\ n >= 1
      BY <1>1
    <2>2. R \div 2 < R
      BY <1>1
    <2>3. QED
      BY <1>1, <2>1, <2>2 DEF Coefs
  <1> HIDE DEF p
  <1>3. d \in Nat /\ e \in 0..(p - 1) /\ n = (p * d) + e
    BY <1>1, <1>2, DivNat
  <1>4. t \in Nat /\ p = (N * t) + 0
    BY <1>1, DivNat
  <1> HIDE DEF e, d, t
  <1>5. e \in Nat /\ e <= n
    <2>1. p * d >= 0 /\ p * d \in Int
      BY <1>1, <1>3
    <2>2. QED
      BY <1>1, <1>2, <1>3, <2>1
  <1>6. b = a - (c * w) /\ a \in Nat /\ b \in Nat /\ c \in Int
    <2>1. c \in Int /\ a \in Nat /\ b \in Nat
      <3>1. d * t \in Int /\ 2 * n \in Nat /\ 2 * e \in Nat
        BY <1>2, <1>3, <1>4, <1>5
      <3>2. QED
        BY <1>2, <3>1
    <2>2. p * d = (d * t) * N
      BY <1>1, <1>3, <1>4
    <2> DEFINE h == d * t
    <2>3. h \in Int
      BY <1>3, <1>4
    <2>4. n = (h * N) + e
      BY <1>3, <2>2
    <2> HIDE DEF h
    <2>5. (2 * e) * j = ((2 * n) * j) - ((h * j) * (2 * N))
      BY <1>1, <1>2, <1>5, <2>3, <2>4
    <2>6. QED
      BY <2>1, <2>5 DEF h
  <1> HIDE DEF a, b, c, w
  <1>7. b % w = a % w
    <2>1. (a - (c * w)) % w = a % w
      <3>1. a \in Int
        BY <1>6
      <3>2. QED
        BY <1>1, <1>6, <3>1, ModMinus, Zenon
    <2>2. QED
      BY <1>6, <2>1
  <1>8. a % w \in 0..(w - 1) /\ a % w \in 0..(R - 1)
    <2>1. a % w \in 0..(w - 1)
      BY <1>1, <1>6
    <2>2. QED
      BY <1>1, <2>1
  <1>9. Pow(Psi(i), b, q(i)) = Pow(Psi(i), a % w, q(i))
    <2>1. Pow(Psi(i), b, q(i)) = Pow(Psi(i), b % w, q(i))
      BY <1>6, PsiPower DEF w
    <2>2. QED
      BY <1>7, <2>1
  <1>10. QED
    BY <1>1, <1>2, <1>5, <1>8, <1>9 DEF a, b, w, e, p

\* The factors of a rotation: powers of the root, in Montgomery form.
LEMMA GalIs ==
    ASSUME NEW i \in Rows, NEW turn \in 1..(R \div 2)
    PROVE  \A j \in Coefs :
               /\ Gal(turn, i)[j] \in 0..(q(i) - 1)
               /\ Stands(Gal(turn, i)[j], Pow(Psi(i), (2 * (turn % 2^N)) * j, q(i)), R, q(i))
  <1> DEFINE m == q(i)
             z == Psi(i)
             qInv == mred(i)
             e == turn % 2^N
             y == (z * z) % m
             x == MRed(PsiMont[i], PsiMont[i], m, qInv)
             root == modexpMontgomery(MRed(PsiMont[i], PsiMont[i], q(i), mred(i)), turn % 2^N, q(i), mred(i), bred(i))
             one == ToMont(1, i)
  <1>1. /\ m \in Nat \ {0} /\ 2 <= m /\ 2 * m <= R /\ m \in 1..(R - 1) /\ R \in Nat /\ R \in Int
        /\ qInv \in Nat /\ (m * qInv) % R = 1 % R /\ bred(i) = BRedParams(m) /\ N \in Nat \ {0}
    BY RowIs
  <1>2. z \in 0..(m - 1) /\ z \in Int /\ PsiMont[i] \in 0..(m - 1) /\ PsiMont[i] = (z * R) % m
    BY PsiIs
  <1>3. e \in 0..(R - 1) /\ e \in Nat
    <2>1. 0 \in Coefs
      BY <1>1 DEF Coefs
    <2>2. QED
      BY <2>1, Exponents
  <1>4. root = modexpMontgomery(x, e, m, qInv, BRedParams(m))
    BY <1>1
  <1> HIDE DEF m, z, qInv, e
  <1>5. Stands(PsiMont[i], z, R, m)
    <2> DEFINE p == PsiMont[i]
               t == z * R
    <2>1. p \in 0..(m - 1) /\ p = t % m
      BY <1>2
    <2> HIDE DEF p, t
    <2>2. p % m = t % m /\ p \in 0..m
      BY <1>1, <2>1
    <2>3. QED
      BY <2>2 DEF Stands, p, t
  <1>6. x \in 0..(m - 1) /\ Stands(x, y, R, m)
    BY <1>1, <1>2, <1>5, MRedStands
  <1>7. y \in 0..(m - 1) /\ Pow(z, 2, m) = y
    <2>1. 0 \in Nat /\ 1 \in Nat /\ 0 + 1 = 1 /\ 1 + 1 = 2 /\ 1 \in Int
      OBVIOUS
    <2>2. Pow(z, 0, m) = 1 % m /\ Pow(z, 0 + 1, m) = (Pow(z, 0, m) * z) % m
      BY <1>1, <1>2, <2>1, PowSteps, Zenon
    <2>3. Pow(z, 1 + 1, m) = (Pow(z, 1, m) * z) % m
      BY <1>1, <1>2, <2>1, PowSteps, Zenon
    <2>4. 1 % m = 1 /\ (1 * z) % m = z
      BY <1>1, <1>2
    <2>5. y \in 0..(m - 1)
      <3> DEFINE t == z * z
      <3>1. t \in Int
        BY <1>2
      <3> HIDE DEF t
      <3>2. t % m \in 0..(m - 1)
        BY <1>1, <3>1
      <3>3. QED
        BY <3>2 DEF t
    <2>6. QED
      BY <2>1, <2>2, <2>3, <2>4, <2>5
  <1> HIDE DEF x, y
  <1>8. x = (y * R) % m
    <2>1. x % m = x
      BY <1>1, <1>6
    <2>2. QED
      BY <1>6, <2>1 DEF Stands
  <1>9. Stands(root, Pow(y, e, m), R, m) /\ root \in 0..m
    <2> DEFINE h == modexpMontgomery(x, e, m, qInv, BRedParams(m))
    <2>1. h \in 0..m /\ h % m = (Pow(y, e, m) * R) % m
      BY <1>1, <1>3, <1>6, <1>7, <1>8, MontgomeryExponentiation
    <2> HIDE DEF h
    <2>2. root = h
      BY <1>4 DEF h
    <2> HIDE DEF root
    <2>3. QED
      BY <2>1, <2>2 DEF Stands
  <1> DEFINE f == 2 * e
             r == Pow(z, f, m)
  <1>10. f \in Nat /\ r = Pow(y, e, m) /\ r \in 0..(m - 1)
    <2>1. f \in Nat /\ 2 \in Nat
      BY <1>3
    <2>2. Pow(z, 2 * e, m) = Pow(Pow(z, 2, m), e, m)
      BY <1>1, <1>2, <1>3, <2>1, PowTimes, Zenon
    <2> HIDE DEF f
    <2>3. Pow(z, f, m) \in 0..(m - 1)
      BY <1>1, <1>2, <2>1, PowSteps
    <2>4. QED
      BY <1>7, <2>1, <2>2, <2>3 DEF f
  <1>11. one \in 0..(m - 1) /\ Stands(one, 1 % m, R, m)
    <2>1. 1 \in 0..(R - 1) /\ 1 % m = 1
      BY <1>1
    <2>2. MForm(1, m, BRedParams(m)) \in 0..(m - 1) /\ MForm(1, m, BRedParams(m)) = (1 * R) % m
      BY <1>1, <2>1, ToMontgomery
    <2>3. one = MForm(1, m, BRedParams(m))
      BY <1>1, ToMontIs DEF m
    <2>4. one % m = one
      BY <1>1, <2>2, <2>3
    <2> HIDE DEF one
    <2> DEFINE o == 1 % m
    <2>5. o = 1
      BY <2>1
    <2> HIDE DEF o
    <2>6. one = (o * R) % m /\ one \in 0..m
      BY <1>1, <2>2, <2>3, <2>5
    <2>7. Stands(one, o, R, m)
      BY <2>4, <2>6 DEF Stands
    <2>8. QED
      BY <2>2, <2>3, <2>7 DEF o
  <1> HIDE DEF root, r, one
  <1> DEFINE n == N - 1
             S == 0..(m - 1)
             next(k, s) == MRed(s, root, m, qInv)
             gal[j \in Coefs] == IF j = 0 THEN ToMont(1, i) ELSE MRed(gal[j-1], root, q(i), mred(i))
             tab[k \in 0..(N - 1)] == IF k = 0 THEN one ELSE next(k, tab[k-1])
  <1>12. gal = tab
    BY DEF Coefs, one, m, qInv
  <1>13. \A j \in Coefs : Gal(turn, i)[j] = gal[j]
    BY DEF Gal, root
  <1>14. n \in Nat /\ one \in S /\ root \in 0..m /\ n + 1 = N
    BY <1>1, <1>9, <1>11
  <1>15. \A k \in 1..n, s \in S : next(k, s) \in S
    <2>1. \A s \in S : s \in 0..m
      BY <1>1
    <2> HIDE DEF S
    <2>2. \A s \in S : MRed(s, root, m, qInv) \in 0..(m - 1)
      BY <1>1, <1>14, <2>1, MRedBelow
    <2>3. QED
      BY <2>2 DEF S
  <1>16. tab = [k \in 0..n |-> IF k = 0 THEN one ELSE next(k, tab[k-1])]
    <2> DEFINE g == [k \in 1..n |-> [s \in S |-> next(k, s)]]
    <2>1. g \in [1..n -> [S -> S]]
      BY <1>14, <1>15
    <2> HIDE DEF g, S, n, tab
    <2>2. PICK run \in [0..n -> S] : Follows(run, n, one, g)
      BY <1>14, <1>15, <2>1, Recursion, Zenon
    <2>3. ASSUME NEW k \in 1..n PROVE run[k] = next(k, run[k - 1])
      <3>1. k - 1 \in 0..n
        BY <1>14, <1>15
      <3>2. run[k - 1] \in S /\ run[k] = g[k][run[k - 1]]
        BY <2>2, <3>1 DEF Follows
      <3>3. \A s \in S : g[k][s] = next(k, s)
        BY Zenon DEF g
      <3>4. QED
        BY <3>2, <3>3, Zenon
    <2>4. run = [k \in 0..n |-> IF k = 0 THEN one ELSE next(k, run[k-1])]
      <3>1. \A k \in 0..n : k # 0 => k \in 1..n
        BY <1>14, <1>15
      <3>2. run[0] = one /\ run = [k \in 0..n |-> run[k]]
        BY <2>2 DEF Follows
      <3> HIDE DEF next
      <3>3. \A k \in 0..n : run[k] = IF k = 0 THEN one ELSE next(k, run[k-1])
        BY <2>3, <3>1, <3>2
      <3>4. QED
        BY <3>2, <3>3, Zenon
    <2>5. QED
      BY <2>4 DEF tab, n
  <1> HIDE DEF tab
  <1>17. \A k \in 0..n : tab[k] \in S
    <2>1. 0 \in 0..n /\ tab[0] \in S
      BY <1>14, <1>16
    <2>2. ASSUME NEW k \in 1..n, tab[k-1] \in S PROVE tab[k] \in S
      <3>1. k \in 0..n /\ k # 0
        BY <1>14
      <3> HIDE DEF next
      <3>2. tab[k] = next(k, tab[k-1])
        BY <1>16, <3>1
      <3>3. QED
        BY <1>15, <2>2, <3>2
    <2> HIDE DEF S, n
    <2>3. QED
      BY <1>14, <2>1, <2>2, StaysIn
  <1> DEFINE P(k) == Stands(tab[k], Pow(z, f * k, m), R, m)
             H == {k \in 0..n : P(k)}
  <1>18. 0 \in H
    <2>1. 0 \in 0..n /\ f * 0 = 0
      BY <1>10, <1>14
    <2>2. tab[0] = one
      <3> HIDE DEF next
      <3> QED
        BY <1>16, <2>1
    <2>3. Pow(z, 0, m) = 1 % m
      <3>1. 0 \in Nat
        OBVIOUS
      <3>2. QED
        BY <1>1, <1>2, <3>1, PowSteps
    <2> HIDE DEF n, f
    <2>4. P(0)
      BY <1>11, <2>1, <2>2, <2>3
    <2> HIDE DEF P
    <2>5. QED
      BY <2>1, <2>4
  <1>19. ASSUME NEW k \in 1..n, k - 1 \in H PROVE k \in H
    <2> DEFINE c == f * (k - 1)
               a == Pow(z, c, m)
    <2>1. k \in 0..n /\ k # 0 /\ k - 1 \in 0..n /\ k - 1 \in Nat
      BY <1>14
    <2>2. c \in Nat /\ f * k = c + f
      BY <1>10, <2>1
    <2>3. Stands(tab[k-1], a, R, m)
      BY <1>19
    <2>4. tab[k] = MRed(tab[k-1], root, m, qInv)
      <3>1. tab[k] = next(k, tab[k-1])
        <4> HIDE DEF next
        <4> QED
          BY <1>16, <2>1
      <3>2. QED
        BY <3>1
    <2> HIDE DEF c, f, n, H
    <2>5. a \in 0..(m - 1)
      BY <1>1, <1>2, <2>2, PowSteps
    <2>6. Pow(z, c + f, m) = (a * r) % m
      BY <1>1, <1>2, <1>10, <2>2, PowPlus DEF r
    <2> HIDE DEF a
    <2>7. Stands(root, r, R, m)
      BY <1>9, <1>10
    <2>8. Stands(MRed(tab[k-1], root, m, qInv), (a * r) % m, R, m)
      BY <1>1, <1>10, <2>3, <2>5, <2>7, MRedStands
    <2>9. P(k)
      BY <2>2, <2>4, <2>6, <2>8
    <2> HIDE DEF P
    <2>10. QED
      BY <2>1, <2>9 DEF H
  <1> HIDE DEF H, P, n, f
  <1>20. \A k \in 0..n : k \in H
    <2>1. n \in Nat
      BY <1>14
    <2>2. QED
      BY <1>18, <1>19, <2>1, Induction
  <1>21. \A j \in Coefs : j \in 0..n
    BY DEF Coefs, n
  <1>22. \A j \in Coefs : tab[j] \in 0..(m - 1) /\ Stands(tab[j], Pow(z, f * j, m), R, m)
    BY <1>17, <1>20, <1>21 DEF H, P, S
  <1>23. QED
    BY <1>12, <1>13, <1>22 DEF f, e, z, m

\* A coefficient times the factor of its rotation.
LEMMA RotateWord ==
    ASSUME NEW i \in Rows, NEW n \in 1..(R \div 2), NEW j \in Coefs,
           NEW w, NEW top, NEW wr, Bounded(w, top, wr, q(i)), top <= q(i)
    PROVE  Bounded(IF j = 0 THEN w ELSE MRed(w, Gal(n, i)[j], q(i), mred(i)), q(i),
                   (wr * ModExp(InvMForm(PsiMont[i], q(i), mred(i)), (2 * n * j) % (2 * N), q(i))) % q(i), q(i))
  <1> DEFINE m == q(i)
             z == Psi(i)
             g == Gal(n, i)[j]
             k == (2 * n * j) % (2 * N)
             b == (2 * (n % 2^N)) * j
             arg == ModExp(InvMForm(PsiMont[i], q(i), mred(i)), k, m)
             a == Pow(z, k, m)
             u == bred(i)
             v == Abstract!RadixInv[i]
             qInv == mred(i)
  <1>1. /\ m \in Nat \ {0} /\ 2 <= m /\ 2 * m <= R /\ m \in 1..(R - 1) /\ R \in Nat /\ R \in Int
    BY RowIs
  <1>2. z \in 0..(m - 1) /\ z \in Int /\ z \in 0..(R - 1) /\ z % m = z
    BY <1>1, PsiIs
  <1>3. k \in 0..(R - 1) /\ k \in Nat /\ Pow(z, b, m) = a
    BY Exponents
  <1>4. arg \in 0..m /\ arg % m = a /\ arg \in Int
    <2>1. arg = ModExp(z, k, m)
      BY InvPsi
    <2> HIDE DEF arg, z, m, k
    <2>2. ModExp(z, k, m) \in 0..m /\ ModExp(z, k, m) % m = Pow(z % m, k, m)
      BY <1>1, <1>2, <1>3, Exponentiation
    <2>3. QED
      BY <1>2, <2>1, <2>2
  <1>5. g \in 0..(m - 1) /\ Stands(g, Pow(z, b, m), R, m)
    BY GalIs
  <1>6. Good(m, qInv, u, v)
    BY ModulusFits DEF Fits
  <1> HIDE DEF m, z, g, k, b, u, v, qInv
  <1>7. a \in 0..(m - 1) /\ a \in Int
    <2>1. Pow(z, k, m) \in 0..(m - 1)
      BY <1>1, <1>2, <1>3, PowSteps, Zenon
    <2> HIDE DEF a
    <2>2. a \in 0..(m - 1)
      BY <2>1 DEF a
    <2>3. QED
      BY <1>1, <2>2
  <1> HIDE DEF a, arg
  <1>8. w \in Int /\ w \in Nat /\ wr = w % m /\ wr \in Int /\ w < m /\ top \in 1..R /\ w < top
    BY <1>1, RAssumption DEF Bounded, m
  <1>9. Bounded(g, m, (a * R) % m, m)
    <2>1. Stands(g, a, R, m)
      BY <1>3, <1>5
    <2>2. QED
      BY <1>1, <1>5, <2>1 DEF Stands, Bounded
  <1>10. Bounded(w, top, wr, m)
    BY DEF m
  <1> DEFINE p == MRed(g, w, m, qInv)
             o == MRed(w, g, m, qInv)
  <1>11. p \in 0..(m - 1) /\ (p * 1) % m = (a * wr) % m
    BY ONLY <1>6, <1>7, <1>9, <1>10, TermPlain
  <1>12. p = o
    <2>1. g * w = w * g
      BY <1>5, <1>8
    <2>2. QED
      BY <2>1 DEF MRed, MRedConstant
  <1> HIDE DEF p, o
  <1>13. (wr * arg) % m = (a * wr) % m
    <2>1. ((arg % m) * wr) % m = (arg * wr) % m
      BY <1>1, <1>4, <1>8, ModProd, Zenon
    <2>2. arg * wr = wr * arg
      BY <1>4, <1>8
    <2>3. QED
      BY <1>4, <2>1, <2>2
  <1>14. CASE j # 0
    <2>1. p % m = (p * 1) % m
      BY <1>11
    <2> DEFINE d == (wr * arg) % m
    <2>2. p % m = d
      BY <1>11, <1>13, <2>1
    <2> HIDE DEF d
    <2>3. Bounded(o, m, d, m)
      BY <1>1, <1>11, <1>12, <2>2 DEF Bounded
    <2>4. QED
      BY <1>14, <2>3 DEF d, o, g, arg, k, m, qInv
  <1>15. CASE j = 0
    <2>1. b = 0
      <3>1. \A y \in Int : y * 0 = 0
        OBVIOUS
      <3>2. n % 2^N \in Int
        BY Exponents
      <3>3. QED
        BY <1>15, <3>1, <3>2 DEF b
    <2>2. a = 1
      <3>1. 0 \in Nat
        OBVIOUS
      <3>2. Pow(z, 0, m) = 1 % m
        BY <1>1, <1>2, <3>1, PowSteps
      <3>3. 1 % m = 1
        BY <1>1
      <3>4. QED
        BY <1>3, <2>1, <3>2, <3>3 DEF a
    <2> DEFINE d == (wr * arg) % m
    <2>3. w % m = d
      <3>1. (1 * wr) % m = wr
        BY <1>1, <1>8
      <3>2. QED
        BY <1>8, <1>13, <2>2, <3>1
    <2> HIDE DEF d
    <2>4. Bounded(w, m, d, m)
      BY <1>1, <1>8, <2>3 DEF Bounded
    <2>5. QED
      BY <1>15, <2>4 DEF d, arg, k, m
  <1>16. QED
    BY <1>14, <1>15

\* Rotate keeps the invariant, and is the step of the ring of that name.
LEMMA RotateStep ==
    ASSUME IInv, NEW n \in 1..(R \div 2), Rotate(n)
    PROVE  IInv' /\ Abstract!Next
  <1> DEFINE arg == [i \in Rows |-> [j \in Coefs |->
                        ModExp(InvMForm(PsiMont[i], q(i), mred(i)), (2 * n * j) % (2 * N), q(i))]]
             g == [i \in Rows |-> [j \in Coefs |-> (Residues.a[i][j] * arg[i][j]) % Modulus[i]]]
  <1>1. TypeOK /\ "a" \in Regs /\ "a" \in Dest /\ Last \in Level
    BY Tables DEF IInv, Dest, Regs
  <1>2. /\ Frame(Last, "a") /\ call' = [op |-> "galois", lvl |-> Last, dst |-> "a", arg |-> arg]
        /\ \A i \in 1..Last, j \in Coefs :
              /\ reg'["a"][i][j] = IF j = 0 THEN reg.a[i][j] ELSE MRed(reg.a[i][j], Gal(n, i)[j], q(i), mred(i))
              /\ lim'["a"][i] = q(i) /\ lim.a[i] <= q(i)
    <2> DEFINE f(x, i) == LET ga == Gal(n, i) IN
                  [j \in Coefs |-> IF j = 0 THEN x[0] ELSE MRed(x[j], ga[j], q(i), mred(i))]
    <2>1. ByRow("galois", Last, "a", arg, LAMBDA x, y, z, i : f(x, i), LAMBDA la, lb, lc, m : la <= m, BelowQ)
      BY Zenon DEF Rotate
    <2> HIDE DEF arg
    <2>2. \A x, i : f(x, i) = [j \in Coefs |-> f(x, i)[j]]
      OBVIOUS
    <2>3. \A x, i, j : j \in Coefs =>
              f(x, i)[j] = IF j = 0 THEN x[j] ELSE MRed(x[j], Gal(n, i)[j], q(i), mred(i))
      OBVIOUS
    <2> HIDE DEF f
    <2>4. /\ Frame(Last, "a") /\ call' = [op |-> "galois", lvl |-> Last, dst |-> "a", arg |-> arg]
          /\ \A i \in 1..Last : reg'["a"][i] = f(reg.a[i], i) /\ lim'["a"][i] = q(i) /\ lim.a[i] <= q(i)
      BY <1>1, <2>1, <2>2 DEF ByRow, TypeOK, Frame, Level, Rows, BelowQ
    <2>5. QED
      BY <2>3, <2>4
  <1>3. ASSUME NEW i \in 1..Last, NEW j \in Coefs
        PROVE  Bounded(reg'["a"][i][j], lim'["a"][i], g[i][j], q(i))
    <2> DEFINE w == reg.a[i][j]
               wr == Residues.a[i][j]
    <2>1. i \in Rows
      BY <1>1 DEF Level, Rows
    <2>2. Bounded(w, lim.a[i], wr, q(i)) /\ lim.a[i] <= q(i)
      BY <1>1, <1>2, <2>1, Operand
    <2>3. g[i][j] = (wr * ModExp(InvMForm(PsiMont[i], q(i), mred(i)), (2 * n * j) % (2 * N), q(i))) % q(i)
      BY <2>1 DEF q
    <2>4. reg'["a"][i][j] = (IF j = 0 THEN w ELSE MRed(w, Gal(n, i)[j], q(i), mred(i))) /\ lim'["a"][i] = q(i)
      BY <1>2
    <2> HIDE DEF g, w, wr
    <2>5. Bounded(IF j = 0 THEN w ELSE MRed(w, Gal(n, i)[j], q(i), mred(i)), q(i),
                  (wr * ModExp(InvMForm(PsiMont[i], q(i), mred(i)), (2 * n * j) % (2 * N), q(i))) % q(i), q(i))
      BY <2>1, <2>2, RotateWord
    <2>6. QED
      BY <2>3, <2>4, <2>5, Zenon
  <1>4. IInv' /\ Moves(Last, "a", g)
    <2>1. Table(g)
      BY DEF Table
    <2> HIDE DEF g
    <2>2. QED
      BY <1>1, <1>2, <1>3, <2>1, CallStep, Zenon
  <1> DEFINE h(x, y, i) == [j \in Abstract!Coefs |-> (x[j] * call'.arg[i][j]) % Modulus[i]]
  <1>5. \A i \in Rows : g[i] = h(Residues.a[i], Residues.b[i], i)
    BY <1>2, Tables
  <1> HIDE DEF h, g
  <1>6. Residues' = [Residues EXCEPT !["a"] =
            [i \in Rows |-> IF i > Last THEN @[i] ELSE h(Residues.a[i], Residues.b[i], i)]]
    BY <1>4, <1>5 DEF Moves
  <1>7. Abstract!DoesRow("galois", LAMBDA x, y, z, i : h(x, y, i))
    BY <1>2, <1>6, Tables DEF Abstract!DoesRow
  <1>8. QED
    BY <1>4, <1>7, Zenon DEF Abstract!Next, Abstract!Structure, h

-----------------------------------------------------------------------------
(* Every step *)
LEMMA AdditiveKeeps ==
    ASSUME IInv, Additive
    PROVE  IInv' /\ Abstract!Next
  <1>1. PICK l \in Level, d \in Dest :
            \/ AddLvl(l, d) \/ AddNoModLvl(l, d) \/ SubLvl(l, d) \/ SubNoModLvl(l, d)
            \/ NegLvl(l, d) \/ ReduceLvl(l, d) \/ ReduceConstantLvl(l, d)
    BY DEF Additive
  <1>2. CASE AddLvl(l, d)
    BY <1>2, AddStep
  <1>3. CASE AddNoModLvl(l, d)
    BY <1>3, AddNoModStep
  <1>4. CASE SubLvl(l, d)
    BY <1>4, SubStep
  <1>5. CASE SubNoModLvl(l, d)
    BY <1>5, SubNoModStep
  <1>6. CASE NegLvl(l, d)
    BY <1>6, NegStep
  <1>7. CASE ReduceLvl(l, d)
    BY <1>7, ReduceStep
  <1>8. CASE ReduceConstantLvl(l, d)
    BY <1>8, ReduceConstantStep
  <1>9. QED
    BY <1>1, <1>2, <1>3, <1>4, <1>5, <1>6, <1>7, <1>8

\* The same of the products.
LEMMA ProductsKeep ==
    ASSUME IInv, Products
    PROVE  IInv' /\ Abstract!Next
  <1>1. PICK l \in Level, d \in Dest :
            \/ MulCoeffsMontgomeryLvl(l, d) \/ MulCoeffsMontgomeryConstantLvl(l, d)
            \/ MulCoeffsMontgomeryAndAddLvl(l, d) \/ MulCoeffsMontgomeryAndAddNoModLvl(l, d)
            \/ MulCoeffsMontgomeryConstantAndAddNoModLvl(l, d)
            \/ MFormLvl(l, d) \/ InvMFormLvl(l, d)
            \/ \E k \in Scalars : MulScalarLvl(l, k, d) \/ MulScalarBigintLvl(l, k, d)
    BY DEF Products
  <1>2. CASE MulCoeffsMontgomeryLvl(l, d)
    BY <1>2, MulCoeffsMontgomeryStep
  <1>3. CASE MulCoeffsMontgomeryConstantLvl(l, d)
    BY <1>3, MulCoeffsMontgomeryConstantStep
  <1>4. CASE MulCoeffsMontgomeryAndAddLvl(l, d)
    BY <1>4, MulCoeffsMontgomeryAndAddStep
  <1>5. CASE MulCoeffsMontgomeryAndAddNoModLvl(l, d)
    BY <1>5, MulCoeffsMontgomeryAndAddNoModStep
  <1>6. CASE MulCoeffsMontgomeryConstantAndAddNoModLvl(l, d)
    BY <1>6, MulCoeffsMontgomeryConstantAndAddNoModStep
  <1>7. CASE MFormLvl(l, d)
    BY <1>7, MFormStep
  <1>8. CASE InvMFormLvl(l, d)
    BY <1>8, InvMFormStep
  <1>9. CASE \E k \in Scalars : MulScalarLvl(l, k, d) \/ MulScalarBigintLvl(l, k, d)
    <2>1. PICK k \in Scalars : MulScalarLvl(l, k, d) \/ MulScalarBigintLvl(l, k, d)
      BY <1>9
    <2>2. k \in 1..(R \div 2)
      BY OpsAssumption
    <2>3. QED
      BY <2>1, <2>2, MulScalarStep, MulScalarBigintStep
  <1>10. QED
    BY <1>1, <1>2, <1>3, <1>4, <1>5, <1>6, <1>7, <1>8, <1>9

\* The same of the products of whole polynomials.
LEMMA WholeProductsKeep ==
    ASSUME IInv, WholeProducts
    PROVE  IInv' /\ Abstract!Next
  <1>1. PICK d \in Dest :
            \/ MulCoeffs(d) \/ MulCoeffsConstant(d) \/ MulCoeffsAndAdd(d) \/ MulCoeffsAndAddNoMod(d)
            \/ MulCoeffsMontgomeryAndSub(d) \/ MulCoeffsMontgomeryAndSubNoMod(d)
            \/ MulCoeffsMontgomeryMy(d) \/ MulPolyNaive(d) \/ MulPolyNaiveMontgomery(d)
            \/ Reduce(d) \/ ReduceConstant(d) \/ MulCoeffsMontgomery(d) \/ MulCoeffsMontgomeryConstant(d)
            \/ MulCoeffsMontgomeryAndAddNoMod(d) \/ MulCoeffsMontgomeryConstantAndAddNoMod(d)
            \/ MFormPoly(d) \/ InvMFormPoly(d)
            \/ MulByVectorMontgomery(reg.b[1], d) \/ MulByVectorMontgomeryAndAddNoMod(reg.b[1], d)
    BY DEF WholeProducts
  <1>2. Last \in Level /\ reg.b[1] \in [Coefs -> 0..(R - 1)]
    <2>1. "b" \in Regs /\ 1 \in Rows
      BY Tables DEF Regs, Level, Rows
    <2>2. QED
      BY <2>1, Tables DEF IInv, TypeOK, Polys
  <1>3. CASE MulCoeffs(d) \/ MulCoeffsConstant(d) \/ MulCoeffsAndAdd(d) \/ MulCoeffsAndAddNoMod(d)
    BY <1>3, MulCoeffsStep, MulCoeffsConstantStep, MulCoeffsAndAddStep, MulCoeffsAndAddNoModStep
  <1>4. CASE MulCoeffsMontgomeryAndSub(d) \/ MulCoeffsMontgomeryAndSubNoMod(d) \/ MulCoeffsMontgomeryMy(d)
    BY <1>4, MulCoeffsMontgomeryAndSubStep, MulCoeffsMontgomeryAndSubNoModStep, MulCoeffsMontgomeryMyStep
  <1>5. CASE MulPolyNaive(d) \/ MulPolyNaiveMontgomery(d)
    BY <1>5, MulPolyNaiveStep, MulPolyNaiveMontgomeryStep
  <1>6. CASE Reduce(d) \/ ReduceConstant(d) \/ MulCoeffsMontgomery(d) \/ MulCoeffsMontgomeryConstant(d)
    <2>1. \/ ReduceLvl(Last, d) \/ ReduceConstantLvl(Last, d)
          \/ MulCoeffsMontgomeryLvl(Last, d) \/ MulCoeffsMontgomeryConstantLvl(Last, d)
      BY <1>6, Zenon DEF Reduce, ReduceConstant, MulCoeffsMontgomery, MulCoeffsMontgomeryConstant
    <2>2. QED
      BY <1>2, <2>1, ReduceStep, ReduceConstantStep, MulCoeffsMontgomeryStep, MulCoeffsMontgomeryConstantStep
  <1>7. CASE MulCoeffsMontgomeryAndAddNoMod(d) \/ MulCoeffsMontgomeryConstantAndAddNoMod(d)
             \/ MFormPoly(d) \/ InvMFormPoly(d)
    <2>1. \/ MulCoeffsMontgomeryAndAddNoModLvl(Last, d) \/ MulCoeffsMontgomeryConstantAndAddNoModLvl(Last, d)
          \/ MFormLvl(Last, d) \/ InvMFormLvl(Last, d)
      BY <1>7, Zenon DEF MulCoeffsMontgomeryAndAddNoMod, MulCoeffsMontgomeryConstantAndAddNoMod,
                         MFormPoly, InvMFormPoly
    <2>2. QED
      BY <1>2, <2>1, MulCoeffsMontgomeryAndAddNoModStep, MulCoeffsMontgomeryConstantAndAddNoModStep,
         MFormStep, InvMFormStep
  <1>8. CASE MulByVectorMontgomery(reg.b[1], d)
    BY <1>2, <1>8, MulByVectorMontgomeryStep
  <1>9. CASE MulByVectorMontgomeryAndAddNoMod(reg.b[1], d)
    BY <1>2, <1>9, MulByVectorMontgomeryAndAddNoModStep
  <1>10. QED
    BY <1>1, <1>3, <1>4, <1>5, <1>6, <1>7, <1>8, <1>9

\* The same of the calls with a scalar.
LEMMA ScalarKeeps ==
    ASSUME IInv, Scalar
    PROVE  IInv' /\ Abstract!Next
  <1>1. PICK k \in Scalars :
            \/ AddScalar(k) \/ AddScalarBigint(k) \/ SubScalar(k) \/ SubScalarBigint(k)
            \/ \E l \in Level : MulByPow2Lvl(l, k % W)
            \/ \E d \in Dest : Mod(k, d) \/ AND(k, d) \/ OR(k, d) \/ XOR(k, d)
    BY DEF Scalar
  <1>2. k \in 1..(R \div 2) /\ k % W \in 0..(W - 1)
    <2>1. k \in 1..(R \div 2)
      BY OpsAssumption
    <2>2. k \in Int
      BY <2>1
    <2>3. k % W \in 0..(W - 1)
      BY <2>2, WAssumption
    <2>4. QED
      BY <2>1, <2>3
  <1>3. CASE AddScalar(k) \/ AddScalarBigint(k) \/ SubScalar(k) \/ SubScalarBigint(k)
    BY <1>2, <1>3, AddScalarStep, AddScalarBigintStep, SubScalarStep, SubScalarBigintStep
  <1>4. CASE \E l \in Level : MulByPow2Lvl(l, k % W)
    BY <1>2, <1>4, MulByPow2Step
  <1>5. CASE \E d \in Dest : Mod(k, d) \/ AND(k, d) \/ OR(k, d) \/ XOR(k, d)
    BY <1>2, <1>5, ModStep, ANDStep, ORStep, XORStep
  <1>6. QED
    BY <1>1, <1>3, <1>4, <1>5

\* The same of the calls that move coefficients.
LEMMA LayoutKeeps ==
    ASSUME IInv, Layout
    PROVE  IInv' /\ Abstract!Next
  <1>1. PICK n \in Scalars : Rotate(n) \/ \E d \in Dest : MultByMonomial(n, d) \/ Shift(n, d)
    BY DEF Layout
  <1>2. n \in 1..(R \div 2)
    BY OpsAssumption
  <1>3. QED
    BY <1>1, <1>2, RotateStep, MultByMonomialStep, ShiftStep

\* The same of the conversions and of the comparison.
LEMMA ConversionsKeep ==
    ASSUME IInv, Conversions
    PROVE  IInv' /\ Abstract!Next
  <1>1. \/ \E l \in Level : EqualLvl(l)
        \/ \E d \in Dest : \/ BitReverse(d) \/ MFormArray(PerRow, d)
                           \/ MFormArrayInt(Signed, d) \/ SetCoefficients(Signed, d)
    BY DEF Conversions
  <1>2. PerRow \in [Rows -> 0..(R - 1)] /\ Signed \in [Coefs -> (1 - R)..(R - 1)]
    BY OpsAssumption
  <1>3. QED
    BY <1>1, <1>2, EqualStep, BitReverseStep, MFormArrayStep, MFormArrayIntStep, SetCoefficientsStep

\* The initial polynomials are within their bounds, and their residues are a
\* ring state.
LEMMA InitHolds == Init => IInv /\ Abstract!Init
  <1>1. SUFFICES ASSUME Init PROVE IInv /\ Abstract!Init
    OBVIOUS
  <1>2. PICK s \in Start : reg = [r \in Regs |-> s[r].p] /\ lim = [r \in Regs |-> s[r].top]
    BY <1>1, Zenon DEF Init
  <1>3. \A r \in Regs : /\ s[r].p \in Polys /\ s[r].top \in [Rows -> 1..R]
                        /\ \A i \in Rows, j \in Coefs : s[r].p[i][j] < s[r].top[i]
    BY OpsAssumption
  <1>4. TypeOK
    BY <1>2, <1>3 DEF TypeOK
  <1>5. WithinBounds
    <2>1. \A r \in Regs, i \in Rows, j \in Coefs : reg[r][i][j] < lim[r][i]
      BY <1>2, <1>3
    <2>2. \A r \in Regs, i \in Rows : lim[r][i] <= R
      BY <1>4, RAssumption DEF TypeOK
    <2>3. QED
      BY <2>1, <2>2 DEF WithinBounds
  <1>6. Residues \in [Regs -> [Rows -> [Coefs -> Int]]]
    <2>1. ASSUME NEW r \in Regs, NEW i \in Rows, NEW j \in Coefs
          PROVE  reg[r][i][j] % q(i) \in Int
      <3>1. reg[r][i][j] \in Int /\ q(i) \in Nat \ {0}
        BY <1>4, RowIs DEF TypeOK, Polys
      <3>2. QED
        BY <3>1
    <2>2. QED
      BY <2>1 DEF Residues
  <1>7. Abstract!Init
    BY <1>1, <1>6, Tables DEF Init, Abstract!Init, Regs
  <1>8. QED
    BY <1>4, <1>5, <1>7 DEF IInv

\* Every step keeps the invariant and is a step of the ring or a stutter.
LEMMA StepHolds == IInv /\ [Next]_vars => IInv' /\ [Abstract!Next]_<< Residues, call >>
  <1>1. ASSUME IInv, Next PROVE IInv' /\ Abstract!Next
    BY <1>1, AdditiveKeeps, ProductsKeep, WholeProductsKeep, ScalarKeeps, LayoutKeeps, ConversionsKeep DEF Next
  <1>2. ASSUME IInv, UNCHANGED vars PROVE IInv' /\ UNCHANGED << Residues, call >>
    BY <1>2 DEF vars, IInv, TypeOK, WithinBounds, Residues
  <1>3. QED
    BY <1>1, <1>2

\* No sequence of calls lets a coefficient reach the bound the comment of the
\* last call states, nor any bound pass the word: for every modulus NewRing
\* accepts, every degree and every initial polynomial within its bounds.
THEOREM StaysWithinBounds == Spec => [](TypeOK /\ WithinBounds)
  <1>1. Init => IInv
    BY InitHolds
  <1>2. IInv /\ [Next]_vars => IInv'
    BY StepHolds
  <1>3. IInv => TypeOK /\ WithinBounds
    BY DEF IInv
  <1>4. QED
    BY <1>1, <1>2, <1>3, PTL DEF Spec

\* The type, apart: coefficients are words, and bounds are at most a word, after
\* any calls of ring_operations.go.
THEOREM RingTyped == Spec => []TypeOK
  <1>1. TypeOK /\ WithinBounds => TypeOK
    OBVIOUS
  <1>2. QED
    BY <1>1, StaysWithinBounds, PTL

\* Every call of ring_operations.go replaces the residues of its destination by
\* those of the ring operation it is named for, at the rows of its level, and
\* leaves every other residue alone.
THEOREM ImplementsTheRing == Spec => ImplementsRing
  <1>1. Init => IInv /\ Abstract!Init
    BY InitHolds
  <1>2. IInv /\ [Next]_vars => IInv' /\ [Abstract!Next]_<< Residues, call >>
    BY StepHolds
  <1>3. QED
    BY <1>1, <1>2, PTL DEF Spec, ImplementsRing, Abstract!Spec
=============================================================================
