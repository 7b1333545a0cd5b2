----------------------------- MODULE WordsProofs -----------------------------
(* What the reductions of module Words return, for every word size and every  *)
(* modulus: their ranges, on which the lazily reducing loops of crypto/ring   *)
(* rely, and that they are products and residues modulo q.                    *)
EXTENDS Words, WellFoundedInduction, TLAPS

-----------------------------------------------------------------------------------------
(* Induction and recursion *)

\* A set of numbers has a least one.
LEMMA Least ==
    ASSUME NEW T, T \subseteq Nat, T # {}
    PROVE  \E n \in T : \A m \in T : n <= m
  <1> DEFINE L == OpToRel(<, Nat)
  <1>1. IsWellFoundedOn(L, Nat)
    BY NatLessThanWellFounded, Zenon
  <1>2. \A x, y \in Nat : x < y => << x, y >> \in L
    BY Zenon DEF OpToRel
  <1> HIDE DEF L
  <1>3. PICK n \in T : \A y \in T : ~(<< y, n >> \in L)
    BY <1>1, WFMin
  <1>4. \A m \in T : n <= m
    <2>1. SUFFICES ASSUME NEW m \in T PROVE n <= m
      OBVIOUS
    <2>2. m \in Nat /\ n \in Nat
      OBVIOUS
    <2>3. ~(m < n)
      BY <1>2, <1>3, <2>2
    <2>4. QED
      BY <2>2, <2>3
  <1>5. QED
    BY <1>4

\* What holds of 0 and passes from a number to the next holds up to n: H is the
\* set of the numbers it holds of.
LEMMA Induction ==
    ASSUME NEW n \in Nat, NEW H, 0 \in H, \A k \in 1..n : k - 1 \in H => k \in H
    PROVE  \A k \in 0..n : k \in H
  <1> DEFINE T == {k \in 0..n : k \notin H}
  <1>1. SUFFICES ASSUME T # {} PROVE FALSE
    OBVIOUS
  <1>2. PICK k \in T : \A m \in T : k <= m
    <2>1. T \subseteq Nat
      OBVIOUS
    <2> HIDE DEF T
    <2>2. QED
      BY <1>1, <2>1, Least
  <1>3. k \in 1..n /\ k - 1 \in 0..n
    OBVIOUS
  <1>4. k - 1 \notin T
    BY <1>2, <1>3
  <1>5. QED
    BY <1>3, <1>4

\* What F keeps in S from k - 1 to k stays there.
LEMMA StaysIn ==
    ASSUME NEW n \in Nat, NEW S, NEW F, F[0] \in S, \A k \in 1..n : F[k - 1] \in S => F[k] \in S
    PROVE  \A k \in 0..n : F[k] \in S
  <1> DEFINE H == {k \in 0..n : F[k] \in S}
  <1>1. 0 \in H /\ \A k \in 1..n : k - 1 \in H => k \in H
    OBVIOUS
  <1> HIDE DEF H
  <1>2. \A k \in 0..n : k \in H
    BY <1>1, Induction
  <1>3. QED
    BY <1>2 DEF H

\* f is a at 0 and, at k, what g makes of its value at k - 1.
Follows(f, n, a, g) == f[0] = a /\ \A k \in 1..n : f[k] = g[k][f[k - 1]]

\* There is such an f.
LEMMA Recursion ==
    ASSUME NEW n \in Nat, NEW S, NEW a \in S, NEW g \in [1..n -> [S -> S]]
    PROVE  \E f \in [0..n -> S] : Follows(f, n, a, g)
  <1> DEFINE Upto(k) == \E f \in [0..k -> S] : f[0] = a /\ \A j \in 1..k : f[j] = g[j][f[j - 1]]
             H == {k \in 0..n : Upto(k)}
  <1>1. 0 \in H
    <2>1. [i \in 0..0 |-> a] \in [0..0 -> S] /\ 0 \in 0..0
      OBVIOUS
    <2>2. Upto(0)
      <3>1. [i \in 0..0 |-> a][0] = a /\ 1..0 = {}
        OBVIOUS
      <3>2. QED
        BY <2>1, <3>1
    <2>3. QED
      BY <2>2
  <1>2. ASSUME NEW k \in 1..n, k - 1 \in H PROVE k \in H
    <2>1. Upto(k - 1)
      BY <1>2
    <2>2. PICK f \in [0..(k - 1) -> S] : f[0] = a /\ \A j \in 1..(k - 1) : f[j] = g[j][f[j - 1]]
      BY <2>1
    <2> DEFINE h == [i \in 0..k |-> IF i = k THEN g[k][f[k - 1]] ELSE f[i]]
    <2>3. k - 1 \in 0..(k - 1) /\ f[k - 1] \in S /\ g[k] \in [S -> S]
      OBVIOUS
    <2>4. h \in [0..k -> S]
      <3>1. g[k][f[k - 1]] \in S
        BY <2>3
      <3>2. \A i \in 0..k : i # k => i \in 0..(k - 1)
        OBVIOUS
      <3>3. QED
        BY <3>1, <3>2
    <2>5. h[0] = a
      BY <2>2
    <2>6. ASSUME NEW j \in 1..k PROVE h[j] = g[j][h[j - 1]]
      <3>1. h[j - 1] = f[j - 1]
        OBVIOUS
      <3>2. CASE j = k
        BY <3>1, <3>2
      <3>3. CASE j # k
        <4>1. j \in 1..(k - 1) /\ h[j] = f[j]
          BY <3>3
        <4>2. QED
          BY <2>2, <3>1, <4>1
      <3>4. QED
        BY <3>2, <3>3
    <2> HIDE DEF h
    <2>7. Upto(k)
      BY <2>4, <2>5, <2>6
    <2>8. k \in 0..n
      OBVIOUS
    <2>9. QED
      BY <2>7, <2>8
  <1> HIDE DEF Upto
  <1>3. \A k \in 0..n : k \in H
    <2> HIDE DEF H
    <2>1. QED
      BY <1>1, <1>2, Induction
  <1>4. Upto(n)
    BY <1>3
  <1>5. QED
    BY <1>4 DEF Upto, Follows

-----------------------------------------------------------------
(* Division and remainders *)

\* A quotient below c, from a dividend below b * c.
LEMMA DivBelow ==
    ASSUME NEW a \in Nat, NEW b \in Nat \ {0}, NEW c \in Nat, a < b * c
    PROVE  a \div b \in Nat /\ a \div b < c
  OBVIOUS

\* Division with remainder.
LEMMA DivMod ==
    ASSUME NEW a \in Int, NEW b \in Nat \ {0}
    PROVE  /\ a \div b \in Int /\ a % b \in 0..(b - 1)
           /\ a = (b * (a \div b)) + (a % b)
           /\ a >= 0 => a \div b >= 0
  OBVIOUS

\* A quotient of natural numbers is one.
LEMMA DivNat ==
    ASSUME NEW a \in Nat, NEW b \in Nat \ {0}
    PROVE  /\ a \div b \in Nat /\ a % b \in 0..(b - 1)
           /\ a = (b * (a \div b)) + (a % b)
           /\ b * (a \div b) <= a
           /\ a < b * ((a \div b) + 1)
  <1> DEFINE d == a \div b
             r == a % b
  <1>1. d \in Nat /\ r \in 0..(b - 1) /\ a = (b * d) + r
    OBVIOUS
  <1> HIDE DEF d, r
  <1>2. b * d <= a /\ a < b * (d + 1)
    BY <1>1
  <1>3. QED
    BY <1>1, <1>2 DEF d, r

\* Quotient and remainder are the only ones.
LEMMA DivModUnique ==
    ASSUME NEW b \in Nat \ {0}, NEW d \in Int, NEW r \in 0..(b - 1)
    PROVE  ((b * d) + r) \div b = d /\ ((b * d) + r) % b = r
  <1> DEFINE a == (b * d) + r
             e == a \div b
             s == a % b
  <1>0. b * d \in Int
    OBVIOUS
  <1>1. a \in Int /\ e \in Int /\ s \in 0..(b - 1) /\ a = (b * e) + s
    BY <1>0, DivMod DEF a
  <1>2. b * (d - e) = s - r
    BY <1>1
  <1>3. d - e < 1
    <2>1. ASSUME d - e >= 1 PROVE FALSE
      <3>1. b * (d - e) >= b
        BY <1>1, <2>1
      <3>2. QED
        BY <1>1, <1>2, <3>1
    <2>2. QED
      BY <1>1, <2>1
  <1>4. e - d < 1
    <2>1. ASSUME e - d >= 1 PROVE FALSE
      <3>1. b * (e - d) >= b
        BY <1>1, <2>1
      <3>2. b * (e - d) = r - s
        BY <1>1
      <3>3. QED
        BY <1>1, <3>1, <3>2
    <2>2. QED
      BY <1>1, <2>1
  <1>5. e = d
    BY <1>1, <1>3, <1>4
  <1>6. QED
    BY <1>1, <1>5

\* Multiples of the modulus do not change a remainder.
LEMMA ModPlus ==
    ASSUME NEW a \in Int, NEW b \in Nat \ {0}, NEW k \in Int
    PROVE  (a + (k * b)) % b = a % b
  <1> DEFINE d == a \div b
             r == a % b
  <1>1. d \in Int /\ r \in 0..(b - 1) /\ a = (b * d) + r
    BY DivMod
  <1>2. a + (k * b) = (b * (d + k)) + r
    BY <1>1
  <1>3. d + k \in Int
    BY <1>1
  <1>4. ((b * (d + k)) + r) % b = r
    BY ONLY <1>1, <1>3, DivModUnique
  <1>5. QED
    BY <1>2, <1>4

\* A multiple taken away leaves the residue.
LEMMA ModMinus ==
    ASSUME NEW a \in Int, NEW b \in Nat \ {0}, NEW k \in Int
    PROVE  (a - (k * b)) % b = a % b
  <1> DEFINE j == -k
             c == a + (j * b)
  <1>1. j \in Int /\ a - (k * b) = c
    OBVIOUS
  <1>2. c % b = a % b
    <2> HIDE DEF j
    <2>1. QED
      BY <1>1, ModPlus
  <1>3. QED
    BY <1>1, <1>2

\* A remainder differs by a multiple of the divisor.
LEMMA ModIs ==
    ASSUME NEW a \in Int, NEW b \in Nat \ {0}
    PROVE  \E k \in Int : a % b = a - (k * b)
  <1> DEFINE d == a \div b
             r == a % b
  <1>1. d \in Int /\ r \in Int /\ a = (b * d) + r
    BY DivMod
  <1> HIDE DEF d, r
  <1>2. r = a - (d * b)
    BY <1>1
  <1>3. QED
    BY <1>1, <1>2 DEF r

\* A product of smaller numbers.
LEMMA ProductBelow ==
    ASSUME NEW a \in Nat, NEW b \in Nat, NEW c \in Nat, NEW d \in Nat, a < c, b < d
    PROVE  a * b \in Nat /\ a * b < c * d
  <1>1. a * b \in Nat /\ a * b <= a * d
    OBVIOUS
  <1>2. a * d < c * d
    OBVIOUS
  <1>3. QED
    BY <1>1, <1>2

\* Words are below R, and those below R are words already.
LEMMA WrapRange ==
    ASSUME NEW x \in Int
    PROVE  /\ Wrap(x) \in 0..(R - 1)
           /\ x \in 0..(R - 1) => Wrap(x) = x
  BY RAssumption, DivMod DEF Wrap

-----------------------------------------------------------------------------
(* Montgomery *)

\* The high word of a product below b * R.
LEMMA HiBelow ==
    ASSUME NEW a \in Nat, NEW b \in Nat, a < b * R
    PROVE  Hi(a) \in 0..(b - 1)
  <1>1. b \in Nat \ {0}
    BY RAssumption
  <1>2. a < R * b
    BY <1>1, RAssumption
  <1>3. QED
    BY <1>1, <1>2, RAssumption, DivBelow DEF Hi

\* One correction brings a number below 2q below q.
LEMMA CRedRange ==
    ASSUME NEW q \in Nat \ {0}, NEW a \in 0..((2 * q) - 1)
    PROVE  CRed(a, q) \in 0..(q - 1) /\ CRed(a, q) % q = a % q
  <1>1. CASE a < q
    BY <1>1 DEF CRed
  <1>2. CASE a >= q
    <2>1. CRed(a, q) = a + (-1 * q) /\ CRed(a, q) \in 0..(q - 1)
      BY <1>2 DEF CRed
    <2>2. (a + (-1 * q)) % q = a % q
      BY ONLY ModPlus, a \in 0..((2 * q) - 1), q \in Nat \ {0}
    <2>3. QED
      BY <2>1, <2>2
  <1>3. QED
    BY <1>1, <1>2

\* Montgomery's product of words below q * R needs one correction at most,
\* whatever is given as the inverse.
LEMMA MRedConstantRange ==
    ASSUME NEW q \in Nat \ {0}, 2 * q <= R, NEW qInv \in Nat,
           NEW x \in Nat, NEW y \in Nat, x * y < q * R
    PROVE  /\ MRedConstant(x, y, q, qInv) \in 1..((2 * q) - 1)
           /\ MRedConstant(x, y, q, qInv)
                = (Hi(x * y) - Hi(Wrap(Lo(x * y) * qInv) * q)) + q
  <1> DEFINE w == Wrap(Lo(x * y) * qInv)
             h == Hi(x * y)
             g == Hi(w * q)
  <1>1. x * y \in Nat
    OBVIOUS
  <1>2. h \in 0..(q - 1)
    BY <1>1, HiBelow
  <1>3. Lo(x * y) \in 0..(R - 1)
    BY <1>1, RAssumption, DivMod DEF Lo
  <1>4. Lo(x * y) * qInv \in Int
    BY <1>3, RAssumption
  <1>5. w \in 0..(R - 1)
    BY <1>4, WrapRange
  <1>6. w * q \in Nat /\ w * q < q * R
    <2>1. w \in Nat /\ w < R /\ R \in Nat /\ q \in Nat
      BY <1>5, RAssumption
    <2> HIDE DEF w
    <2>2. (R - w) * q > 0
      BY <2>1
    <2>3. QED
      BY <2>1, <2>2
  <1>7. g \in 0..(q - 1)
    BY <1>6, HiBelow
  <1>8. (h - g) + q \in 1..((2 * q) - 1)
    BY <1>2, <1>7
  <1>9. MRedConstant(x, y, q, qInv) = Wrap((h - g) + q)
    BY DEF MRedConstant
  <1>10. (h - g) + q \in 0..(R - 1) /\ (h - g) + q \in Int
    BY <1>8, RAssumption
  <1>11. QED
    BY <1>8, <1>9, <1>10, WrapRange

\* MRedConstant and MRed stay within their bounds.
LEMMA MRedRange ==
    ASSUME NEW q \in Nat \ {0}, 2 * q <= R, NEW qInv \in Nat,
           NEW x \in Nat, NEW y \in Nat, x * y < q * R
    PROVE  MRed(x, y, q, qInv) \in 0..(q - 1)
  <1>1. MRedConstant(x, y, q, qInv) \in 0..((2 * q) - 1)
    BY MRedConstantRange
  <1>2. QED
    BY <1>1, CRedRange DEF MRed

\* Unreduced, it is congruent to x * y / R: the term that makes the low half
\* vanish is a multiple of q.
LEMMA MRedConstantIs ==
    ASSUME NEW q \in Nat \ {0}, 2 * q <= R, NEW qInv \in Nat, (q * qInv) % R = 1 % R,
           NEW x \in Nat, NEW y \in Nat, x * y < q * R
    PROVE  (MRedConstant(x, y, q, qInv) * R) % q = (x * y) % q
  <1> DEFINE a == x * y
             l == Lo(a)
             w == Wrap(l * qInv)
             h == Hi(a)
             g == Hi(w * q)
             e == (q * qInv) \div R
             c == (l * qInv) \div R
  <1>1. a \in Nat /\ R \in Nat \ {0}
    BY RAssumption
  <1>2. l \in 0..(R - 1) /\ h \in Int /\ a = (R * h) + l
    BY <1>1, DivMod DEF Lo, Hi
  <1>3. l * qInv \in Int /\ c \in Int /\ w \in 0..(R - 1) /\ l * qInv = (R * c) + w
    <2>1. l * qInv \in Int
      BY <1>2
    <2> HIDE DEF l
    <2>2. QED
      BY <2>1, <1>1, DivMod DEF Wrap
  <1>4. e \in Int /\ q * qInv = (R * e) + (1 % R)
    <2>1. q * qInv \in Int
      OBVIOUS
    <2>2. QED
      BY <2>1, <1>1, DivMod
  <1>5. (w * q) % R = l
    <2>1. CASE R = 1
      <3>1. l = 0 /\ w * q \in Int
        BY <1>2, <1>3, <2>1
      <3>2. (w * q) % R \in 0..(R - 1)
        BY <3>1, <1>1, DivMod
      <3>3. QED
        BY <3>1, <3>2, <2>1
    <2>2. CASE R > 1
      <3>1. 1 % R = 1
        BY <1>1, <2>2
      <3> HIDE DEF l, w, c, e
      <3>2. w * q = (l * qInv * q) - (R * c * q)
        BY <1>1, <1>2, <1>3
      <3>3. l * qInv * q = (R * e * l) + l
        BY <1>1, <1>2, <1>4, <3>1
      <3>4. w * q = (R * ((e * l) - (c * q))) + l
        BY <1>1, <1>2, <1>3, <1>4, <3>2, <3>3
      <3>5. (e * l) - (c * q) \in Int
        BY <1>2, <1>3, <1>4
      <3> DEFINE d == (e * l) - (c * q)
      <3>6. d \in Int /\ ((R * d) + l) % R = l
        <4>1. d \in Int
          BY <3>5
        <4> HIDE DEF d
        <4>2. QED
          BY <4>1, <1>1, <1>2, DivModUnique
      <3>7. QED
        BY <3>4, <3>6
    <2>3. QED
      BY <1>1, <2>1, <2>2
  <1>6. g \in Int /\ w * q = (R * g) + l
    <2>1. w * q \in Int
      <3> HIDE DEF w
      <3>1. QED
        BY <1>3
    <2>2. QED
      BY <2>1, <1>1, <1>5, DivMod DEF Hi
  <1>7. ((h - g) + q) * R = a + ((R - w) * q)
    <2> HIDE DEF a, l, w, h, g
    <2>1. ((h - g) + q) * R = ((R * h) - (R * g)) + (R * q)
      BY <1>1, <1>2, <1>6
    <2>2. (R - w) * q = (R * q) - (w * q)
      BY <1>1, <1>3
    <2>3. R * h \in Int /\ R * g \in Int /\ R * q \in Int /\ w * q \in Int
      BY <1>1, <1>2, <1>3, <1>6
    <2>4. QED
      BY <1>1, <1>2, <1>6, <2>1, <2>2, <2>3
  <1>8. MRedConstant(x, y, q, qInv) * R = a + ((R - w) * q)
    BY <1>7, MRedConstantRange
  <1>9. (a + ((R - w) * q)) % q = a % q
    <2> DEFINE u == R - w
    <2>1. u \in Int /\ a \in Int
      BY <1>1, <1>3
    <2>2. (a + (u * q)) % q = a % q
      <3> HIDE DEF a, u
      <3>1. QED
        BY ONLY <2>1, q \in Nat \ {0}, ModPlus
    <2>3. QED
      BY <2>2
  <1>10. QED
    BY <1>8, <1>9

\* With q's inverse, Montgomery's product is x * y / R modulo q: times R it is
\* congruent to x * y.  Wrapping words, taking high halves and the one correction lose
\* nothing.
THEOREM MontgomeryProduct ==
    ASSUME NEW q \in Nat \ {0}, 2 * q <= R, NEW qInv \in Nat, (q * qInv) % R = 1 % R,
           NEW x \in Nat, NEW y \in Nat, x * y < q * R
    PROVE  /\ MRed(x, y, q, qInv) \in 0..(q - 1)
           /\ (MRed(x, y, q, qInv) * R) % q = (x * y) % q
  <1> DEFINE c == MRedConstant(x, y, q, qInv)
  <1>1. c \in 0..((2 * q) - 1) /\ (c * R) % q = (x * y) % q
    BY MRedConstantRange, MRedConstantIs
  <1>2. MRed(x, y, q, qInv) = CRed(c, q)
    BY DEF MRed
  <1> HIDE DEF c
  <1>3. CRed(c, q) = c \/ CRed(c, q) = c - q
    BY DEF CRed
  <1>4. R \in Nat /\ ((c * R) - (R * q)) % q = (c * R) % q
    <2>1. R \in Nat /\ c * R \in Int
      BY <1>1, RAssumption
    <2> DEFINE a == c * R
    <2> HIDE DEF a
    <2>2. (a - (R * q)) % q = a % q
      BY <2>1, ModMinus DEF a
    <2>3. QED
      BY <2>1, <2>2 DEF a
  <1>5. (c - q) * R = (c * R) - (R * q)
    BY <1>1, <1>4
  <1>6. QED
    BY <1>1, <1>2, <1>3, <1>4, <1>5, MRedRange

-----------------------------------------------------------------------------
(* Barrett *)

\* The quotient of z by q, estimated from one of Z by q, is one too small at most.
LEMMA BarrettEstimate ==
    ASSUME NEW q \in Nat \ {0}, NEW Z \in Nat \ {0}, NEW v \in Nat,
           v * q <= Z, Z < (v + 1) * q,
           NEW z \in 0..(Z - 1), NEW e \in Nat, Z * e <= z * v, z * v < Z * (e + 1)
    PROVE  z - (e * q) \in 0..((2 * q) - 1)
  <1>1. e * q <= z
    <2>1. (Z * e) * q <= (z * v) * q
      OBVIOUS
    <2>2. z * (v * q) <= z * Z
      OBVIOUS
    <2>3. Z * (e * q) <= Z * z
      BY <2>1, <2>2
    <2>4. ASSUME e * q > z PROVE FALSE
      BY <2>3, <2>4
    <2>5. e * q \in Nat
      OBVIOUS
    <2>6. QED
      BY <2>4, <2>5
  <1>2. z < (e * q) + (2 * q)
    <2>1. (z * v) * q < (Z * (e + 1)) * q
      OBVIOUS
    <2>2. z * (Z - q) <= z * (v * q)
      OBVIOUS
    <2>3. z * q <= Z * q
      OBVIOUS
    <2>4. Z * z < Z * (((e + 1) * q) + q)
      BY <2>1, <2>2, <2>3
    <2> DEFINE f == ((e + 1) * q) + q
    <2>5. f \in Nat /\ f = (e * q) + (2 * q)
      OBVIOUS
    <2>6. Z * z < Z * f
      BY <2>4
    <2> HIDE DEF f
    <2>7. z < f
      <3>1. ASSUME z >= f PROVE Z * z >= Z * f
        BY <2>5, <3>1
      <3>2. Z * z \in Nat /\ Z * f \in Nat
        BY <2>5
      <3>3. QED
        BY <2>5, <2>6, <3>1, <3>2
    <2>8. QED
      BY <2>5, <2>7
  <1>3. e * q \in Nat
    OBVIOUS
  <1>4. QED
    BY <1>1, <1>2, <1>3

\* Barrett's parameters are floor(R^2 / q), and its high word floor(R / q).
LEMMA BRedParamsAre ==
    ASSUME NEW q \in Nat \ {0}
    PROVE  /\ BRedParams(q)[1] \in Nat /\ BRedParams(q)[2] \in 0..(R - 1)
           /\ (R * R) \div q \in Nat
           /\ (R * BRedParams(q)[1]) + BRedParams(q)[2] = (R * R) \div q
           /\ ((R * R) \div q) * q <= R * R
           /\ R * R < (((R * R) \div q) + 1) * q
           /\ BRedParams(q)[1] * q <= R
           /\ R < (BRedParams(q)[1] + 1) * q
  <1> DEFINE D == (R * R) \div q
             v == D \div R
             s == D % R
  <1>1. R \in Nat \ {0} /\ R * R \in Nat
    BY RAssumption
  <1>2. D \in Nat /\ D * q <= R * R /\ R * R < (D + 1) * q
    <2> DEFINE A == R * R
    <2>1. A \in Nat
      BY <1>1
    <2> HIDE DEF A
    <2>2. A \div q \in Nat /\ (A \div q) * q <= A /\ A < ((A \div q) + 1) * q
      BY <2>1, DivMod
    <2>3. QED
      BY <2>2 DEF A
  <1> HIDE DEF D
  <1>3. v \in Nat /\ s \in 0..(R - 1) /\ D = (R * v) + s
    BY <1>2, RAssumption, DivNat
  <1> HIDE DEF v, s
  <1>4. v * q <= R
    <2>1. R * (v * q) <= R * R
      <3>1. (R * v) * q <= D * q
        BY <1>1, <1>2, <1>3
      <3>2. QED
        BY <1>1, <1>2, <1>3, <3>1
    <2>2. ASSUME v * q > R PROVE FALSE
      BY <1>1, <1>3, <2>1, <2>2
    <2>3. v * q \in Nat
      BY <1>3
    <2>4. QED
      BY <1>1, <2>2, <2>3
  <1>5. R < (v + 1) * q
    <2>1. (D + 1) * q <= (R * (v + 1)) * q
      <3>1. D + 1 <= R * (v + 1)
        BY <1>1, <1>2, <1>3
      <3>2. R * (v + 1) \in Nat
        BY <1>1, <1>3
      <3>3. QED
        BY <1>2, <3>1, <3>2
    <2>2. R * R < R * ((v + 1) * q)
      BY <1>1, <1>2, <1>3, <2>1
    <2>3. ASSUME R >= (v + 1) * q PROVE FALSE
      BY <1>1, <1>3, <2>2, <2>3
    <2>4. (v + 1) * q \in Nat
      BY <1>3
    <2>5. QED
      BY <1>1, <2>3, <2>4
  <1>6. BRedParams(q)[1] = v /\ BRedParams(q)[2] = s
    BY DEF BRedParams, D, v, s
  <1>7. QED
    BY <1>2, <1>3, <1>4, <1>5, <1>6 DEF D

\* The cheap reduction of a word: from its high word alone, to below 2q.
LEMMA BRedAddConstantRange ==
    ASSUME NEW q \in Nat \ {0}, 2 * q <= R, NEW x \in 0..(R - 1)
    PROVE  /\ BRedAddConstant(x, q, BRedParams(q)) \in 0..((2 * q) - 1)
           /\ BRedAddConstant(x, q, BRedParams(q)) % q = x % q
  <1> DEFINE v == BRedParams(q)[1]
             e == Hi(x * v)
  <1>1. v \in Nat /\ v * q <= R /\ R < (v + 1) * q /\ R \in Nat \ {0}
    BY BRedParamsAre, RAssumption
  <1>2. x * v \in Nat
    BY <1>1
  <1>3. e \in Nat /\ R * e <= x * v /\ x * v < R * (e + 1)
    <2> DEFINE a == x * v
    <2>1. a \in Nat
      BY <1>2
    <2> HIDE DEF a
    <2>2. a \div R \in Nat /\ R * (a \div R) <= a /\ a < R * ((a \div R) + 1)
      BY <2>1, RAssumption, DivNat
    <2>3. QED
      BY <2>2 DEF Hi, a
  <1> HIDE DEF v, e
  <1>4. x - (e * q) \in 0..((2 * q) - 1)
    BY <1>1, <1>3, BarrettEstimate
  <1>5. Wrap(x - (e * q)) = x - (e * q)
    <2>1. x - (e * q) \in 0..(R - 1)
      BY <1>1, <1>4
    <2>2. QED
      BY <2>1, WrapRange
  <1>6. BRedAddConstant(x, q, BRedParams(q)) = x - (e * q)
    BY <1>5 DEF BRedAddConstant, e, v
  <1>7. (x - (e * q)) % q = x % q
    <2>1. e \in Int /\ x \in Int
      BY <1>3
    <2>2. QED
      BY <2>1, ModMinus, Zenon
  <1>8. QED
    BY <1>4, <1>6, <1>7

\* BRedAdd is x modulo q, for every word.
THEOREM BarrettReduction ==
    ASSUME NEW q \in Nat \ {0}, 2 * q <= R, NEW x \in 0..(R - 1)
    PROVE  BRedAdd(x, q, BRedParams(q)) = x % q
  <1> DEFINE c == BRedAddConstant(x, q, BRedParams(q))
  <1>1. c \in 0..((2 * q) - 1) /\ c % q = x % q
    BY BRedAddConstantRange
  <1> HIDE DEF c
  <1>2. CRed(c, q) \in 0..(q - 1) /\ CRed(c, q) % q = c % q
    BY <1>1, CRedRange
  <1>3. \A r \in 0..(q - 1) : r % q = r
    OBVIOUS
  <1>4. QED
    BY <1>1, <1>2, <1>3 DEF BRedAdd, c

\* The word products and carries of BRedQuotient add up to the upper two words of
\* the four that (x * y) * u has.
LEMMA BRedQuotientIs ==
    ASSUME NEW q \in Nat \ {0}, NEW x \in 0..(R - 1), NEW y \in 0..(R - 1)
    PROVE  \E E \in Nat :
               /\ BRedQuotient(x, y, BRedParams(q)) = Wrap(E)
               /\ (R * R) * E <= (x * y) * ((R * R) \div q)
               /\ (x * y) * ((R * R) \div q) < (R * R) * (E + 1)
  <1> DEFINE mhi == Hi(x * y)
             mlo == Lo(x * y)
             u1  == BRedParams(q)[1]
             u2  == BRedParams(q)[2]
             a   == mlo * u1
             b   == mlo * u2
             c   == mhi * u2
             s0  == Lo(a) + Hi(b)
             s1  == Lo(c) + Lo(s0)
             D   == (R * R) \div q
             E   == mhi * u1 + Hi(a) + Hi(s0) + Hi(c) + Hi(s1)
  <1>0. R \in Nat \ {0} /\ x * y \in Nat
    BY RAssumption
  <1>1. \A z \in Nat : Hi(z) \in Nat /\ Lo(z) \in Nat /\ Lo(z) < R /\ z = (R * Hi(z)) + Lo(z)
    BY RAssumption, DivNat DEF Hi, Lo
  <1>2. mhi \in Nat /\ mlo \in Nat /\ x * y = (R * mhi) + mlo
    BY <1>0, <1>1
  <1>3. u1 \in Nat /\ u2 \in Nat /\ D \in Nat /\ D = (R * u1) + u2
    BY <1>0, BRedParamsAre
  <1> HIDE DEF mhi, mlo, u1, u2, D
  <1>4. a \in Nat /\ b \in Nat /\ c \in Nat
    BY <1>2, <1>3
  <1>5. a = (R * Hi(a)) + Lo(a) /\ b = (R * Hi(b)) + Lo(b) /\ c = (R * Hi(c)) + Lo(c)
    BY <1>1, <1>4
  <1>6. /\ Hi(a) \in Nat /\ Lo(a) \in Nat /\ Hi(b) \in Nat /\ Lo(b) \in Nat /\ Lo(b) < R
        /\ Hi(c) \in Nat /\ Lo(c) \in Nat
    BY <1>1, <1>4
  <1>7. s0 \in Nat
    BY <1>6
  <1>8. Hi(s0) \in Nat /\ Lo(s0) \in Nat /\ s0 = (R * Hi(s0)) + Lo(s0)
    BY <1>1, <1>7
  <1>9. s1 \in Nat
    BY <1>6, <1>8
  <1>10. Hi(s1) \in Nat /\ Lo(s1) \in Nat /\ Lo(s1) < R /\ s1 = (R * Hi(s1)) + Lo(s1)
    BY <1>1, <1>9
  <1>11. E \in Nat
    BY <1>2, <1>3, <1>6, <1>8, <1>10
  <1> DEFINE ah == Hi(a)  al == Lo(a)  bh == Hi(b)  bl == Lo(b)  ch == Hi(c)  cl == Lo(c)
             sh == Hi(s0) sl == Lo(s0) th == Hi(s1) tl == Lo(s1)
  <1>12. (x * y) * D = (R * R) * E + ((R * tl) + bl)
    <2>1. (x * y) * D = (R * R) * (mhi * u1) + R * (mlo * u1) + R * (mhi * u2) + mlo * u2
      <3>1. (x * y) * D = ((R * mhi) + mlo) * ((R * u1) + u2)
        BY <1>2, <1>3
      <3>2. QED
        BY <3>1, <1>0, <1>2, <1>3
    <2>2. mlo * u1 = (R * ah) + al /\ mlo * u2 = (R * bh) + bl /\ mhi * u2 = (R * ch) + cl
      BY <1>5
    <2>3. (R * sh) + sl = al + bh /\ (R * th) + tl = cl + sl
      BY <1>8, <1>10
    <2>4. /\ ah \in Nat /\ al \in Nat /\ bh \in Nat /\ bl \in Nat /\ ch \in Nat /\ cl \in Nat
          /\ sh \in Nat /\ sl \in Nat /\ th \in Nat /\ tl \in Nat
      BY <1>6, <1>8, <1>10
    <2> DEFINE p == mhi * u1
    <2>5. p \in Nat /\ E = p + ah + sh + ch + th
      BY <1>2, <1>3
    <2>6. (x * y) * D = (R * R) * p + R * ((R * ah) + al) + R * ((R * ch) + cl) + ((R * bh) + bl)
      BY <2>1, <2>2
    <2> HIDE DEF ah, al, bh, bl, ch, cl, sh, sl, th, tl, p, E
    <2>7. R * (al + bh + cl) = (R * R) * sh + (R * R) * th + R * tl
      <3>1. al + bh + cl = (R * sh) + (R * th) + tl
        BY <1>0, <2>3, <2>4
      <3>2. QED
        BY <3>1, <1>0, <2>4
    <2>8. (R * R) * E = (R * R) * p + (R * R) * ah + (R * R) * sh + (R * R) * ch + (R * R) * th
      BY <1>0, <2>4, <2>5
    <2>9. (x * y) * D = (R * R) * p + (R * R) * ah + (R * R) * ch + R * (al + bh + cl) + bl
      BY <1>0, <2>4, <2>5, <2>6
    <2>10. QED
      BY <1>0, <2>4, <2>5, <2>7, <2>8, <2>9
  <1>13. (R * tl) + bl \in Nat /\ (R * tl) + bl < R * R
    <2>1. tl \in Nat /\ tl <= R - 1 /\ bl \in Nat /\ bl < R
      BY <1>0, <1>6, <1>10
    <2> HIDE DEF tl, bl
    <2>2. R * tl <= R * (R - 1)
      BY <1>0, <2>1
    <2>3. QED
      BY <1>0, <2>1, <2>2
  <1>14. BRedQuotient(x, y, BRedParams(q)) = Wrap(E)
    BY DEF BRedQuotient, mhi, mlo, u1, u2
  <1>15. (R * R) * E <= (x * y) * D /\ (x * y) * D < (R * R) * (E + 1)
    <2> DEFINE rest == (R * tl) + bl
    <2>1. rest \in Nat /\ rest < R * R
      BY <1>13
    <2>2. (x * y) * D = (R * R) * E + rest
      BY <1>12
    <2> HIDE DEF rest, E
    <2>3. (R * R) * E \in Nat /\ (R * R) * (E + 1) = (R * R) * E + R * R /\ R * R \in Nat
      BY <1>0, <1>11
    <2>4. QED
      BY <2>1, <2>2, <2>3
  <1>16. QED
    BY <1>11, <1>14, <1>15 DEF D

\* Barrett's product of two words is below 2q before its one correction, and
\* x * y modulo q.
LEMMA BRedConstantRange ==
    ASSUME NEW q \in Nat \ {0}, 2 * q <= R, NEW x \in 0..(R - 1), NEW y \in 0..(R - 1)
    PROVE  /\ BRedConstant(x, y, q, BRedParams(q)) \in 0..((2 * q) - 1)
           /\ BRedConstant(x, y, q, BRedParams(q)) % q = (x * y) % q
  <1> DEFINE z == x * y
             D == (R * R) \div q
  <1>0. R \in Nat \ {0} /\ R * R \in Nat \ {0}
    BY RAssumption
  <1>1. PICK E \in Nat : /\ BRedQuotient(x, y, BRedParams(q)) = Wrap(E)
                         /\ (R * R) * E <= z * D
                         /\ z * D < (R * R) * (E + 1)
    BY BRedQuotientIs
  <1>2. z \in 0..((R * R) - 1)
    <2>1. x * y \in Nat /\ x * y < R * R
      BY <1>0, ProductBelow
    <2>2. QED
      BY <1>0, <2>1
  <1>3. D \in Nat /\ D * q <= R * R /\ R * R < (D + 1) * q
    BY BRedParamsAre
  <1>4. z - (E * q) \in 0..((2 * q) - 1)
    <2> DEFINE S == R * R
    <2>1. S \in Nat \ {0} /\ z \in 0..(S - 1) /\ D * q <= S /\ S < (D + 1) * q
      BY <1>0, <1>2, <1>3
    <2>2. S * E <= z * D /\ z * D < S * (E + 1)
      BY <1>1
    <2> HIDE DEF S, z, D
    <2>3. QED
      BY <1>3, <2>1, <2>2, BarrettEstimate
  <1> HIDE DEF D
  <1>5. Wrap(Lo(z) - (Wrap(E) * q)) = z - (E * q)
    <2> DEFINE zh == z \div R
               zl == z % R
               eh == E \div R
               el == E % R
               k  == (eh * q) - zh
               f  == z - (E * q)
    <2>1. zh \in Nat /\ zl \in Nat /\ z = (R * zh) + zl
      BY <1>0, <1>2, RAssumption, DivNat
    <2>2. eh \in Nat /\ el \in Nat /\ E = (R * eh) + el
      BY RAssumption, DivNat
    <2>3. f \in 0..(R - 1)
      BY <1>0, <1>4
    <2> HIDE DEF zh, zl, eh, el, z
    <2>4. zl - (el * q) = f + (k * R)
      <3>1. E * q = (R * eh * q) + (el * q)
        BY <1>0, <2>2
      <3>2. k * R = (R * eh * q) - (R * zh)
        BY <1>0, <2>1, <2>2
      <3>3. el * q \in Int /\ R * eh * q \in Int /\ R * zh \in Int
        BY <1>0, <2>1, <2>2
      <3>4. QED
        BY <2>1, <3>1, <3>2, <3>3
    <2>5. k \in Int /\ f \in Int
      BY <2>1, <2>2, <2>3
    <2> HIDE DEF k, f
    <2>6. (f + (k * R)) % R = f % R
      BY <2>5, RAssumption, ModPlus, Zenon
    <2>7. f % R = f
      BY <2>3, <2>5, WrapRange DEF Wrap
    <2>8. Wrap(Lo(z) - (Wrap(E) * q)) = (zl - (el * q)) % R
      BY DEF Wrap, Lo, zl, el
    <2>9. QED
      BY <2>4, <2>6, <2>7, <2>8 DEF f
  <1>6. BRedConstant(x, y, q, BRedParams(q)) = z - (E * q)
    BY <1>1, <1>5 DEF BRedConstant
  <1>7. (z - (E * q)) % q = z % q
    <2>1. z \in Int /\ E \in Int
      BY <1>2
    <2> HIDE DEF z
    <2>2. QED
      BY <2>1, ModMinus, Zenon
  <1>8. QED
    BY <1>4, <1>6, <1>7

\* BRed is the product modulo q of any two words: whatever the estimate of the
\* quotient and its carries leave out, one correction makes up for.
THEOREM BarrettProduct ==
    ASSUME NEW q \in Nat \ {0}, 2 * q <= R, NEW x \in 0..(R - 1), NEW y \in 0..(R - 1)
    PROVE  BRed(x, y, q, BRedParams(q)) = (x * y) % q
  <1> DEFINE c == BRedConstant(x, y, q, BRedParams(q))
  <1>1. c \in 0..((2 * q) - 1) /\ c % q = (x * y) % q
    BY BRedConstantRange
  <1> HIDE DEF c
  <1>2. CRed(c, q) \in 0..(q - 1) /\ CRed(c, q) % q = c % q
    BY <1>1, CRedRange
  <1>3. \A r \in 0..(q - 1) : r % q = r
    OBVIOUS
  <1>4. QED
    BY <1>1, <1>2, <1>3 DEF BRed, c

-----------------------------------------------------------------------------
(* The Montgomery domain *)

\* To the domain: a * R reduced by floor(R^2 / q), of which only the word it is
\* subtracted in is kept.
LEMMA MFormConstantRange ==
    ASSUME NEW q \in Nat \ {0}, 2 * q <= R, NEW a \in 0..(R - 1)
    PROVE  /\ MFormConstant(a, q, BRedParams(q)) \in 0..((2 * q) - 1)
           /\ MFormConstant(a, q, BRedParams(q)) % q = (a * R) % q
  <1> DEFINE D == (R * R) \div q
             u1 == BRedParams(q)[1]
             u2 == BRedParams(q)[2]
             h == Hi(a * u2)
             e == (a * u1) + h
             z == a * R
  <1>1. /\ R \in Nat \ {0} /\ u1 \in Nat /\ u2 \in Nat /\ D \in Nat /\ D = (R * u1) + u2
        /\ D * q <= R * R /\ R * R < (D + 1) * q /\ R * R \in Nat \ {0}
    BY BRedParamsAre, RAssumption
  <1> HIDE DEF D, u1, u2
  <1>2. h \in Nat /\ R * h <= a * u2 /\ a * u2 < R * (h + 1)
    <2> DEFINE b == a * u2
    <2>1. b \in Nat
      BY <1>1
    <2> HIDE DEF b
    <2>2. b \div R \in Nat /\ R * (b \div R) <= b /\ b < R * ((b \div R) + 1)
      BY <2>1, <1>1, DivNat
    <2>3. QED
      BY <2>2 DEF Hi, b
  <1> HIDE DEF h
  <1>3. e \in Nat /\ a * u1 \in Nat
    BY <1>1, <1>2
  <1>4. R * e <= a * D /\ a * D < R * (e + 1)
    <2>1. R * e = (R * (a * u1)) + (R * h) /\ R * (e + 1) = (R * (a * u1)) + (R * (h + 1))
      BY <1>1, <1>2, <1>3
    <2>2. a * D = (R * (a * u1)) + (a * u2)
      BY <1>1
    <2>3. QED
      BY <1>1, <1>2, <1>3, <2>1, <2>2
  <1> HIDE DEF e
  <1>5. z \in 0..((R * R) - 1)
    <2>1. a * R <= (R - 1) * R
      BY <1>1
    <2>2. a * R \in Nat /\ (R - 1) * R = (R * R) - R
      BY <1>1
    <2>3. QED
      BY <1>1, <2>1, <2>2
  <1>6. (R * R) * e <= z * D /\ z * D < (R * R) * (e + 1)
    <2>1. R * (R * e) <= R * (a * D) /\ R * (a * D) < R * (R * (e + 1))
      BY <1>1, <1>3, <1>4
    <2>2. (R * R) * e = R * (R * e) /\ (R * R) * (e + 1) = R * (R * (e + 1)) /\ z * D = R * (a * D)
      BY <1>1, <1>3
    <2>3. QED
      BY <2>1, <2>2
  <1>7. z - (e * q) \in 0..((2 * q) - 1)
    <2> DEFINE Z == R * R
    <2>1. /\ Z \in Nat \ {0} /\ D * q <= Z /\ Z < (D + 1) * q /\ z \in 0..(Z - 1)
          /\ Z * e <= z * D /\ z * D < Z * (e + 1)
      BY <1>1, <1>5, <1>6
    <2> HIDE DEF Z, z
    <2>2. QED
      BY <1>1, <1>3, <2>1, BarrettEstimate
  <1>8. Wrap(-(e * q)) = z - (e * q)
    <2>1. z - (e * q) \in 0..(R - 1) /\ e * q \in Int
      BY <1>1, <1>3, <1>7
    <2>2. Wrap(z - (e * q)) = z - (e * q)
      BY <2>1, WrapRange
    <2> DEFINE c == -(e * q)
    <2>3. c \in Int /\ z - (e * q) = c + (a * R)
      BY <2>1, <1>1
    <2> HIDE DEF c, z
    <2>4. (c + (a * R)) % R = c % R
      <3>1. a \in Int /\ R \in Nat \ {0}
        BY <1>1
      <3>2. QED
        BY <2>3, <3>1, ModPlus, Zenon
    <2>5. QED
      BY <2>2, <2>3, <2>4 DEF Wrap, c
  <1>9. MFormConstant(a, q, BRedParams(q)) = z - (e * q)
    BY <1>8 DEF MFormConstant, e, h, u1, u2
  <1>10. (z - (e * q)) % q = z % q
    <2>1. e \in Int /\ z \in Int
      BY <1>3, <1>5
    <2>2. QED
      BY <2>1, ModMinus, Zenon
  <1>11. QED
    BY <1>7, <1>9, <1>10

\* MForm(a) is a * R modulo q, for every word.
THEOREM ToMontgomery ==
    ASSUME NEW q \in Nat \ {0}, 2 * q <= R, NEW a \in 0..(R - 1)
    PROVE  MForm(a, q, BRedParams(q)) \in 0..(q - 1) /\ MForm(a, q, BRedParams(q)) = (a * R) % q
  <1> DEFINE c == MFormConstant(a, q, BRedParams(q))
  <1>1. c \in 0..((2 * q) - 1) /\ c % q = (a * R) % q
    BY MFormConstantRange
  <1> HIDE DEF c
  <1>2. CRed(c, q) \in 0..(q - 1) /\ CRed(c, q) % q = c % q
    BY <1>1, CRedRange
  <1>3. \A r \in 0..(q - 1) : r % q = r
    OBVIOUS
  <1>4. QED
    BY <1>1, <1>2, <1>3 DEF MForm, c

\* And back: what InvMForm returns is a once multiplied by R again.
THEOREM FromMontgomery ==
    ASSUME NEW q \in Nat \ {0}, q < R, NEW qInv \in Nat, (q * qInv) % R = 1 % R,
           NEW a \in 0..(R - 1)
    PROVE  /\ InvMForm(a, q, qInv) \in 0..(q - 1)
           /\ (InvMForm(a, q, qInv) * R) % q = a % q
  <1> DEFINE w == Wrap(a * qInv)
             g == Hi(w * q)
             c == q - g
  <1>1. R \in Nat \ {0} /\ w \in 0..(R - 1)
    BY RAssumption, WrapRange
  <1>2. PICK s \in Int : w = (a * qInv) - (s * R)
    <2>1. a * qInv \in Int
      OBVIOUS
    <2>2. QED
      BY <2>1, <1>1, ModIs, Zenon DEF Wrap
  <1>3. PICK t \in Int : q * qInv = (t * R) + (1 % R)
    <2>1. q * qInv \in Int
      OBVIOUS
    <2>2. PICK k \in Int : (q * qInv) % R = (q * qInv) - (k * R)
      BY <2>1, <1>1, ModIs, Zenon
    <2>3. k * R \in Int /\ 1 % R = (q * qInv) - (k * R)
      BY <1>1, <2>2
    <2>4. \A y, z \in Int : y = (q * qInv) - z => q * qInv = z + y
      BY <2>1
    <2>5. 1 % R \in Int
      BY <1>1
    <2>6. QED
      BY <2>3, <2>4, <2>5
  <1>4. 1 % R = IF R = 1 THEN 0 ELSE 1
    BY <1>1
  <1> HIDE DEF w
  <1>5. w * q = (R * g) + a /\ g \in 0..(q - 1)
    <2> DEFINE b == w * q
    <2>1. b \in Nat /\ b < q * R
      <3>1. w * q <= (R - 1) * q
        BY <1>1
      <3>2. w * q \in Nat /\ (R - 1) * q < q * R /\ (R - 1) * q \in Nat /\ q * R \in Nat
        BY <1>1
      <3>3. QED
        BY <3>1, <3>2
    <2>2. b = (R * ((a * t) - (s * q))) + a
      <3>1. a = 0 \/ R # 1
        BY <1>1
      <3>2. a * (1 % R) = a
        BY <1>1, <1>4, <3>1
      <3>3. b = (a * (q * qInv)) - ((s * R) * q)
        BY <1>1, <1>2
      <3>4. a * (q * qInv) = (a * (t * R)) + (a * (1 % R))
        BY <1>1, <1>3, <1>4
      <3>5. b = ((a * (t * R)) + a) - ((s * R) * q)
        BY <3>2, <3>3, <3>4
      <3>6. QED
        BY <1>1, <3>5
    <2>3. (a * t) - (s * q) \in Int
      OBVIOUS
    <2> HIDE DEF b
    <2>4. b \div R = (a * t) - (s * q)
      BY <1>1, <2>2, <2>3, DivModUnique
    <2>5. b \div R \in 0..(q - 1)
      BY <2>1, HiBelow DEF Hi
    <2>6. QED
      BY <2>2, <2>4, <2>5 DEF Hi, b
  <1> HIDE DEF g
  <1>6. c \in 1..q
    BY <1>5
  <1>7. CRed(c, q) \in 0..(q - 1) /\ \E k \in Int : CRed(c, q) = c - (k * q)
    <2>1. CASE c = q
      <3>1. CRed(c, q) = c - (1 * q) /\ CRed(c, q) = 0
        BY <2>1 DEF CRed
      <3>2. QED
        BY <3>1
    <2>2. CASE c # q
      <3>1. CRed(c, q) = c /\ c < q
        BY <1>6, <2>2 DEF CRed
      <3>2. c = c - (0 * q) /\ c \in 0..(q - 1) /\ 0 \in Int
        BY <1>6, <3>1
      <3> HIDE DEF c
      <3>3. QED
        BY <3>1, <3>2
    <2>3. QED
      BY <2>1, <2>2
  <1>8. PICK k \in Int : CRed(c, q) = c - (k * q)
    BY <1>7
  <1>9. CRed(c, q) * R = a + ((R - w - (k * R)) * q)
    <2>1. CRed(c, q) * R = (q * R) - (R * g) - ((k * q) * R)
      BY <1>1, <1>5, <1>8
    <2>2. CRed(c, q) * R = (q * R) - (w * q) + a - ((k * q) * R)
      BY <1>1, <1>5, <2>1
    <2>3. QED
      BY <1>1, <2>2
  <1>10. R - w - (k * R) \in Int
    BY <1>1
  <1>11. (CRed(c, q) * R) % q = a % q
    <2> DEFINE n == R - w - (k * R)
    <2>1. n \in Int /\ a \in Int
      BY <1>10
    <2> HIDE DEF n
    <2>2. (a + (n * q)) % q = a % q
      BY <2>1, ModPlus, Zenon
    <2>3. QED
      BY <1>9, <2>2 DEF n
  <1>12. InvMForm(a, q, qInv) = CRed(c, q)
    BY DEF InvMForm, InvMFormConstant, g, w
  <1>13. QED
    BY <1>7, <1>11, <1>12

-----------------------------------------------------------------------------
(* Inverses and powers *)

\* A number one more than a multiple of twice b squares to one more than a
\* multiple of four times b.
LEMMA SquareOfOdd ==
    ASSUME NEW b \in Nat \ {0}, NEW s \in Int, NEW t \in Int, s = 1 + (t * (2 * b))
    PROVE  s * s = 1 + ((t + (t * (t * b))) * (2 * (2 * b)))
  <1>1. s * s = 1 + (2 * (t * (2 * b))) + ((t * (2 * b)) * (t * (2 * b)))
    OBVIOUS
  <1>2. QED
    BY <1>1

\* The squarings of MRedParams: of the pair << x, s >> after k of them, x is
\* below R, q * x is s modulo R, and s is 1 modulo 2^(k+1).
InverseAfter(q, k) ==
    {p \in (0..(R - 1)) \X (0..(R - 1)) :
        /\ \E t \in Int : q * p[1] = p[2] + (t * R)
        /\ \E t \in Int : p[2] = 1 + (t * (2 * 2^k))}

\* One step of the Newton iteration of MRedParams doubles the bits that are
\* right.
LEMMA InverseStep ==
    ASSUME NEW q \in Nat, NEW k \in 0..(W - 2), NEW p \in InverseAfter(q, k)
    PROVE  << Wrap(p[1] * p[2]), Wrap(p[2] * p[2]) >> \in InverseAfter(q, k + 1)
  <1> DEFINE x == p[1]
             s == p[2]
             b == 2^k
             c == 2^(W - (k + 2))
  <1>1. x \in 0..(R - 1) /\ s \in 0..(R - 1) /\ R \in Nat \ {0}
    BY RAssumption DEF InverseAfter
  <1>2. PICK t \in Int : q * x = s + (t * R)
    BY DEF InverseAfter
  <1>3. PICK u \in Int : s = 1 + (u * (2 * b))
    BY DEF InverseAfter
  <1>4. b \in Nat \ {0} /\ 2^(k + 1) = 2 * b /\ c \in Nat \ {0} /\ R = (2 * (2 * b)) * c
    <2>1. k \in 0..W /\ k + 1 \in 0..W /\ k + 2 \in 0..W /\ k < W /\ k + 1 < W /\ (k + 1) + 1 = k + 2
      BY WAssumption
    <2>2. b \in Nat \ {0} /\ 2^(k + 1) = 2 * b
      BY <2>1, WordPowers
    <2>3. 2^(k + 2) = 2 * 2^(k + 1)
      BY <2>1, WordPowers
    <2>4. c \in Nat \ {0} /\ R = 2^(k + 2) * c
      BY <2>1, WordPowers
    <2>5. QED
      BY <2>2, <2>3, <2>4
  <1> HIDE DEF x, s, b, c
  <1>5. x * s \in Int /\ s * s \in Int
    BY <1>1
  <1>6. PICK v \in Int : Wrap(x * s) = (x * s) - (v * R)
    BY <1>1, <1>5, ModIs, Zenon DEF Wrap
  <1>7. PICK w \in Int : Wrap(s * s) = (s * s) - (w * R)
    BY <1>1, <1>5, ModIs, Zenon DEF Wrap
  <1>8. Wrap(x * s) \in 0..(R - 1) /\ Wrap(s * s) \in 0..(R - 1)
    BY <1>5, WrapRange
  <1>9. \E z \in Int : q * Wrap(x * s) = Wrap(s * s) + (z * R)
    <2> DEFINE z == (t * s) - (q * v) + w
    <2>1. q * Wrap(x * s) = ((q * x) * s) - ((q * v) * R)
      BY <1>1, <1>6
    <2>2. q * Wrap(x * s) = (s * s) + ((t * s) * R) - ((q * v) * R)
      BY <1>1, <1>2, <2>1
    <2>3. z \in Int /\ q * Wrap(x * s) = Wrap(s * s) + (z * R)
      BY <1>1, <1>7, <2>2
    <2>4. QED
      BY <2>3
  <1>10. \E z \in Int : Wrap(s * s) = 1 + (z * (2 * 2^(k + 1)))
    <2> DEFINE z == (u + (u * (u * b))) - (w * c)
    <2>1. s * s = 1 + ((u + (u * (u * b))) * (2 * (2 * b)))
      BY <1>1, <1>3, <1>4, SquareOfOdd
    <2>2. w * R = (w * c) * (2 * (2 * b))
      BY <1>4
    <2>3. (u + (u * (u * b))) \in Int /\ w * c \in Int
      BY <1>4
    <2>4. z \in Int /\ Wrap(s * s) = 1 + (z * (2 * (2 * b)))
      BY <1>4, <1>7, <2>1, <2>2, <2>3
    <2> HIDE DEF z
    <2>5. QED
      BY <1>4, <2>4
  <1>11. QED
    BY <1>8, <1>9, <1>10 DEF InverseAfter, x, s

\* MRedParams(q) is the inverse of an odd q modulo R.
THEOREM MontgomeryInverse ==
    ASSUME NEW q \in 1..(R - 1), q % 2 = 1
    PROVE  MRedParams(q) \in 0..(R - 1) /\ (q * MRedParams(q)) % R = 1 % R
  <1> DEFINE n == W - 1
             S == (0..(R - 1)) \X (0..(R - 1))
             next(s) == << Wrap(s[1] * s[2]), Wrap(s[2] * s[2]) >>
             inv[k \in 0..W-1] ==
                 IF k = 0 THEN << 1, q >>
                 ELSE LET s == inv[k-1] IN << Wrap(s[1] * s[2]), Wrap(s[2] * s[2]) >>
  <1>1. MRedParams(q) = inv[n][1]
    BY DEF MRedParams
  <1>2. n \in Nat /\ R \in Nat \ {0} /\ R > 1 /\ << 1, q >> \in S
    <2>1. W \in Nat \ {0} /\ 1 \in 0..W /\ 0 \in 0..W /\ 0 < W
      BY WAssumption
    <2>2. R \in Nat \ {0}
      BY RAssumption
    <2>3. QED
      BY <2>1, <2>2
  <1>3. \A s \in S : next(s) \in S
    <2>1. SUFFICES ASSUME NEW s \in S PROVE next(s) \in S
      OBVIOUS
    <2>2. PICK x \in 0..(R - 1), y \in 0..(R - 1) : s = << x, y >>
      BY DEF S
    <2>3. x * y \in Int /\ y * y \in Int
      BY <1>2
    <2>4. Wrap(x * y) \in 0..(R - 1) /\ Wrap(y * y) \in 0..(R - 1)
      BY <2>3, WrapRange
    <2>5. QED
      BY <2>2, <2>4
  <1>4. inv = [k \in 0..n |-> IF k = 0 THEN << 1, q >> ELSE next(inv[k-1])]
    <2> DEFINE g == [k \in 1..n |-> [s \in S |-> next(s)]]
    <2>1. g \in [1..n -> [S -> S]]
      BY <1>3
    <2> HIDE DEF g, S, n, inv
    <2>2. PICK f \in [0..n -> S] : Follows(f, n, << 1, q >>, g)
      BY <1>2, <2>1, Recursion, Zenon
    <2>3. ASSUME NEW k \in 1..n PROVE f[k] = next(f[k - 1])
      <3>1. k - 1 \in 0..n
        BY <1>2
      <3>2. f[k - 1] \in S /\ f[k] = g[k][f[k - 1]]
        BY <2>2, <3>1 DEF Follows
      <3>3. \A s \in S : g[k][s] = next(s)
        BY Zenon DEF g
      <3>4. QED
        BY <3>2, <3>3, Zenon
    <2>4. f = [k \in 0..n |-> IF k = 0 THEN << 1, q >> ELSE next(f[k-1])]
      <3>1. \A k \in 0..n : k # 0 => k \in 1..n
        BY <1>2
      <3>2. f[0] = << 1, q >> /\ f = [k \in 0..n |-> f[k]]
        BY <2>2 DEF Follows
      <3> HIDE DEF next
      <3>3. \A k \in 0..n : f[k] = IF k = 0 THEN << 1, q >> ELSE next(f[k-1])
        BY <2>3, <3>1, <3>2
      <3>4. QED
        BY <3>2, <3>3, Zenon
    <2>5. QED
      BY <2>4 DEF inv, n
  <1> HIDE DEF inv
  <1> DEFINE H == {k \in 0..n : inv[k] \in InverseAfter(q, k)}
  <1>5. 0 \in H
    <2>1. 0 \in 0..n /\ 0 \in 0..W
      BY <1>2, WAssumption
    <2>2. 2^0 = 1
      BY <2>1, WordPowers
    <2>3. \E t \in Int : q = 1 + (t * (2 * 1))
      <3>1. q = 1 + ((q \div 2) * (2 * 1)) /\ q \div 2 \in Int
        OBVIOUS
      <3>2. QED
        BY <3>1
    <2>4. \E t \in Int : q * 1 = q + (t * R)
      <3>1. q * 1 = q + (0 * R)
        BY <1>2
      <3>2. QED
        BY <3>1
    <2>5. << 1, q >> \in InverseAfter(q, 0)
      BY <1>2, <2>2, <2>3, <2>4 DEF InverseAfter
    <2>6. QED
      BY <1>4, <2>1, <2>5
  <1>6. ASSUME NEW k \in 1..n, k - 1 \in H PROVE k \in H
    <2>1. k - 1 \in 0..(W - 2) /\ k \in 0..n /\ (k - 1) + 1 = k /\ k # 0
      BY <1>2, WAssumption
    <2>2. inv[k - 1] \in InverseAfter(q, k - 1)
      BY <1>6
    <2>3. next(inv[k - 1]) \in InverseAfter(q, k)
      BY <2>1, <2>2, InverseStep
    <2>4. QED
      BY <1>4, <2>1, <2>3
  <1>7. \A k \in 0..n : k \in H
    <2> HIDE DEF H
    <2>1. QED
      BY <1>2, <1>5, <1>6, Induction
  <1>8. inv[n] \in InverseAfter(q, n)
    <2>1. n \in 0..n
      BY <1>2
    <2>2. QED
      BY <1>7, <2>1
  <1> DEFINE x == inv[n][1]
             s == inv[n][2]
  <1> HIDE DEF n
  <1>9. 2 * 2^n = R
    <2>1. n \in 0..W /\ n < W /\ n + 1 = W /\ W \in 0..W /\ W - W = 0 /\ 0 \in 0..W
      BY WAssumption DEF n
    <2>2. QED
      BY <2>1, WordPowers DEF n, R
  <1>10. PICK t \in Int, u \in Int : /\ x \in 0..(R - 1) /\ s \in 0..(R - 1)
                                     /\ q * x = s + (t * R) /\ s = 1 + (u * R)
    BY <1>8, <1>9 DEF InverseAfter
  <1> HIDE DEF x, s
  <1>11. q * x = 1 + ((t + u) * R) /\ t + u \in Int /\ 1 \in Int
    BY <1>2, <1>10
  <1>12. (1 + ((t + u) * R)) % R = 1 % R
    BY <1>2, <1>11, ModPlus, Zenon
  <1>13. QED
    BY <1>1, <1>10, <1>11, <1>12 DEF x

\* A word has at most W bits.
LEMMA BitLenRange ==
    ASSUME NEW x \in 0..(R - 1)
    PROVE  BitLen(x) \in 0..W
  <1> DEFINE T == {k \in 0..W : 2^k > x}
  <1>1. W \in T
    <2>1. W \in 0..W /\ 2^W > x
      BY WAssumption, RAssumption DEF R
    <2>2. QED
      BY <2>1
  <1>2. PICK k \in T : \A m \in T : k <= m
    <2>1. T \subseteq Nat
      BY WAssumption
    <2> HIDE DEF T
    <2>2. QED
      BY <1>1, <2>1, Least
  <1>3. k \in 0..W /\ 2^k > x /\ \A m \in 0..W : 2^m > x => k <= m
    BY <1>2
  <1>4. QED
    BY <1>3 DEF BitLen

\* Square and multiply by Barrett products returns a word.
LEMMA ModExpRange ==
    ASSUME NEW q \in Nat \ {0}, 2 * q <= R, NEW x \in 0..(R - 1), NEW e \in 0..(R - 1)
    PROVE  ModExp(x, e, q) \in 0..(R - 1)
  <1> DEFINE n == W
             S == (0..(R - 1)) \X (0..(R - 1))
             next(k, s) ==
                 << IF (e \div 2^(k-1)) % 2 = 1 THEN BRed(s[1], s[2], q, BRedParams(q)) ELSE s[1],
                    BRed(s[2], s[2], q, BRedParams(q)) >>
             run[k \in 0..W] ==
                 IF k = 0 THEN << 1, x >>
                 ELSE LET s == run[k-1]
                      IN  << IF (e \div 2^(k-1)) % 2 = 1 THEN BRed(s[1], s[2], q, BRedParams(q)) ELSE s[1],
                             BRed(s[2], s[2], q, BRedParams(q)) >>
  <1>1. ModExp(x, e, q) = run[BitLen(e)][1]
    BY DEF ModExp, Power
  <1>2. n \in Nat /\ << 1, x >> \in S
    BY WAssumption, RAssumption
  <1>3. \A k \in 1..n, s \in S : next(k, s) \in S
    <2>1. SUFFICES ASSUME NEW k \in 1..n, NEW a \in 0..(R - 1), NEW b \in 0..(R - 1)
                   PROVE  next(k, << a, b >>) \in S
      BY DEF S
    <2>2. BRed(a, b, q, BRedParams(q)) \in 0..(R - 1) /\ BRed(b, b, q, BRedParams(q)) \in 0..(R - 1)
      <3>1. (a * b) % q \in 0..(q - 1) /\ (b * b) % q \in 0..(q - 1)
        <4>1. a * b \in Int /\ b * b \in Int
          OBVIOUS
        <4>2. QED
          BY <4>1, DivMod
      <3>2. BRed(a, b, q, BRedParams(q)) = (a * b) % q /\ BRed(b, b, q, BRedParams(q)) = (b * b) % q
        BY BarrettProduct
      <3>3. \A z \in 0..(q - 1) : z \in 0..(R - 1)
        BY RAssumption
      <3>4. QED
        BY <3>1, <3>2, <3>3
    <2>3. QED
      BY <2>2
  <1>4. run = [k \in 0..n |-> IF k = 0 THEN << 1, x >> ELSE next(k, run[k-1])]
    <2> DEFINE g == [k \in 1..n |-> [s \in S |-> next(k, s)]]
    <2>1. g \in [1..n -> [S -> S]]
      BY <1>2, <1>3
    <2> HIDE DEF g, S, n, run
    <2>2. PICK f \in [0..n -> S] : Follows(f, n, << 1, x >>, g)
      BY <1>2, <1>3, <2>1, Recursion, Zenon
    <2>3. ASSUME NEW k \in 1..n PROVE f[k] = next(k, f[k - 1])
      <3>1. k - 1 \in 0..n
        BY <1>2, <1>3
      <3>2. f[k - 1] \in S /\ f[k] = g[k][f[k - 1]]
        BY <2>2, <3>1 DEF Follows
      <3>3. \A s \in S : g[k][s] = next(k, s)
        BY Zenon DEF g
      <3>4. QED
        BY <3>2, <3>3, Zenon
    <2>4. f = [k \in 0..n |-> IF k = 0 THEN << 1, x >> ELSE next(k, f[k-1])]
      <3>1. \A k \in 0..n : k # 0 => k \in 1..n
        BY <1>2, <1>3
      <3>2. f[0] = << 1, x >> /\ f = [k \in 0..n |-> f[k]]
        BY <2>2 DEF Follows
      <3> HIDE DEF next
      <3>3. \A k \in 0..n : f[k] = IF k = 0 THEN << 1, x >> ELSE next(k, f[k-1])
        BY <2>3, <3>1, <3>2
      <3>4. QED
        BY <3>2, <3>3, Zenon
    <2>5. QED
      BY <2>4 DEF run, n
  <1> HIDE DEF run
  <1>5. \A k \in 0..n : run[k] \in S
    <2>1. 0 \in 0..n /\ run[0] \in S
      BY <1>2, <1>4
    <2>2. ASSUME NEW k \in 1..n, run[k-1] \in S PROVE run[k] \in S
      <3>1. k \in 0..n /\ k # 0
        BY <1>2
      <3> HIDE DEF next
      <3>2. run[k] = next(k, run[k-1])
        BY <1>4, <3>1
      <3>3. QED
        BY <1>3, <2>2, <3>2
    <2> HIDE DEF S, n
    <2>3. QED
      BY <1>2, <2>1, <2>2, StaysIn
  <1>6. run[BitLen(e)] \in S
    BY <1>5, BitLenRange
  <1>7. QED
    BY <1>1, <1>6

\* By Montgomery products it stays below q.
LEMMA ModExpMontgomeryRange ==
    ASSUME NEW q \in Nat \ {0}, 2 * q <= R, NEW qInv \in Nat, NEW x \in 0..(q - 1), NEW e \in 0..(R - 1)
    PROVE  modexpMontgomery(x, e, q, qInv, BRedParams(q)) \in 0..(q - 1)
  <1> DEFINE n == W
             S == (0..(q - 1)) \X (0..(q - 1))
             next(k, s) ==
                 << IF (e \div 2^(k-1)) % 2 = 1 THEN MRed(s[1], s[2], q, qInv) ELSE s[1],
                    MRed(s[2], s[2], q, qInv) >>
             run[k \in 0..W] ==
                 IF k = 0 THEN << MForm(1, q, BRedParams(q)), x >>
                 ELSE LET s == run[k-1]
                      IN  << IF (e \div 2^(k-1)) % 2 = 1 THEN MRed(s[1], s[2], q, qInv) ELSE s[1],
                             MRed(s[2], s[2], q, qInv) >>
  <1>1. modexpMontgomery(x, e, q, qInv, BRedParams(q)) = run[BitLen(e)][1]
    BY DEF modexpMontgomery, Power
  <1>2. n \in Nat /\ << MForm(1, q, BRedParams(q)), x >> \in S
    <2>1. 1 \in 0..(R - 1)
      BY RAssumption
    <2>2. MForm(1, q, BRedParams(q)) \in 0..(q - 1)
      BY <2>1, ToMontgomery
    <2>3. QED
      BY <2>2, WAssumption
  <1>3. \A k \in 1..n, s \in S : next(k, s) \in S
    <2>1. SUFFICES ASSUME NEW k \in 1..n, NEW a \in 0..(q - 1), NEW b \in 0..(q - 1)
                   PROVE  next(k, << a, b >>) \in S
      BY DEF S
    <2>2. MRed(a, b, q, qInv) \in 0..(q - 1) /\ MRed(b, b, q, qInv) \in 0..(q - 1)
      <3>1. \A c, d \in 0..(q - 1) : c \in Nat /\ d \in Nat /\ c * d < q * R
        <4>1. SUFFICES ASSUME NEW c \in 0..(q - 1), NEW d \in 0..(q - 1) PROVE c * d < q * R
          OBVIOUS
        <4>2. c < q /\ d < R /\ R \in Nat
          BY RAssumption
        <4>3. QED
          BY <4>2, ProductBelow
      <3>2. QED
        BY <3>1, MRedRange
    <2>3. QED
      BY <2>2
  <1>4. run = [k \in 0..n |-> IF k = 0 THEN << MForm(1, q, BRedParams(q)), x >> ELSE next(k, run[k-1])]
    <2> DEFINE g == [k \in 1..n |-> [s \in S |-> next(k, s)]]
    <2>1. g \in [1..n -> [S -> S]]
      BY <1>2, <1>3
    <2> HIDE DEF g, S, n, run
    <2>2. PICK f \in [0..n -> S] : Follows(f, n, << MForm(1, q, BRedParams(q)), x >>, g)
      BY <1>2, <1>3, <2>1, Recursion, Zenon
    <2>3. ASSUME NEW k \in 1..n PROVE f[k] = next(k, f[k - 1])
      <3>1. k - 1 \in 0..n
        BY <1>2, <1>3
      <3>2. f[k - 1] \in S /\ f[k] = g[k][f[k - 1]]
        BY <2>2, <3>1 DEF Follows
      <3>3. \A s \in S : g[k][s] = next(k, s)
        BY Zenon DEF g
      <3>4. QED
        BY <3>2, <3>3, Zenon
    <2>4. f = [k \in 0..n |-> IF k = 0 THEN << MForm(1, q, BRedParams(q)), x >> ELSE next(k, f[k-1])]
      <3>1. \A k \in 0..n : k # 0 => k \in 1..n
        BY <1>2, <1>3
      <3>2. f[0] = << MForm(1, q, BRedParams(q)), x >> /\ f = [k \in 0..n |-> f[k]]
        BY <2>2 DEF Follows
      <3> HIDE DEF next
      <3>3. \A k \in 0..n : f[k] = IF k = 0 THEN << MForm(1, q, BRedParams(q)), x >> ELSE next(k, f[k-1])
        BY <2>3, <3>1, <3>2
      <3>4. QED
        BY <3>2, <3>3, Zenon
    <2>5. QED
      BY <2>4 DEF run, n
  <1> HIDE DEF run
  <1>5. \A k \in 0..n : run[k] \in S
    <2>1. 0 \in 0..n /\ run[0] \in S
      BY <1>2, <1>4
    <2>2. ASSUME NEW k \in 1..n, run[k-1] \in S PROVE run[k] \in S
      <3>1. k \in 0..n /\ k # 0
        BY <1>2
      <3> HIDE DEF next
      <3>2. run[k] = next(k, run[k-1])
        BY <1>4, <3>1
      <3>3. QED
        BY <1>3, <2>2, <3>2
    <2> HIDE DEF S, n
    <2>3. QED
      BY <1>2, <2>1, <2>2, StaysIn
  <1>6. run[BitLen(e)] \in S
    BY <1>5, BitLenRange
  <1>7. QED
    BY <1>1, <1>6

-----------------------------------------------------------------------------
(* Bits *)

\* x & y is x at most.
LEMMA AndRange ==
    ASSUME NEW x \in Nat, NEW y \in Nat
    PROVE  And(x, y) \in 0..x
  <1> DEFINE n == W
             S == {s \in Nat \X Nat \X Nat \X Nat : s[1] + (s[4] * s[2]) <= x}
             next(k, s) == << s[1] + s[4] * ((s[2] % 2) * (s[3] % 2)),
                              s[2] \div 2, s[3] \div 2, 2 * s[4] >>
             run[k \in 0..W] ==
                 IF k = 0 THEN << 0, x, y, 1 >>
                 ELSE LET s == run[k-1]
                      IN  << s[1] + s[4] * ((s[2] % 2) * (s[3] % 2)),
                             s[2] \div 2, s[3] \div 2, 2 * s[4] >>
  <1>1. And(x, y) = run[W][1]
    BY DEF And, BitByBit
  <1>2. n \in Nat /\ << 0, x, y, 1 >> \in S
    BY WAssumption
  <1>3. \A k \in 1..n, s \in S : next(k, s) \in S
    <2> HIDE DEF next
    <2>1. SUFFICES ASSUME NEW k \in 1..n, NEW a \in Nat, NEW b \in Nat, NEW c \in Nat, NEW v \in Nat,
                          a + (v * (b)) <= x
                   PROVE  next(k, << a, b, c, v >>) \in S
      OBVIOUS
    <2> DEFINE bit == (b % 2) * (c % 2)
               d == b \div 2
               e == c \div 2
    <2>2. d \in Nat /\ e \in Nat /\ bit \in 0..1 /\ bit + (2 * (d)) <= b
      <3>1. b % 2 \in {0, 1} /\ c % 2 \in {0, 1} /\ b = (2 * d) + (b % 2) /\ c = (2 * e) + (c % 2)
            /\ d \in Nat /\ e \in Nat
        OBVIOUS
      <3>2. QED
        BY <3>1
    <2>3. next(k, << a, b, c, v >>) = << a + (v * bit), d, e, 2 * v >>
      BY DEF next
    <2> HIDE DEF bit, d, e
    <2>4. v * (bit + (2 * (d))) <= v * (b)
      BY <2>2
    <2>5. (a + (v * bit)) + ((2 * v) * (d)) <= x
      <3>1. v * (bit + (2 * (d))) = (v * bit) + ((2 * v) * (d))
        BY <2>2
      <3>2. v * bit \in Nat /\ (2 * v) * (d) \in Nat /\ v * (b) \in Nat
        BY <2>2
      <3>3. QED
        BY <2>1, <2>4, <3>1, <3>2
    <2>6. a + (v * bit) \in Nat /\ 2 * v \in Nat
      BY <2>2
    <2>7. QED
      BY <2>2, <2>3, <2>5, <2>6
  <1>4. run = [k \in 0..n |-> IF k = 0 THEN << 0, x, y, 1 >> ELSE next(k, run[k-1])]
    <2> DEFINE g == [k \in 1..n |-> [s \in S |-> next(k, s)]]
    <2>1. g \in [1..n -> [S -> S]]
      BY <1>2, <1>3
    <2> HIDE DEF g, S, n, run
    <2>2. PICK f \in [0..n -> S] : Follows(f, n, << 0, x, y, 1 >>, g)
      BY <1>2, <1>3, <2>1, Recursion, Zenon
    <2>3. ASSUME NEW k \in 1..n PROVE f[k] = next(k, f[k - 1])
      <3>1. k - 1 \in 0..n
        BY <1>2, <1>3
      <3>2. f[k - 1] \in S /\ f[k] = g[k][f[k - 1]]
        BY <2>2, <3>1 DEF Follows
      <3>3. \A s \in S : g[k][s] = next(k, s)
        BY Zenon DEF g
      <3>4. QED
        BY <3>2, <3>3, Zenon
    <2>4. f = [k \in 0..n |-> IF k = 0 THEN << 0, x, y, 1 >> ELSE next(k, f[k-1])]
      <3>1. \A k \in 0..n : k # 0 => k \in 1..n
        BY <1>2, <1>3
      <3>2. f[0] = << 0, x, y, 1 >> /\ f = [k \in 0..n |-> f[k]]
        BY <2>2 DEF Follows
      <3> HIDE DEF next
      <3>3. \A k \in 0..n : f[k] = IF k = 0 THEN << 0, x, y, 1 >> ELSE next(k, f[k-1])
        BY <2>3, <3>1, <3>2
      <3>4. QED
        BY <3>2, <3>3, Zenon
    <2>5. QED
      BY <2>4 DEF run, n
  <1> HIDE DEF run
  <1>5. \A k \in 0..n : run[k] \in S
    <2>1. 0 \in 0..n /\ run[0] \in S
      BY <1>2, <1>4
    <2>2. ASSUME NEW k \in 1..n, run[k-1] \in S PROVE run[k] \in S
      <3>1. k \in 0..n /\ k # 0
        BY <1>2
      <3> HIDE DEF next
      <3>2. run[k] = next(k, run[k-1])
        BY <1>4, <3>1
      <3>3. QED
        BY <1>3, <2>2, <3>2
    <2> HIDE DEF S, n
    <2>3. QED
      BY <1>2, <2>1, <2>2, StaysIn
  <1>6. run[W] \in S
    <2>1. W \in 0..n
      BY <1>2
    <2>2. QED
      BY <1>5, <2>1
  <1>7. PICK a \in Nat, b \in Nat, c \in Nat, v \in Nat :
            run[W] = << a, b, c, v >> /\ a + (v * (b)) <= x
    BY <1>6
  <1>8. v * (b) \in Nat
    OBVIOUS
  <1>9. QED
    BY <1>1, <1>7, <1>8

\* x | y and x ^ y are x + y at most.
LEMMA OrRange ==
    ASSUME NEW x \in Nat, NEW y \in Nat
    PROVE  Or(x, y) \in 0..(x + y)
  <1> DEFINE n == W
             S == {s \in Nat \X Nat \X Nat \X Nat : s[1] + (s[4] * (s[2] + s[3])) <= x + y}
             next(k, s) == << s[1] + s[4] * ((s[2] % 2) + (s[3] % 2) - (s[2] % 2) * (s[3] % 2)),
                              s[2] \div 2, s[3] \div 2, 2 * s[4] >>
             run[k \in 0..W] ==
                 IF k = 0 THEN << 0, x, y, 1 >>
                 ELSE LET s == run[k-1]
                      IN  << s[1] + s[4] * ((s[2] % 2) + (s[3] % 2) - (s[2] % 2) * (s[3] % 2)),
                             s[2] \div 2, s[3] \div 2, 2 * s[4] >>
  <1>1. Or(x, y) = run[W][1]
    BY DEF Or, BitByBit
  <1>2. n \in Nat /\ << 0, x, y, 1 >> \in S
    BY WAssumption
  <1>3. \A k \in 1..n, s \in S : next(k, s) \in S
    <2> HIDE DEF next
    <2>1. SUFFICES ASSUME NEW k \in 1..n, NEW a \in Nat, NEW b \in Nat, NEW c \in Nat, NEW v \in Nat,
                          a + (v * (b + c)) <= (x + y)
                   PROVE  next(k, << a, b, c, v >>) \in S
      OBVIOUS
    <2> DEFINE bit == (b % 2) + (c % 2) - (b % 2) * (c % 2)
               d == b \div 2
               e == c \div 2
    <2>2. d \in Nat /\ e \in Nat /\ bit \in 0..1 /\ bit + (2 * (d + e)) <= b + c
      <3>1. b % 2 \in {0, 1} /\ c % 2 \in {0, 1} /\ b = (2 * d) + (b % 2) /\ c = (2 * e) + (c % 2)
            /\ d \in Nat /\ e \in Nat
        OBVIOUS
      <3>2. QED
        BY <3>1
    <2>3. next(k, << a, b, c, v >>) = << a + (v * bit), d, e, 2 * v >>
      BY DEF next
    <2> HIDE DEF bit, d, e
    <2>4. v * (bit + (2 * (d + e))) <= v * (b + c)
      BY <2>2
    <2>5. (a + (v * bit)) + ((2 * v) * (d + e)) <= (x + y)
      <3>1. v * (bit + (2 * (d + e))) = (v * bit) + ((2 * v) * (d + e))
        BY <2>2
      <3>2. v * bit \in Nat /\ (2 * v) * (d + e) \in Nat /\ v * (b + c) \in Nat
        BY <2>2
      <3>3. QED
        BY <2>1, <2>4, <3>1, <3>2
    <2>6. a + (v * bit) \in Nat /\ 2 * v \in Nat
      BY <2>2
    <2>7. QED
      BY <2>2, <2>3, <2>5, <2>6
  <1>4. run = [k \in 0..n |-> IF k = 0 THEN << 0, x, y, 1 >> ELSE next(k, run[k-1])]
    <2> DEFINE g == [k \in 1..n |-> [s \in S |-> next(k, s)]]
    <2>1. g \in [1..n -> [S -> S]]
      BY <1>2, <1>3
    <2> HIDE DEF g, S, n, run
    <2>2. PICK f \in [0..n -> S] : Follows(f, n, << 0, x, y, 1 >>, g)
      BY <1>2, <1>3, <2>1, Recursion, Zenon
    <2>3. ASSUME NEW k \in 1..n PROVE f[k] = next(k, f[k - 1])
      <3>1. k - 1 \in 0..n
        BY <1>2, <1>3
      <3>2. f[k - 1] \in S /\ f[k] = g[k][f[k - 1]]
        BY <2>2, <3>1 DEF Follows
      <3>3. \A s \in S : g[k][s] = next(k, s)
        BY Zenon DEF g
      <3>4. QED
        BY <3>2, <3>3, Zenon
    <2>4. f = [k \in 0..n |-> IF k = 0 THEN << 0, x, y, 1 >> ELSE next(k, f[k-1])]
      <3>1. \A k \in 0..n : k # 0 => k \in 1..n
        BY <1>2, <1>3
      <3>2. f[0] = << 0, x, y, 1 >> /\ f = [k \in 0..n |-> f[k]]
        BY <2>2 DEF Follows
      <3> HIDE DEF next
      <3>3. \A k \in 0..n : f[k] = IF k = 0 THEN << 0, x, y, 1 >> ELSE next(k, f[k-1])
        BY <2>3, <3>1, <3>2
      <3>4. QED
        BY <3>2, <3>3, Zenon
    <2>5. QED
      BY <2>4 DEF run, n
  <1> HIDE DEF run
  <1>5. \A k \in 0..n : run[k] \in S
    <2>1. 0 \in 0..n /\ run[0] \in S
      BY <1>2, <1>4
    <2>2. ASSUME NEW k \in 1..n, run[k-1] \in S PROVE run[k] \in S
      <3>1. k \in 0..n /\ k # 0
        BY <1>2
      <3> HIDE DEF next
      <3>2. run[k] = next(k, run[k-1])
        BY <1>4, <3>1
      <3>3. QED
        BY <1>3, <2>2, <3>2
    <2> HIDE DEF S, n
    <2>3. QED
      BY <1>2, <2>1, <2>2, StaysIn
  <1>6. run[W] \in S
    <2>1. W \in 0..n
      BY <1>2
    <2>2. QED
      BY <1>5, <2>1
  <1>7. PICK a \in Nat, b \in Nat, c \in Nat, v \in Nat :
            run[W] = << a, b, c, v >> /\ a + (v * (b + c)) <= (x + y)
    BY <1>6
  <1>8. v * (b + c) \in Nat
    OBVIOUS
  <1>9. QED
    BY <1>1, <1>7, <1>8

\* The exclusive or of two words is a word.
LEMMA XorRange ==
    ASSUME NEW x \in Nat, NEW y \in Nat
    PROVE  Xor(x, y) \in 0..(x + y)
  <1> DEFINE n == W
             S == {s \in Nat \X Nat \X Nat \X Nat : s[1] + (s[4] * (s[2] + s[3])) <= x + y}
             next(k, s) == << s[1] + s[4] * (((s[2] % 2) + (s[3] % 2)) % 2),
                              s[2] \div 2, s[3] \div 2, 2 * s[4] >>
             run[k \in 0..W] ==
                 IF k = 0 THEN << 0, x, y, 1 >>
                 ELSE LET s == run[k-1]
                      IN  << s[1] + s[4] * (((s[2] % 2) + (s[3] % 2)) % 2),
                             s[2] \div 2, s[3] \div 2, 2 * s[4] >>
  <1>1. Xor(x, y) = run[W][1]
    BY DEF Xor, BitByBit
  <1>2. n \in Nat /\ << 0, x, y, 1 >> \in S
    BY WAssumption
  <1>3. \A k \in 1..n, s \in S : next(k, s) \in S
    <2> HIDE DEF next
    <2>1. SUFFICES ASSUME NEW k \in 1..n, NEW a \in Nat, NEW b \in Nat, NEW c \in Nat, NEW v \in Nat,
                          a + (v * (b + c)) <= (x + y)
                   PROVE  next(k, << a, b, c, v >>) \in S
      OBVIOUS
    <2> DEFINE bit == ((b % 2) + (c % 2)) % 2
               d == b \div 2
               e == c \div 2
    <2>2. d \in Nat /\ e \in Nat /\ bit \in 0..1 /\ bit + (2 * (d + e)) <= b + c
      <3>1. b % 2 \in {0, 1} /\ c % 2 \in {0, 1} /\ b = (2 * d) + (b % 2) /\ c = (2 * e) + (c % 2)
            /\ d \in Nat /\ e \in Nat
        OBVIOUS
      <3>2. QED
        BY <3>1
    <2>3. next(k, << a, b, c, v >>) = << a + (v * bit), d, e, 2 * v >>
      BY DEF next
    <2> HIDE DEF bit, d, e
    <2>4. v * (bit + (2 * (d + e))) <= v * (b + c)
      BY <2>2
    <2>5. (a + (v * bit)) + ((2 * v) * (d + e)) <= (x + y)
      <3>1. v * (bit + (2 * (d + e))) = (v * bit) + ((2 * v) * (d + e))
        BY <2>2
      <3>2. v * bit \in Nat /\ (2 * v) * (d + e) \in Nat /\ v * (b + c) \in Nat
        BY <2>2
      <3>3. QED
        BY <2>1, <2>4, <3>1, <3>2
    <2>6. a + (v * bit) \in Nat /\ 2 * v \in Nat
      BY <2>2
    <2>7. QED
      BY <2>2, <2>3, <2>5, <2>6
  <1>4. run = [k \in 0..n |-> IF k = 0 THEN << 0, x, y, 1 >> ELSE next(k, run[k-1])]
    <2> DEFINE g == [k \in 1..n |-> [s \in S |-> next(k, s)]]
    <2>1. g \in [1..n -> [S -> S]]
      BY <1>2, <1>3
    <2> HIDE DEF g, S, n, run
    <2>2. PICK f \in [0..n -> S] : Follows(f, n, << 0, x, y, 1 >>, g)
      BY <1>2, <1>3, <2>1, Recursion, Zenon
    <2>3. ASSUME NEW k \in 1..n PROVE f[k] = next(k, f[k - 1])
      <3>1. k - 1 \in 0..n
        BY <1>2, <1>3
      <3>2. f[k - 1] \in S /\ f[k] = g[k][f[k - 1]]
        BY <2>2, <3>1 DEF Follows
      <3>3. \A s \in S : g[k][s] = next(k, s)
        BY Zenon DEF g
      <3>4. QED
        BY <3>2, <3>3, Zenon
    <2>4. f = [k \in 0..n |-> IF k = 0 THEN << 0, x, y, 1 >> ELSE next(k, f[k-1])]
      <3>1. \A k \in 0..n : k # 0 => k \in 1..n
        BY <1>2, <1>3
      <3>2. f[0] = << 0, x, y, 1 >> /\ f = [k \in 0..n |-> f[k]]
        BY <2>2 DEF Follows
      <3> HIDE DEF next
      <3>3. \A k \in 0..n : f[k] = IF k = 0 THEN << 0, x, y, 1 >> ELSE next(k, f[k-1])
        BY <2>3, <3>1, <3>2
      <3>4. QED
        BY <3>2, <3>3, Zenon
    <2>5. QED
      BY <2>4 DEF run, n
  <1> HIDE DEF run
  <1>5. \A k \in 0..n : run[k] \in S
    <2>1. 0 \in 0..n /\ run[0] \in S
      BY <1>2, <1>4
    <2>2. ASSUME NEW k \in 1..n, run[k-1] \in S PROVE run[k] \in S
      <3>1. k \in 0..n /\ k # 0
        BY <1>2
      <3> HIDE DEF next
      <3>2. run[k] = next(k, run[k-1])
        BY <1>4, <3>1
      <3>3. QED
        BY <1>3, <2>2, <3>2
    <2> HIDE DEF S, n
    <2>3. QED
      BY <1>2, <2>1, <2>2, StaysIn
  <1>6. run[W] \in S
    <2>1. W \in 0..n
      BY <1>2
    <2>2. QED
      BY <1>5, <2>1
  <1>7. PICK a \in Nat, b \in Nat, c \in Nat, v \in Nat :
            run[W] = << a, b, c, v >> /\ a + (v * (b + c)) <= (x + y)
    BY <1>6
  <1>8. v * (b + c) \in Nat
    OBVIOUS
  <1>9. QED
    BY <1>1, <1>7, <1>8
-----------------------------------------------------------------------------
(* Residues *)
\* Sums, differences and products of residues are residues of sums, differences
\* and products.
LEMMA ModSum ==
    ASSUME NEW m \in Nat \ {0}, NEW a \in Int, NEW b \in Int
    PROVE  ((a % m) + (b % m)) % m = (a + b) % m
  <1>1. PICK k \in Int : a % m = a - (k * m)
    BY ModIs, Zenon
  <1>2. PICK h \in Int : b % m = b - (h * m)
    BY ModIs, Zenon
  <1>3. (a % m) + (b % m) = (a + b) - ((k + h) * m)
    BY <1>1, <1>2
  <1>4. a + b \in Int /\ k + h \in Int
    OBVIOUS
  <1>5. ((a + b) - ((k + h) * m)) % m = (a + b) % m
    BY <1>4, ModMinus, Zenon
  <1>6. QED
    BY <1>3, <1>5

\* Residues subtract.
LEMMA ModDiff ==
    ASSUME NEW m \in Nat \ {0}, NEW a \in Int, NEW b \in Int
    PROVE  ((a % m) - (b % m)) % m = (a - b) % m
  <1>1. PICK k \in Int : a % m = a - (k * m)
    BY ModIs, Zenon
  <1>2. PICK h \in Int : b % m = b - (h * m)
    BY ModIs, Zenon
  <1>3. (a % m) - (b % m) = (a - b) - ((k - h) * m)
    BY <1>1, <1>2
  <1>4. a - b \in Int /\ k - h \in Int
    OBVIOUS
  <1>5. ((a - b) - ((k - h) * m)) % m = (a - b) % m
    BY <1>4, ModMinus, Zenon
  <1>6. QED
    BY <1>3, <1>5

\* Residues negate.
LEMMA ModNeg ==
    ASSUME NEW m \in Nat \ {0}, NEW a \in Int
    PROVE  (-(a % m)) % m = (-a) % m
  <1>1. PICK k \in Int : a % m = a - (k * m)
    BY ModIs, Zenon
  <1>2. -(a % m) = (-a) + (k * m)
    BY <1>1
  <1>3. -a \in Int
    OBVIOUS
  <1>4. ((-a) + (k * m)) % m = (-a) % m
    BY <1>3, ModPlus, Zenon
  <1>5. QED
    BY <1>2, <1>4

\* Residues multiply.
LEMMA ModProd ==
    ASSUME NEW m \in Nat \ {0}, NEW a \in Int, NEW b \in Int
    PROVE  /\ ((a % m) * (b % m)) % m = (a * b) % m
           /\ ((a % m) * b) % m = (a * b) % m
  <1>1. PICK k \in Int : a % m = a - (k * m)
    BY ModIs, Zenon
  <1>2. PICK h \in Int : b % m = b - (h * m)
    BY ModIs, Zenon
  <1> DEFINE c == (((k * b) + (a * h)) - ((k * h) * m))
             e == k * b
  <1>3. (a % m) * (b % m) = (a * b) - (c * m) /\ (a % m) * b = (a * b) - (e * m)
    BY <1>1, <1>2
  <1>4. a * b \in Int /\ c \in Int /\ e \in Int
    OBVIOUS
  <1> HIDE DEF c, e
  <1>5. ((a * b) - (c * m)) % m = (a * b) % m /\ ((a * b) - (e * m)) % m = (a * b) % m
    BY <1>4, ModMinus, Zenon
  <1>6. QED
    BY <1>3, <1>5

\* A number below the modulus is its own residue.
LEMMA ModSmall ==
    ASSUME NEW m \in Nat \ {0}, NEW a \in Int
    PROVE  /\ a % m \in 0..(m - 1) /\ (a % m) % m = a % m
           /\ a \in 0..(m - 1) => a % m = a
  OBVIOUS

\* A factor R is taken out by its inverse v.
LEMMA WithoutRadix ==
    ASSUME NEW m \in Nat \ {0}, NEW v \in Int, (v * R) % m = 1, NEW z \in Int, NEW t \in Int,
           (z * R) % m = t % m
    PROVE  z % m = ((t % m) * v) % m /\ z % m = (t * v) % m
  <1>1. R \in Int /\ z * R \in Int /\ v * R \in Int
    BY RAssumption
  <1>2. ((t % m) * v) % m = (t * v) % m
    BY ModProd
  <1>3. ((t % m) * v) % m = ((z * R) * v) % m
    <2>1. (((z * R) % m) * v) % m = ((z * R) * v) % m
      BY <1>1, ModProd, Zenon
    <2>2. QED
      BY <2>1
  <1>4. (z * R) * v = z * (v * R)
    BY <1>1
  <1>5. ((v * R) * z) % m = (1 * z) % m
    <2>1. (((v * R) % m) * z) % m = ((v * R) * z) % m
      BY <1>1, ModProd, Zenon
    <2>2. QED
      BY <2>1
  <1>6. (v * R) * z = z * (v * R) /\ 1 * z = z
    BY <1>1
  <1>7. QED
    BY <1>2, <1>3, <1>4, <1>5, <1>6

\* A modulus that has an inverse modulo R gives R an inverse modulo it.
LEMMA RadixInverse ==
    ASSUME NEW m \in Nat \ {0}, 2 <= m, NEW qInv \in Nat, (m * qInv) % R = 1 % R, 2 <= R
    PROVE  \E v \in 0..(m - 1) : (v * R) % m = 1
  <1>1. R \in Nat \ {0} /\ m * qInv \in Int
    BY RAssumption
  <1>2. PICK t \in Int : (m * qInv) % R = (m * qInv) - (t * R)
    BY <1>1, ModIs, Zenon
  <1>3. (-t) * R = 1 - (qInv * m)
    BY <1>1, <1>2
  <1>4. (1 - (qInv * m)) % m = 1 % m
    <2>1. 1 \in Int /\ qInv \in Int
      OBVIOUS
    <2>2. QED
      BY <2>1, ModMinus, Zenon
  <1>5. 1 % m = 1
    OBVIOUS
  <1>6. (((-t) % m) * R) % m = ((-t) * R) % m
    <2>1. -t \in Int /\ R \in Int
      BY <1>1
    <2>2. QED
      BY <2>1, ModProd, Zenon
  <1>7. (-t) % m \in 0..(m - 1)
    OBVIOUS
  <1>8. QED
    BY <1>3, <1>4, <1>5, <1>6, <1>7

-----------------------------------------------------------------------------
(* Powers *)
\* The powers of x modulo m up to e.
PowersOfX(p, x, e, m) ==
    /\ p[0] = 1 % m /\ \A k \in 0..e : p[k] \in 0..(m - 1)
    /\ \A k \in 1..e : p[k] = (p[k-1] * x) % m

\* A power is the last of the sequence of powers.
LEMMA PowRuns ==
    ASSUME NEW m \in Nat \ {0}, NEW x \in Int, NEW e \in Nat
    PROVE  \E p : Pow(x, e, m) = p[e] /\ PowersOfX(p, x, e, m)
  <1> DEFINE n == e
             S == 0..(m - 1)
             next(k, s) == (s * x) % m
             pow[k \in 0..e] == IF k = 0 THEN 1 % m ELSE (pow[k-1] * x) % m
  <1>1. Pow(x, e, m) = pow[e]
    BY DEF Pow
  <1>2. n \in Nat /\ 1 % m \in S
    OBVIOUS
  <1>3. \A k \in 1..n, s \in S : next(k, s) \in S
    <2>1. SUFFICES ASSUME NEW s \in S PROVE (s * x) % m \in S
      OBVIOUS
    <2> DEFINE w == s * x
    <2>2. w \in Int
      OBVIOUS
    <2> HIDE DEF w
    <2>3. w % m \in S
      BY <2>2
    <2>4. QED
      BY <2>3 DEF w
  <1>4. pow = [k \in 0..n |-> IF k = 0 THEN 1 % m ELSE next(k, pow[k-1])]
    <2> DEFINE g == [k \in 1..n |-> [s \in S |-> next(k, s)]]
    <2>1. g \in [1..n -> [S -> S]]
      BY <1>2, <1>3
    <2> HIDE DEF g, S, n, pow
    <2>2. PICK f \in [0..n -> S] : Follows(f, n, 1 % m, g)
      BY <1>2, <1>3, <2>1, Recursion, Zenon
    <2>3. ASSUME NEW k \in 1..n PROVE f[k] = next(k, f[k - 1])
      <3>1. k - 1 \in 0..n
        BY <1>2, <1>3
      <3>2. f[k - 1] \in S /\ f[k] = g[k][f[k - 1]]
        BY <2>2, <3>1 DEF Follows
      <3>3. \A s \in S : g[k][s] = next(k, s)
        BY Zenon DEF g
      <3>4. QED
        BY <3>2, <3>3, Zenon
    <2>4. f = [k \in 0..n |-> IF k = 0 THEN 1 % m ELSE next(k, f[k-1])]
      <3>1. \A k \in 0..n : k # 0 => k \in 1..n
        BY <1>2, <1>3
      <3>2. f[0] = 1 % m /\ f = [k \in 0..n |-> f[k]]
        BY <2>2 DEF Follows
      <3> HIDE DEF next
      <3>3. \A k \in 0..n : f[k] = IF k = 0 THEN 1 % m ELSE next(k, f[k-1])
        BY <2>3, <3>1, <3>2
      <3>4. QED
        BY <3>2, <3>3, Zenon
    <2>5. QED
      BY <2>4 DEF pow, n
  <1> HIDE DEF pow
  <1>5. \A k \in 0..n : pow[k] \in S
    <2>1. 0 \in 0..n /\ pow[0] \in S
      BY <1>2, <1>4
    <2>2. ASSUME NEW k \in 1..n, pow[k-1] \in S PROVE pow[k] \in S
      <3>1. k \in 0..n /\ k # 0
        BY <1>2
      <3> HIDE DEF next
      <3>2. pow[k] = next(k, pow[k-1])
        BY <1>4, <3>1
      <3>3. QED
        BY <1>3, <2>2, <3>2
    <2> HIDE DEF S, n
    <2>3. QED
      BY <1>2, <2>1, <2>2, StaysIn
  <1>6. pow[0] = 1 % m
    BY <1>2, <1>4
  <1>7. ASSUME NEW k \in 1..n
        PROVE  pow[k] = (pow[k-1] * x) % m
    <2>1. k \in 0..n /\ k # 0
      BY <1>2
    <2>2. pow[k] = next(k, pow[k-1])
      <3> HIDE DEF next
      <3> QED
        BY <1>4, <2>1
    <2>3. QED
      BY <2>2
  <1>8. Pow(x, e, m) = pow[e] /\ PowersOfX(pow, x, e, m)
    BY <1>1, <1>5, <1>6, <1>7 DEF PowersOfX
  <1>9. QED
    BY <1>8

\* A power is a residue, and the next power is it times the base.
LEMMA PowSteps ==
    ASSUME NEW m \in Nat \ {0}, NEW x \in Int, NEW e \in Nat
    PROVE  /\ Pow(x, 0, m) = 1 % m /\ Pow(x, e, m) \in 0..(m - 1)
           /\ Pow(x, e + 1, m) = (Pow(x, e, m) * x) % m
  <1>1. PICK f : Pow(x, e, m) = f[e] /\ PowersOfX(f, x, e, m)
    BY PowRuns, Zenon
  <1> DEFINE d == e + 1
  <1>2. d \in Nat /\ 0 \in Nat
    OBVIOUS
  <1>3. PICK g : Pow(x, d, m) = g[d] /\ PowersOfX(g, x, d, m)
    <2> HIDE DEF d
    <2> QED
      BY <1>2, PowRuns, Zenon
  <1>4. PICK h : Pow(x, 0, m) = h[0] /\ PowersOfX(h, x, 0, m)
    BY <1>2, PowRuns, Zenon
  <1> DEFINE H == {k \in 0..e : f[k] = g[k]}
  <1>5. 0 \in H
    BY <1>1, <1>3 DEF PowersOfX
  <1>6. ASSUME NEW k \in 1..e, k - 1 \in H PROVE k \in H
    <2>1. k \in 1..d /\ k \in 0..e
      OBVIOUS
    <2> HIDE DEF d
    <2>2. f[k] = (f[k-1] * x) % m /\ g[k] = (g[k-1] * x) % m
      BY <1>1, <1>3, <2>1 DEF PowersOfX
    <2>3. QED
      BY <1>6, <2>1, <2>2
  <1> HIDE DEF H
  <1>7. \A k \in 0..e : k \in H
    BY <1>5, <1>6, Induction
  <1>8. f[e] = g[e]
    BY <1>7 DEF H
  <1>9. g[d] = (g[d - 1] * x) % m /\ d - 1 = e
    <2>1. d \in 1..d /\ d - 1 = e
      OBVIOUS
    <2> HIDE DEF d
    <2>2. QED
      BY <1>3, <2>1 DEF PowersOfX
  <1>10. f[e] \in 0..(m - 1)
    BY <1>1 DEF PowersOfX
  <1>11. h[0] = 1 % m
    BY <1>4 DEF PowersOfX
  <1>12. QED
    BY <1>1, <1>3, <1>4, <1>8, <1>9, <1>10, <1>11

\* The laws of exponents.
LEMMA PowPlus ==
    ASSUME NEW m \in Nat \ {0}, NEW x \in Int, NEW a \in Nat, NEW b \in Nat
    PROVE  Pow(x, a + b, m) = (Pow(x, a, m) * Pow(x, b, m)) % m
  <1> DEFINE A == Pow(x, a, m)
             H == {k \in 0..b : Pow(x, a + k, m) = (A * Pow(x, k, m)) % m}
  <1>1. A \in Int /\ A % m = A
    <2>1. A \in 0..(m - 1)
      BY PowSteps
    <2> HIDE DEF A
    <2>2. QED
      BY <2>1
  <1>2. 0 \in H
    <2>0. 0 \in Nat /\ 1 \in Int /\ 1 % m \in Int
      OBVIOUS
    <2>4. Pow(x, 0, m) = 1 % m
      BY <2>0, PowSteps, Zenon
    <2>1. Pow(x, 0, m) = 1 % m /\ 0 \in 0..b /\ a + 0 = a /\ 1 \in Int /\ A * (1 % m) = (1 % m) * A /\ 1 * A = A
      <3> HIDE DEF A
      <3> DEFINE o == 1 % m
      <3>1. o \in Int
        BY <2>0
      <3> HIDE DEF o
      <3>2. A * o = o * A /\ 1 * A = A /\ a + 0 = a /\ 0 \in 0..b
        BY <1>1, <3>1
      <3>3. QED
        BY <2>0, <2>4, <3>2 DEF o
    <2> HIDE DEF A
    <2>2. ((1 % m) * A) % m = (1 * A) % m
      BY <1>1, <2>1, ModProd, Zenon
    <2>3. QED
      BY <1>1, <2>1, <2>2 DEF A
  <1>3. ASSUME NEW k \in 1..b, k - 1 \in H PROVE k \in H
    <2> DEFINE j == k - 1
               P == Pow(x, j, m)
               Q == Pow(x, a + j, m)
               w == A * P
               z == P * x
    <2>1. j \in Nat /\ a + j \in Nat /\ k = j + 1 /\ a + k = (a + j) + 1 /\ k \in 0..b
      OBVIOUS
    <2>2. Q = w % m
      BY <1>3
    <2> HIDE DEF j, H
    <2>3. Pow(x, k, m) = z % m /\ Pow(x, a + k, m) = (Q * x) % m /\ P \in Int
      <3>1. Pow(x, j + 1, m) = (Pow(x, j, m) * x) % m /\ P \in 0..(m - 1)
        BY <2>1, PowSteps
      <3> DEFINE c == a + j
      <3> HIDE DEF c
      <3>2. c \in Nat
        BY <2>1 DEF c
      <3>3. Pow(x, c + 1, m) = (Pow(x, c, m) * x) % m
        BY <3>2, PowSteps
      <3>4. QED
        BY <2>1, <3>1, <3>3 DEF c
    <2> HIDE DEF P, Q, A
    <2>4. w \in Int /\ z \in Int /\ w * x = z * A /\ A * (z % m) = (z % m) * A
      <3>1. w \in Int /\ z \in Int /\ w * x = z * A
        BY <1>1, <2>3
      <3> HIDE DEF z
      <3>2. QED
        BY <1>1, <3>1
    <2> HIDE DEF w, z
    <2>5. ((w % m) * x) % m = (w * x) % m /\ ((z % m) * A) % m = (z * A) % m
      BY <1>1, <2>4, ModProd, Zenon
    <2>6. Pow(x, a + k, m) = (A * Pow(x, k, m)) % m
      BY <2>2, <2>3, <2>4, <2>5
    <2>7. QED
      BY <2>1, <2>6 DEF H, A
  <1> HIDE DEF H
  <1>4. \A k \in 0..b : k \in H
    BY <1>2, <1>3, Induction
  <1>5. QED
    BY <1>4 DEF H

\* A power of a power.
LEMMA PowTimes ==
    ASSUME NEW m \in Nat \ {0}, NEW x \in Int, NEW a \in Nat, NEW b \in Nat
    PROVE  Pow(x, a * b, m) = Pow(Pow(x, a, m), b, m)
  <1> DEFINE X == Pow(x, a, m)
             H == {k \in 0..b : Pow(x, a * k, m) = Pow(X, k, m)}
  <1>1. X \in Int
    <2>1. X \in 0..(m - 1)
      BY PowSteps
    <2> HIDE DEF X
    <2>2. QED
      BY <2>1
  <1>2. 0 \in H
    <2> HIDE DEF X
    <2>1. a * 0 = 0 /\ 0 \in 0..b /\ 0 \in Nat
      OBVIOUS
    <2>2. Pow(x, 0, m) = 1 % m /\ Pow(X, 0, m) = 1 % m
      BY <1>1, <2>1, PowSteps, Zenon
    <2>3. QED
      BY <2>1, <2>2
  <1>3. ASSUME NEW k \in 1..b, k - 1 \in H PROVE k \in H
    <2> DEFINE j == k - 1
               c == a * j
    <2>1. j \in Nat /\ c \in Nat /\ k = j + 1 /\ a * k = c + a /\ k \in 0..b
      OBVIOUS
    <2>2. Pow(x, c, m) = Pow(X, j, m)
      BY <1>3
    <2> HIDE DEF j, c, H
    <2>3. Pow(x, c + a, m) = (Pow(x, c, m) * X) % m
      BY <2>1, PowPlus, Zenon
    <2> HIDE DEF X
    <2>4. Pow(X, j + 1, m) = (Pow(X, j, m) * X) % m
      BY <1>1, <2>1, PowSteps, Zenon
    <2>5. QED
      BY <2>1, <2>2, <2>3, <2>4 DEF H
  <1> HIDE DEF H
  <1>4. \A k \in 0..b : k \in H
    BY <1>2, <1>3, Induction
  <1>5. QED
    BY <1>4 DEF H

\* Every power of one is one.
LEMMA PowOfOne ==
    ASSUME NEW m \in Nat \ {0}, 2 <= m, NEW b \in Nat
    PROVE  Pow(1, b, m) = 1
  <1> DEFINE H == {k \in 0..b : Pow(1, k, m) = 1}
  <1>1. 1 % m = 1
    OBVIOUS
  <1>2. 0 \in H
    <2>1. 1 \in Int /\ 0 \in Nat /\ 0 \in 0..b
      OBVIOUS
    <2>2. Pow(1, 0, m) = 1 % m
      BY <2>1, PowSteps, Zenon
    <2>3. QED
      BY <1>1, <2>1, <2>2
  <1>3. ASSUME NEW k \in 1..b, k - 1 \in H PROVE k \in H
    <2> DEFINE j == k - 1
    <2>1. j \in Nat /\ k = j + 1 /\ Pow(1, j, m) = 1 /\ k \in 0..b
      BY <1>3
    <2> HIDE DEF j
    <2>2. Pow(1, j + 1, m) = (Pow(1, j, m) * 1) % m
      <3>1. 1 \in Int
        OBVIOUS
      <3>2. QED
        BY <2>1, <3>1, PowSteps, Zenon
    <2>3. QED
      BY <1>1, <2>1, <2>2
  <1> HIDE DEF H
  <1>4. \A k \in 0..b : k \in H
    BY <1>2, <1>3, Induction
  <1>5. QED
    BY <1>4 DEF H

\* Reading one more bit of x.
LEMMA LowBits ==
    ASSUME NEW x \in Nat, NEW p \in Nat \ {0}
    PROVE  /\ (x \div p) % 2 \in {0, 1} /\ x % p \in Nat
           /\ x % (2 * p) = (((x \div p) % 2) * p) + (x % p)
  <1> DEFINE d == x \div p
             c == d % 2
             e == d \div 2
             f == x % p
             w == 2 * p
             s == (c * p) + f
  <1>1. d \in Int /\ f \in 0..(p - 1) /\ x = (p * d) + f
    BY DivMod
  <1> HIDE DEF d, f
  <1>2. c \in {0, 1} /\ d = (2 * e) + c /\ e \in Int
    BY <1>1
  <1> HIDE DEF c, e
  <1>3. p * ((2 * e) + c) = (w * e) + (c * p)
    BY <1>2
  <1>4. c * p = 0 \/ c * p = p
    BY <1>2
  <1>5. x = (w * e) + s /\ s \in 0..(w - 1) /\ w \in Nat \ {0}
    BY <1>1, <1>2, <1>3, <1>4
  <1> HIDE DEF w, s
  <1>6. ((w * e) + s) % w = s
    BY <1>2, <1>5, DivModUnique, Zenon
  <1>7. x % w = s
    BY <1>5, <1>6
  <1>8. f \in Nat
    BY <1>1
  <1>9. QED
    BY <1>2, <1>7, <1>8 DEF w, s, c, d, f

\* BitLen bits hold the whole number.
LEMMA BitLenAbove ==
    ASSUME NEW x \in 0..(R - 1)
    PROVE  BitLen(x) \in 0..W /\ x % 2^BitLen(x) = x
  <1> DEFINE T == {k \in 0..W : 2^k > x}
  <1>1. W \in T
    <2>1. W \in 0..W /\ 2^W > x
      BY WAssumption, RAssumption DEF R
    <2>2. QED
      BY <2>1
  <1>2. PICK k \in T : \A m \in T : k <= m
    <2>1. T \subseteq Nat
      BY WAssumption
    <2> HIDE DEF T
    <2>2. QED
      BY <1>1, <2>1, Least
  <1>3. k \in 0..W /\ 2^k > x /\ \A m \in 0..W : 2^m > x => k <= m
    BY <1>2
  <1>4. BitLen(x) \in 0..W /\ 2^BitLen(x) > x
    BY <1>3 DEF BitLen
  <1> DEFINE p == 2^BitLen(x)
  <1>5. p \in Nat \ {0} /\ x \in Nat /\ p > x
    BY <1>4, WordPowers
  <1> HIDE DEF p
  <1>6. x % p = x
    BY <1>5
  <1>7. QED
    BY <1>4, <1>6 DEF p

\* s stands for a modulo m, with the factor c of its domain.
Stands(s, a, c, m) == s \in 0..m /\ s % m = (a * c) % m
\* A run of square and multiply over the bits of e.
Squares(run, e, c, m) ==
    \A k \in 1..W, a, b \in 0..(m - 1) :
        Stands(run[k-1][1], a, c, m) /\ Stands(run[k-1][2], b, c, m)
        => /\ Stands(run[k][2], (b * b) % m, c, m)
           /\ IF (e \div 2^(k-1)) % 2 = 1 THEN Stands(run[k][1], (a * b) % m, c, m)
              ELSE Stands(run[k][1], a, c, m)

\* Squares and products over the bits of e make the power e.
LEMMA SquareAndMultiply ==
    ASSUME NEW m \in Nat \ {0}, NEW c \in Int, NEW y \in 0..(m - 1), NEW e \in 0..(R - 1),
           NEW run, Stands(run[0][1], 1 % m, c, m), Stands(run[0][2], y, c, m), Squares(run, e, c, m)
    PROVE  Stands(run[BitLen(e)][1], Pow(y, e, m), c, m)
  <1> DEFINE H == {k \in 0..W : /\ Stands(run[k][1], Pow(y, e % 2^k, m), c, m)
                                /\ Stands(run[k][2], Pow(y, 2^k, m), c, m)}
  <1>1. e \in Nat /\ W \in Nat /\ y \in Int
    BY WAssumption
  <1>2. 0 \in H
    <2>1. 0 \in 0..W /\ 0 + 1 = 1 /\ e % 1 = 0 /\ 0 \in Nat
      BY <1>1
    <2>2. 2^0 = 1
      BY <2>1, WordPowers
    <2>3. Pow(y, 0, m) = 1 % m /\ Pow(y, 0 + 1, m) = ((1 % m) * y) % m
      BY <1>1, <2>1, PowSteps
    <2>4. ((1 % m) * y) % m = (1 * y) % m
      <3>1. 1 \in Int
        OBVIOUS
      <3>2. QED
        BY <1>1, <3>1, ModProd, Zenon
    <2>5. (1 * y) % m = y
      OBVIOUS
    <2>6. QED
      BY <2>1, <2>2, <2>3, <2>4, <2>5
  <1>3. ASSUME NEW k \in 1..W, k - 1 \in H PROVE k \in H
    <2> DEFINE p == 2^(k-1)
               bit == (e \div p) % 2
               f == e % p
               a == Pow(y, f, m)
               b == Pow(y, p, m)
    <2>1. k \in 0..W /\ k - 1 \in 0..W /\ k - 1 < W /\ (k - 1) + 1 = k
      BY <1>1
    <2>2. p \in Nat \ {0} /\ 2^k = 2 * p
      BY <2>1, WordPowers
    <2>3. Stands(run[k-1][1], a, c, m) /\ Stands(run[k-1][2], b, c, m)
      BY <1>3
    <2>4. (bit = 0 \/ bit = 1) /\ f \in Nat /\ e % (2 * p) = (bit * p) + f
      <3> HIDE DEF p
      <3> QED
        BY <1>1, <2>2, LowBits
    <2> HIDE DEF H
    <2>5. /\ Stands(run[k][2], (b * b) % m, c, m)
          /\ bit = 1 => Stands(run[k][1], (a * b) % m, c, m)
          /\ bit # 1 => Stands(run[k][1], a, c, m)
      <3>1. a \in 0..(m - 1) /\ b \in 0..(m - 1)
        <4> HIDE DEF p, f
        <4> QED
          BY <1>1, <2>2, <2>4, PowSteps
      <3> HIDE DEF a, b
      <3>2. QED
        BY <2>3, <3>1 DEF Squares
    <2> HIDE DEF p, f, bit
    <2>6. Pow(y, f + p, m) = (a * b) % m /\ Pow(y, p + p, m) = (b * b) % m
      BY <1>1, <2>2, <2>4, PowPlus
    <2>7. 2 * p = p + p /\ (bit = 1 => e % (2 * p) = f + p) /\ (bit = 0 => e % (2 * p) = f)
      <3> DEFINE r == e % (2 * p)
      <3> HIDE DEF r
      <3>1. r = (bit * p) + f
        BY <2>4 DEF r
      <3>2. 2 * p = p + p /\ (bit = 1 => r = f + p) /\ (bit = 0 => r = f)
        BY <2>2, <2>4, <3>1
      <3>3. QED
        BY <3>2 DEF r
    <2> HIDE DEF a, b
    <2>8. Stands(run[k][2], Pow(y, 2^k, m), c, m)
      BY <2>2, <2>5, <2>6, <2>7
    <2>9. Stands(run[k][1], Pow(y, e % 2^k, m), c, m)
      <3>1. CASE bit = 1
        BY <2>2, <2>5, <2>6, <2>7, <3>1
      <3>2. CASE bit = 0
        BY <2>2, <2>5, <2>7, <3>2 DEF a
      <3>3. QED
        BY <2>4, <3>1, <3>2
    <2>10. QED
      BY <2>1, <2>8, <2>9 DEF H
  <1> HIDE DEF H
  <1>4. \A k \in 0..W : k \in H
    BY <1>1, <1>2, <1>3, Induction
  <1>5. BitLen(e) \in H
    BY <1>4, BitLenAbove
  <1>6. QED
    BY <1>5, BitLenAbove DEF H

Agrees(p, s, t, c, m) == (p * c) % m = (s * t) % m
Unit(v, c, m) == (v * c) % m = 1
\* What stands for a times what stands for b.
LEMMA StandsTimes ==
    ASSUME NEW m \in Nat \ {0}, NEW s, NEW t, NEW a \in 0..(m - 1), NEW b \in 0..(m - 1), NEW c \in Int,
           Stands(s, a, c, m), Stands(t, b, c, m), NEW p \in 0..m, NEW v \in Int,
           Agrees(p, s, t, c, m), Unit(v, c, m)
    PROVE  Stands(p, (a * b) % m, c, m)
  <1> DEFINE e == a * c
             f == b * c
             g == a * b
             h == g * c
             k == p * c
  <1>1. /\ s \in Int /\ t \in Int /\ a \in Int /\ b \in Int
        /\ s % m = e % m /\ t % m = f % m
    BY DEF Stands
  <1>0. p \in Int /\ (p * c) % m = (s * t) % m /\ (v * c) % m = 1
    BY DEF Agrees, Unit
  <1>2. /\ e \in Int /\ f \in Int /\ g \in Int /\ h \in Int /\ k \in Int /\ v * c \in Int
        /\ e * f = h * c /\ k * v = (v * c) * p /\ (h * c) * v = (v * c) * h
        /\ h * c \in Int /\ s * t \in Int
    <2>1. e \in Int /\ f \in Int /\ g \in Int /\ k \in Int /\ v * c \in Int /\ s * t \in Int
      BY <1>0, <1>1
    <2>2. e * f = (g * c) * c
      BY <1>1
    <2>3. k * v = (v * c) * p
      BY <1>0
    <2> HIDE DEF g
    <2>4. h \in Int
      BY <2>1
    <2> HIDE DEF h
    <2>5. h * c \in Int /\ (h * c) * v = (v * c) * h
      BY <2>4
    <2>6. QED
      BY <2>1, <2>2, <2>3, <2>4, <2>5 DEF h
  <1> HIDE DEF e, f, g
  <1>3. ((s % m) * (t % m)) % m = (s * t) % m /\ ((e % m) * (f % m)) % m = (e * f) % m
    <2>1. ((s % m) * (t % m)) % m = (s * t) % m
      BY <1>1, ModProd, Zenon
    <2>2. ((e % m) * (f % m)) % m = (e * f) % m
      BY <1>2, ModProd, Zenon
    <2>3. QED
      BY <2>1, <2>2
  <1>4. k % m = (h * c) % m
    BY <1>0, <1>1, <1>2, <1>3
  <1>5. ((g % m) * c) % m = h % m
    BY <1>2, ModProd, Zenon
  <1> HIDE DEF h, k
  <1> DEFINE z == h * c
             o == v * c
  <1> HIDE DEF z, o
  <1>6. z \in Int /\ o \in Int /\ o % m = 1 /\ k % m = z % m /\ k * v = o * p /\ z * v = o * h
    BY <1>0, <1>2, <1>4 DEF z, o
  <1>7. ((k % m) * v) % m = (k * v) % m /\ ((z % m) * v) % m = (z * v) % m
    BY <1>2, <1>6, ModProd, Zenon
  <1>8. ((o % m) * p) % m = (o * p) % m /\ ((o % m) * h) % m = (o * h) % m
    BY <1>0, <1>2, <1>6, ModProd, Zenon
  <1>9. 1 * p = p /\ 1 * h = h
    BY <1>0, <1>2
  <1>10. p % m = h % m
    BY <1>6, <1>7, <1>8, <1>9
  <1>11. QED
    BY <1>5, <1>10 DEF g, Stands

\* Barrett's product multiplies what the words stand for.
LEMMA BRedStands ==
    ASSUME NEW m \in Nat \ {0}, 2 <= m, 2 * m <= R, NEW s, NEW t,
           NEW a \in 0..(m - 1), NEW b \in 0..(m - 1), Stands(s, a, 1, m), Stands(t, b, 1, m)
    PROVE  Stands(BRed(s, t, m, BRedParams(m)), (a * b) % m, 1, m)
           /\ BRed(s, t, m, BRedParams(m)) \in 0..m
  <1> DEFINE p == BRed(s, t, m, BRedParams(m))
             w == s * t
  <1>1. s \in 0..(R - 1) /\ t \in 0..(R - 1) /\ w \in Int
    BY RAssumption DEF Stands
  <1>2. p = w % m
    BY <1>1, BarrettProduct
  <1> HIDE DEF p
  <1>3. p \in Int /\ p \in 0..m /\ p * 1 = p /\ p % m = w % m
    <2> HIDE DEF w
    <2>1. w % m \in 0..(m - 1) /\ (w % m) % m = w % m
      BY <1>1, ModSmall, Zenon
    <2>2. QED
      BY <1>2, <2>1
  <1>4. (1 * 1) % m = 1 /\ 1 \in Int
    OBVIOUS
  <1>5. (p * 1) % m = (s * t) % m
    BY <1>3 DEF w
  <1>6. Stands(p, (a * b) % m, 1, m)
    <2> DEFINE c == 1
    <2>1. /\ Stands(s, a, c, m) /\ Stands(t, b, c, m) /\ Unit(c, c, m) /\ c \in Int
          /\ Agrees(p, s, t, c, m)
      BY <1>3, <1>4, <1>5 DEF Agrees, Unit
    <2> HIDE DEF c
    <2>2. Stands(p, (a * b) % m, c, m)
      BY <1>3, <2>1, StandsTimes
    <2>3. QED
      BY <2>2 DEF c
  <1>7. QED
    BY <1>3, <1>6 DEF p

\* MRed of canonical words, the modulus included, is canonical.
LEMMA MRedBelow ==
    ASSUME NEW m \in Nat \ {0}, 2 <= m, 2 * m <= R, NEW qInv \in Nat, (m * qInv) % R = 1 % R,
           NEW s \in 0..m, NEW t \in 0..m
    PROVE  MRed(s, t, m, qInv) \in 0..(m - 1) /\ (MRed(s, t, m, qInv) * R) % m = (s * t) % m
  <1>1. s \in 0..m /\ t \in 0..m /\ s \in Nat /\ t \in Nat /\ R \in Int /\ R \in Nat
    BY RAssumption
  <1>2. s * t < m * R
    <2>1. s * t <= m * m
      <3>1. s * t <= m * t /\ m * t <= m * m
        BY <1>1
      <3>2. s * t \in Int /\ m * t \in Int /\ m * m \in Int
        BY <1>1
      <3>3. QED
        BY <3>1, <3>2
    <2>2. m * R = (m * m) + (m * (R - m)) /\ m * m \in Int
      BY <1>1
    <2> DEFINE c == m * (R - m)
    <2>3. c \in Nat \ {0}
      <3>1. R - m \in Nat \ {0}
        BY <1>1
      <3>2. QED
        BY <3>1
    <2>4. s * t \in Int
      BY <1>1
    <2>5. m * R = (m * m) + c
      BY <2>2
    <2> HIDE DEF c
    <2>6. QED
      BY <2>1, <2>2, <2>3, <2>4, <2>5
  <1>3. QED
    BY <1>1, <1>2, MontgomeryProduct

\* BRed of canonical words, the modulus included, is canonical.
LEMMA BRedBelow ==
    ASSUME NEW m \in Nat \ {0}, 2 <= m, 2 * m <= R, NEW s \in 0..m, NEW t \in 0..m
    PROVE  BRed(s, t, m, BRedParams(m)) \in 0..m
  <1> DEFINE w == s * t
  <1>1. s \in 0..(R - 1) /\ t \in 0..(R - 1) /\ w \in Int
    BY RAssumption
  <1>2. BRed(s, t, m, BRedParams(m)) = w % m
    BY <1>1, BarrettProduct
  <1> HIDE DEF w
  <1>3. w % m \in 0..(m - 1)
    BY <1>1
  <1>4. QED
    BY <1>2, <1>3

\* Montgomery's product multiplies what the words stand for.
LEMMA MRedStands ==
    ASSUME NEW m \in Nat \ {0}, 2 <= m, 2 * m <= R, NEW qInv \in Nat, (m * qInv) % R = 1 % R, NEW s, NEW t,
           NEW a \in 0..(m - 1), NEW b \in 0..(m - 1), Stands(s, a, R, m), Stands(t, b, R, m)
    PROVE  Stands(MRed(s, t, m, qInv), (a * b) % m, R, m) /\ MRed(s, t, m, qInv) \in 0..(m - 1)
  <1> DEFINE p == MRed(s, t, m, qInv)
  <1>1. s \in 0..m /\ t \in 0..m /\ s \in Nat /\ t \in Nat /\ R \in Int /\ R \in Nat
    BY RAssumption DEF Stands
  <1>3. p \in 0..(m - 1) /\ (p * R) % m = (s * t) % m
    BY <1>1, MRedBelow
  <1>4. PICK v \in 0..(m - 1) : (v * R) % m = 1
    <2>1. 2 <= R
      BY <1>1
    <2>2. QED
      BY <2>1, RadixInverse, Zenon
  <1> HIDE DEF p
  <1>5. p \in Int /\ v \in Int /\ p \in 0..m
    BY <1>3
  <1>6. Stands(p, (a * b) % m, R, m)
    <2>1. Agrees(p, s, t, R, m) /\ Unit(v, R, m)
      BY <1>3, <1>4 DEF Agrees, Unit
    <2>2. QED
      BY <1>1, <1>5, <2>1, StandsTimes
  <1>7. QED
    BY <1>3, <1>6 DEF p

\* ModExp is exponentiation modulo q, for every base and exponent a word holds.
THEOREM Exponentiation ==
    ASSUME NEW q \in Nat \ {0}, 2 <= q, 2 * q <= R, NEW x \in 0..(R - 1), NEW e \in 0..(R - 1)
    PROVE  ModExp(x, e, q) \in 0..q /\ ModExp(x, e, q) % q = Pow(x % q, e, q)
  <1> DEFINE n == W
             S == (0..q) \X (0..(R - 1))
             next(k, s) ==
                 << IF (e \div 2^(k-1)) % 2 = 1 THEN BRed(s[1], s[2], q, BRedParams(q)) ELSE s[1],
                    BRed(s[2], s[2], q, BRedParams(q)) >>
             run[k \in 0..W] ==
                 IF k = 0 THEN << 1, x >>
                 ELSE LET s == run[k-1]
                      IN  << IF (e \div 2^(k-1)) % 2 = 1 THEN BRed(s[1], s[2], q, BRedParams(q)) ELSE s[1],
                             BRed(s[2], s[2], q, BRedParams(q)) >>
             y == x % q
  <1>1. ModExp(x, e, q) = run[BitLen(e)][1]
    BY DEF ModExp, Power
  <1>2. n \in Nat /\ << 1, x >> \in S
    BY WAssumption
  <1>3. \A k \in 1..n, s \in S : next(k, s) \in S
    <2>1. SUFFICES ASSUME NEW k \in 1..n, NEW a \in 0..q, NEW b \in 0..(R - 1)
                   PROVE  next(k, << a, b >>) \in S
      BY DEF S
    <2>2. /\ BRed(a, b, q, BRedParams(q)) = (a * b) % q /\ BRed(b, b, q, BRedParams(q)) = (b * b) % q
          /\ a * b \in Int /\ b * b \in Int
      <3>1. a \in 0..(R - 1)
        BY RAssumption
      <3>2. QED
        BY <3>1, BarrettProduct
    <2> DEFINE u == a * b
               v == b * b
    <2> HIDE DEF u, v
    <2>3. u % q \in 0..q /\ v % q \in 0..(R - 1)
      BY <2>2, RAssumption DEF u, v
    <2>4. QED
      BY <2>2, <2>3 DEF u, v
  <1>4. run = [k \in 0..n |-> IF k = 0 THEN << 1, x >> ELSE next(k, run[k-1])]
    <2> DEFINE g == [k \in 1..n |-> [s \in S |-> next(k, s)]]
    <2>1. g \in [1..n -> [S -> S]]
      BY <1>2, <1>3
    <2> HIDE DEF g, S, n, run
    <2>2. PICK f \in [0..n -> S] : Follows(f, n, << 1, x >>, g)
      BY <1>2, <1>3, <2>1, Recursion, Zenon
    <2>3. ASSUME NEW k \in 1..n PROVE f[k] = next(k, f[k - 1])
      <3>1. k - 1 \in 0..n
        BY <1>2, <1>3
      <3>2. f[k - 1] \in S /\ f[k] = g[k][f[k - 1]]
        BY <2>2, <3>1 DEF Follows
      <3>3. \A s \in S : g[k][s] = next(k, s)
        BY Zenon DEF g
      <3>4. QED
        BY <3>2, <3>3, Zenon
    <2>4. f = [k \in 0..n |-> IF k = 0 THEN << 1, x >> ELSE next(k, f[k-1])]
      <3>1. \A k \in 0..n : k # 0 => k \in 1..n
        BY <1>2, <1>3
      <3>2. f[0] = << 1, x >> /\ f = [k \in 0..n |-> f[k]]
        BY <2>2 DEF Follows
      <3> HIDE DEF next
      <3>3. \A k \in 0..n : f[k] = IF k = 0 THEN << 1, x >> ELSE next(k, f[k-1])
        BY <2>3, <3>1, <3>2
      <3>4. QED
        BY <3>2, <3>3, Zenon
    <2>5. QED
      BY <2>4 DEF run, n
  <1> HIDE DEF run
  <1>5. \A k \in 0..n : run[k] \in S
    <2>1. 0 \in 0..n /\ run[0] \in S
      BY <1>2, <1>4
    <2>2. ASSUME NEW k \in 1..n, run[k-1] \in S PROVE run[k] \in S
      <3>1. k \in 0..n /\ k # 0
        BY <1>2
      <3> HIDE DEF next
      <3>2. run[k] = next(k, run[k-1])
        BY <1>4, <3>1
      <3>3. QED
        BY <1>3, <2>2, <3>2
    <2> HIDE DEF S, n
    <2>3. QED
      BY <1>2, <2>1, <2>2, StaysIn
  <1> DEFINE low == [k \in 0..W |-> IF k = 0 THEN << 1, y >> ELSE run[k]]
             u == BRedParams(q)
  <1>6. /\ y \in 0..(q - 1) /\ y \in 0..(R - 1) /\ y % q = y /\ run[0] = << 1, x >>
        /\ BRed(1, x, q, u) = BRed(1, y, q, u) /\ BRed(x, x, q, u) = BRed(y, y, q, u)
    <2>1. run[0] = << 1, x >>
      <3>1. 0 \in 0..n
        BY <1>2
      <3> HIDE DEF next
      <3>2. QED
        BY <1>4, <3>1
    <2>2. /\ y \in 0..(q - 1) /\ y \in 0..(R - 1) /\ y % q = y /\ 1 \in 0..(R - 1) /\ 1 \in Int
          /\ x \in Int /\ y \in Int
      BY RAssumption
    <2>3. BRed(1, x, q, u) = (1 * x) % q /\ BRed(1, y, q, u) = (1 * y) % q
      BY <2>2, BarrettProduct
    <2>4. BRed(x, x, q, u) = (x * x) % q /\ BRed(y, y, q, u) = (y * y) % q
      BY <2>2, BarrettProduct
    <2>5. (y * y) % q = (x * x) % q
      BY <2>2, ModProd, Zenon
    <2>6. 1 * x = x /\ 1 * y = y
      BY <2>2
    <2>7. QED
      BY <2>1, <2>2, <2>3, <2>4, <2>5, <2>6, Zenon
  <1>7. Stands(low[0][1], 1 % q, 1, q) /\ Stands(low[0][2], y, 1, q)
    <2>1. 0 \in 0..W
      BY <1>2
    <2>2. low[0] = << 1, y >>
      BY <2>1
    <2>3. y * 1 = y /\ 1 % q = 1 /\ 1 * 1 = 1 /\ y \in 0..q
      BY <1>6
    <2> HIDE DEF low, y
    <2>4. QED
      BY <1>6, <2>2, <2>3 DEF Stands
  <1>8. Squares(low, e, 1, q)
    <2>1. SUFFICES ASSUME NEW k \in 1..W, NEW a \in 0..(q - 1), NEW b \in 0..(q - 1),
                          Stands(low[k-1][1], a, 1, q), Stands(low[k-1][2], b, 1, q)
                   PROVE  /\ Stands(low[k][2], (b * b) % q, 1, q)
                          /\ IF (e \div 2^(k-1)) % 2 = 1 THEN Stands(low[k][1], (a * b) % q, 1, q)
                             ELSE Stands(low[k][1], a, 1, q)
      BY DEF Squares
    <2> DEFINE s == low[k-1]
               t == s[1]
               h == s[2]
               even == (e \div 2^(k-1)) % 2
    <2>2. low[k] = << IF even = 1 THEN BRed(t, h, q, u) ELSE t, BRed(h, h, q, u) >>
      <3>1. k \in 0..n /\ k # 0 /\ k - 1 \in 0..n
        BY <1>2
      <3>2. run[k] = next(k, run[k-1]) /\ low[k] = run[k]
        <4>1. low[k] = run[k]
          BY <3>1
        <4> HIDE DEF next, low
        <4> QED
          BY <1>4, <3>1, <4>1
      <3>3. CASE k = 1
        <4>1. low[k-1] = << 1, y >> /\ run[k-1] = << 1, x >>
          <5>1. low[0] = << 1, y >> /\ k - 1 = 0
            BY <3>1, <3>3
          <5> HIDE DEF low, y
          <5>2. QED
            BY <1>6, <5>1
        <4>2. t = 1 /\ h = y
          <5> HIDE DEF low, y
          <5> QED
            BY <4>1
        <4>3. run[k] = << IF even = 1 THEN BRed(1, x, q, u) ELSE 1, BRed(x, x, q, u) >>
          <5> HIDE DEF low, y
          <5> QED
            BY <3>2, <4>1
        <4> HIDE DEF t, h, even, u, low, y
        <4>4. QED
          BY <1>6, <3>2, <4>2, <4>3
      <3>4. CASE k # 1
        <4>1. low[k-1] = run[k-1]
          <5>1. k - 1 # 0
            BY <3>1, <3>4
          <5>2. QED
            BY <3>1, <5>1
        <4> HIDE DEF low
        <4>2. QED
          BY <3>2, <4>1
      <3>5. QED
        BY <3>3, <3>4
    <2> HIDE DEF s, t, h, even, low
    <2>3. Stands(t, a, 1, q) /\ Stands(h, b, 1, q)
      BY <2>1 DEF s, t, h
    <2>4. Stands(BRed(t, h, q, u), (a * b) % q, 1, q) /\ Stands(BRed(h, h, q, u), (b * b) % q, 1, q)
      BY <2>3, BRedStands
    <2>5. /\ Stands(low[k][2], (b * b) % q, 1, q)
          /\ IF even = 1 THEN Stands(low[k][1], (a * b) % q, 1, q)
             ELSE Stands(low[k][1], a, 1, q)
      BY <2>2, <2>3, <2>4
    <2>6. QED
      BY <2>5 DEF even
  <1>9. 1 \in Int
    BY RAssumption
  <1> HIDE DEF y
  <1>10. Stands(run[BitLen(e)][1], Pow(y, e, q), 1, q)
    <2> DEFINE b == BitLen(e)
    <2>1. b \in 0..W
      BY BitLenRange
    <2>2. low[b] = IF b = 0 THEN << 1, y >> ELSE run[b]
      BY <2>1, Zenon
    <2>3. y \in 0..(q - 1)
      BY <1>6
    <2> HIDE DEF low
    <2>4. Stands(low[b][1], Pow(y, e, q), 1, q)
      BY <1>7, <1>9, <1>8, <2>3, SquareAndMultiply
    <2> HIDE DEF b
    <2>5. low[b][1] = run[b][1]
      <3>1. CASE b = 0
        BY <1>6, <2>2, <3>1
      <3>2. CASE b # 0
        BY <2>2, <3>2
      <3>3. QED
        BY <3>1, <3>2
    <2>6. Stands(run[b][1], Pow(y, e, q), 1, q)
      BY <2>4, <2>5, Zenon
    <2>7. QED
      BY <2>6 DEF b
  <1>11. Pow(y, e, q) * 1 = Pow(y, e, q) /\ Pow(y, e, q) % q = Pow(y, e, q)
    <2> DEFINE w == Pow(y, e, q)
    <2>0. y \in Int /\ e \in Nat
      BY <1>6
    <2>1. w \in 0..(q - 1)
      BY <2>0, PowSteps
    <2> HIDE DEF w
    <2>2. w * 1 = w /\ w % q = w
      BY <2>1
    <2>3. QED
      BY <2>2 DEF w
  <1>12. QED
    BY <1>1, <1>10, <1>11 DEF Stands, y

\* Of a base in Montgomery form, modexpMontgomery makes the power in Montgomery form.
THEOREM MontgomeryExponentiation ==
    ASSUME NEW q \in Nat \ {0}, 2 <= q, 2 * q <= R, NEW qInv \in Nat, (q * qInv) % R = 1 % R,
           NEW z \in 0..(q - 1), NEW x \in 0..(q - 1), x = (z * R) % q, NEW e \in 0..(R - 1)
    PROVE  /\ modexpMontgomery(x, e, q, qInv, BRedParams(q)) \in 0..q
           /\ modexpMontgomery(x, e, q, qInv, BRedParams(q)) % q = (Pow(z, e, q) * R) % q
  <1> DEFINE n == W
             S == (0..q) \X (0..q)
             next(k, s) ==
                 << IF (e \div 2^(k-1)) % 2 = 1 THEN MRed(s[1], s[2], q, qInv) ELSE s[1],
                    MRed(s[2], s[2], q, qInv) >>
             run[k \in 0..W] ==
                 IF k = 0 THEN << MForm(1, q, BRedParams(q)), x >>
                 ELSE LET s == run[k-1]
                      IN  << IF (e \div 2^(k-1)) % 2 = 1 THEN MRed(s[1], s[2], q, qInv) ELSE s[1],
                             MRed(s[2], s[2], q, qInv) >>
             y == z
  <1>1. modexpMontgomery(x, e, q, qInv, BRedParams(q)) = run[BitLen(e)][1]
    BY DEF modexpMontgomery, Power
  <1>2. n \in Nat /\ << MForm(1, q, BRedParams(q)), x >> \in S
    <2>1. 1 \in 0..(R - 1)
      BY RAssumption
    <2>2. MForm(1, q, BRedParams(q)) \in 0..(q - 1)
      BY <2>1, ToMontgomery
    <2>3. QED
      BY <2>2, WAssumption
  <1>3. \A k \in 1..n, s \in S : next(k, s) \in S
    <2>1. SUFFICES ASSUME NEW k \in 1..n, NEW a \in 0..q, NEW b \in 0..q
                   PROVE  next(k, << a, b >>) \in S
      BY DEF S
    <2>2. MRed(a, b, q, qInv) \in 0..(q - 1)
      BY MRedBelow, Zenon
    <2>3. MRed(b, b, q, qInv) \in 0..(q - 1)
      BY MRedBelow, Zenon
    <2>4. QED
      BY <2>2, <2>3
  <1>4. run = [k \in 0..n |-> IF k = 0 THEN << MForm(1, q, BRedParams(q)), x >> ELSE next(k, run[k-1])]
    <2> DEFINE g == [k \in 1..n |-> [s \in S |-> next(k, s)]]
    <2>1. g \in [1..n -> [S -> S]]
      BY <1>2, <1>3
    <2> HIDE DEF g, S, n, run
    <2>2. PICK f \in [0..n -> S] : Follows(f, n, << MForm(1, q, BRedParams(q)), x >>, g)
      BY <1>2, <1>3, <2>1, Recursion, Zenon
    <2>3. ASSUME NEW k \in 1..n PROVE f[k] = next(k, f[k - 1])
      <3>1. k - 1 \in 0..n
        BY <1>2, <1>3
      <3>2. f[k - 1] \in S /\ f[k] = g[k][f[k - 1]]
        BY <2>2, <3>1 DEF Follows
      <3>3. \A s \in S : g[k][s] = next(k, s)
        BY Zenon DEF g
      <3>4. QED
        BY <3>2, <3>3, Zenon
    <2>4. f = [k \in 0..n |-> IF k = 0 THEN << MForm(1, q, BRedParams(q)), x >> ELSE next(k, f[k-1])]
      <3>1. \A k \in 0..n : k # 0 => k \in 1..n
        BY <1>2, <1>3
      <3>2. f[0] = << MForm(1, q, BRedParams(q)), x >> /\ f = [k \in 0..n |-> f[k]]
        BY <2>2 DEF Follows
      <3> HIDE DEF next
      <3>3. \A k \in 0..n : f[k] = IF k = 0 THEN << MForm(1, q, BRedParams(q)), x >> ELSE next(k, f[k-1])
        BY <2>3, <3>1, <3>2
      <3>4. QED
        BY <3>2, <3>3, Zenon
    <2>5. QED
      BY <2>4 DEF run, n
  <1> HIDE DEF run
  <1>5. \A k \in 0..n : run[k] \in S
    <2>1. 0 \in 0..n /\ run[0] \in S
      BY <1>2, <1>4
    <2>2. ASSUME NEW k \in 1..n, run[k-1] \in S PROVE run[k] \in S
      <3>1. k \in 0..n /\ k # 0
        BY <1>2
      <3> HIDE DEF next
      <3>2. run[k] = next(k, run[k-1])
        BY <1>4, <3>1
      <3>3. QED
        BY <1>3, <2>2, <3>2
    <2> HIDE DEF S, n
    <2>3. QED
      BY <1>2, <2>1, <2>2, StaysIn
  <1>6. y \in 0..(q - 1) /\ Stands(run[0][1], 1 % q, R, q) /\ Stands(run[0][2], y, R, q)
    <2>1. run[0] = << MForm(1, q, BRedParams(q)), x >>
      <3>1. 0 \in 0..n
        BY <1>2
      <3> HIDE DEF next
      <3>2. QED
        BY <1>4, <3>1
    <2>2. 1 \in 0..(R - 1) /\ 1 % q = 1 /\ x % q = x
      BY RAssumption
    <2>3. MForm(1, q, BRedParams(q)) \in 0..(q - 1) /\ MForm(1, q, BRedParams(q)) = (1 * R) % q
      BY <2>2, ToMontgomery
    <2>4. \A w \in 0..(q - 1) : w % q = w /\ w \in 0..q
      OBVIOUS
    <2>5. QED
      BY <2>1, <2>2, <2>3, <2>4 DEF Stands
  <1>7. Squares(run, e, R, q)
    <2>1. SUFFICES ASSUME NEW k \in 1..W, NEW a \in 0..(q - 1), NEW b \in 0..(q - 1),
                          Stands(run[k-1][1], a, R, q), Stands(run[k-1][2], b, R, q)
                   PROVE  /\ Stands(run[k][2], (b * b) % q, R, q)
                          /\ IF (e \div 2^(k-1)) % 2 = 1 THEN Stands(run[k][1], (a * b) % q, R, q)
                             ELSE Stands(run[k][1], a, R, q)
      BY DEF Squares
    <2> DEFINE s == run[k-1]
               t == s[1]
               h == s[2]
               even == (e \div 2^(k-1)) % 2
    <2>2. run[k] = << IF even = 1 THEN MRed(t, h, q, qInv) ELSE t, MRed(h, h, q, qInv) >>
      <3>1. k \in 0..n /\ k # 0
        BY <1>2
      <3>2. run[k] = next(k, run[k-1])
        <4> HIDE DEF next
        <4> QED
          BY <1>4, <3>1
      <3>3. QED
        BY <3>2
    <2> HIDE DEF s, t, h, even
    <2>3. Stands(t, a, R, q) /\ Stands(h, b, R, q)
      BY <2>1 DEF s, t, h
    <2>4. Stands(MRed(t, h, q, qInv), (a * b) % q, R, q) /\ Stands(MRed(h, h, q, qInv), (b * b) % q, R, q)
      BY <2>3, MRedStands
    <2>5. /\ Stands(run[k][2], (b * b) % q, R, q)
          /\ IF even = 1 THEN Stands(run[k][1], (a * b) % q, R, q)
             ELSE Stands(run[k][1], a, R, q)
      BY <2>2, <2>3, <2>4
    <2>6. QED
      BY <2>5 DEF even
  <1>8. R \in Int
    BY RAssumption
  <1> HIDE DEF y
  <1>9. Stands(run[BitLen(e)][1], Pow(y, e, q), R, q)
    BY <1>6, <1>7, <1>8, SquareAndMultiply
  <1>10. QED
    BY <1>1, <1>9 DEF Stands, y

-----------------------------------------------------------------------------
(* Congruences *)

\* Congruences modulo q.
Congruent(a, b, q) == a % q = b % q

\* They are equalities, and add and multiply.
LEMMA CongruentIs ==
    ASSUME NEW q \in Nat \ {0}
    PROVE  /\ \A a \in Int : Congruent(a, a, q) /\ Congruent(a % q, a, q)
           /\ \A a, b \in Int : Congruent(a, b, q) => Congruent(b, a, q)
  <1>1. \A a \in Int : (a % q) % q = a % q
    BY ModSmall, Zenon
  <1>2. QED
    BY <1>1 DEF Congruent

LEMMA CongruentVia ==
    ASSUME NEW q, NEW a, NEW b, NEW c, Congruent(a, b, q), Congruent(b, c, q)
    PROVE  Congruent(a, c, q)
  BY DEF Congruent

LEMMA CongruentSum ==
    ASSUME NEW q \in Nat \ {0}, NEW a \in Int, NEW b \in Int, NEW c \in Int, NEW d \in Int,
           Congruent(a, b, q), Congruent(c, d, q)
    PROVE  Congruent(a + c, b + d, q) /\ Congruent(a - c, b - d, q)
  <1>1. ((a % q) + (c % q)) % q = (a + c) % q /\ ((b % q) + (d % q)) % q = (b + d) % q
    BY ModSum, Zenon
  <1>2. ((a % q) - (c % q)) % q = (a - c) % q /\ ((b % q) - (d % q)) % q = (b - d) % q
    BY ModDiff, Zenon
  <1>3. QED
    BY <1>1, <1>2 DEF Congruent

LEMMA CongruentProduct ==
    ASSUME NEW q \in Nat \ {0}, NEW a \in Int, NEW b \in Int, NEW c \in Int, NEW d \in Int,
           Congruent(a, b, q), Congruent(c, d, q)
    PROVE  Congruent(a * c, b * d, q)
  <1>1. ((a % q) * (c % q)) % q = (a * c) % q /\ ((b % q) * (d % q)) % q = (b * d) % q
    BY ModProd, Zenon
  <1>2. QED
    BY <1>1 DEF Congruent

\* Two terms of a polynomial at the point x, d apart: y stands for the power of
\* x at the second, and w for its power d.  A forward pair leaves their sum.
LEMMA TwoTerms ==
    ASSUME NEW q \in Nat \ {0}, NEW A \in Int, NEW B \in Int, NEW C \in Int,
           NEW x \in Int, NEW y \in Int, NEW w \in Int,
           Congruent(y, w * x, q), Congruent(C, A + (w * B), q)
    PROVE  Congruent((A * x) + (B * y), 1 * (C * x), q)
  <1> DEFINE wx == w * x
             wB == w * B
  <1>1. wx \in Int /\ wB \in Int
    OBVIOUS
  <1>2. (A + wB) * x = (A * x) + (B * wx)
    OBVIOUS
  <1>3. Congruent(y, wx, q) /\ Congruent(C, A + wB, q)
    OBVIOUS
  <1> HIDE DEF wx, wB
  <1>4. /\ A * x \in Int /\ B * y \in Int /\ B * wx \in Int /\ C * x \in Int /\ A + wB \in Int
        /\ (A + wB) * x \in Int /\ 1 * (C * x) = C * x /\ (A * x) + (B * y) \in Int
    BY <1>1
  <1>5. Congruent(A * x, A * x, q) /\ Congruent(B, B, q) /\ Congruent(x, x, q)
    BY <1>4, CongruentIs, Zenon
  <1>6. Congruent(B * y, B * wx, q)
    BY <1>1, <1>3, <1>5, CongruentProduct, Zenon
  <1>7. Congruent(C * x, (A + wB) * x, q)
    BY <1>3, <1>4, <1>5, CongruentProduct, Zenon
  <1>8. Congruent((A * x) + (B * y), (A * x) + (B * wx), q)
    BY <1>4, <1>5, <1>6, CongruentSum, Zenon
  <1>9. Congruent((A + wB) * x, C * x, q)
    BY <1>4, <1>7, CongruentIs, Zenon
  <1>10. Congruent((A * x) + (B * y), (A + wB) * x, q)
    BY <1>2, <1>8
  <1>11. Congruent((A * x) + (B * y), C * x, q)
    BY <1>9, <1>10, CongruentVia, Zenon
  <1>12. QED
    BY <1>4, <1>11

\* An inverse pair leaves twice the first or, with the other sign, twice the
\* second.
Signs == {1, -1}
Sided(v, A, B) == IF v = 1 THEN A ELSE B
LEMMA TwoTermsBack ==
    ASSUME NEW q \in Nat \ {0}, NEW A \in Int, NEW B \in Int, NEW D \in Int, NEW E \in Int,
           NEW x \in Int, NEW y \in Int, NEW w \in Int, NEW g \in Int, NEW v \in Signs,
           Congruent(y, w * x, q), Congruent(D, A + B, q), Congruent(E, (A - B) * g, q),
           Congruent(w * g, v, q)
    PROVE  Congruent((D * x) + (E * y), 2 * (Sided(v, A, B) * x), q)
  <1> DEFINE C == Sided(v, A, B)
             wx == w * x
             wg == w * g
             s == A + B
             r == A - B
             rg == r * g
  <1>1. wx \in Int /\ wg \in Int /\ s \in Int /\ r \in Int /\ v \in Int /\ C \in Int
    BY DEF Sided, Signs
  <1>2. rg \in Int /\ rg * wx = (r * wg) * x
    <2> HIDE DEF r
    <2>1. QED
      BY <1>1
  <1>3. s + (r * v) = 2 * C
    <2>1. v = 1 => r * v = r
      OBVIOUS
    <2>2. v = -1 => r * v = -r
      OBVIOUS
    <2>3. QED
      BY <2>1, <2>2 DEF Sided, Signs
  <1>4. Congruent(y, wx, q) /\ Congruent(D, s, q) /\ Congruent(E, rg, q) /\ Congruent(wg, v, q)
    OBVIOUS
  <1> HIDE DEF wx, wg, rg, s, r, C
  <1>5. /\ D * x \in Int /\ E * y \in Int /\ s * x \in Int /\ rg * wx \in Int
        /\ r * wg \in Int /\ (r * wg) * x \in Int /\ r * v \in Int /\ (r * v) * x \in Int
        /\ (s * x) + ((r * v) * x) = (s + (r * v)) * x /\ (2 * C) * x = 2 * (C * x)
        /\ (s * x) + ((r * v) * x) \in Int /\ (s * x) + ((r * wg) * x) \in Int /\ (D * x) + (E * y) \in Int
    BY <1>1, <1>2
  <1>6. Congruent(x, x, q) /\ Congruent(r, r, q) /\ Congruent(s * x, s * x, q)
    BY <1>1, <1>5, CongruentIs, Zenon
  <1>7. Congruent(D * x, s * x, q)
    BY <1>1, <1>4, <1>6, CongruentProduct, Zenon
  <1>8. Congruent(E * y, rg * wx, q)
    BY <1>1, <1>2, <1>4, CongruentProduct, Zenon
  <1>9. Congruent((D * x) + (E * y), (s * x) + (rg * wx), q)
    BY <1>5, <1>7, <1>8, CongruentSum, Zenon
  <1>10. Congruent(r * wg, r * v, q)
    BY <1>1, <1>4, <1>6, CongruentProduct, Zenon
  <1>11. Congruent((r * wg) * x, (r * v) * x, q)
    BY <1>5, <1>6, <1>10, CongruentProduct, Zenon
  <1>12. Congruent((s * x) + ((r * wg) * x), (s * x) + ((r * v) * x), q)
    BY <1>5, <1>6, <1>11, CongruentSum, Zenon
  <1>13. Congruent((D * x) + (E * y), (s * x) + ((r * wg) * x), q)
    BY <1>2, <1>9
  <1>14. Congruent((D * x) + (E * y), (s * x) + ((r * v) * x), q)
    BY <1>12, <1>13, CongruentVia, Zenon
  <1>15. QED
    BY <1>3, <1>5, <1>14 DEF C

-----------------------------------------------------------------------------
(* Sums *)

\* f[0] + ... + f[n-1].
Total(f, n) == LET upto[i \in 0..n] == IF i = 0 THEN 0 ELSE upto[i-1] + f[i-1] IN upto[n]
PartialSums(s, f, n) ==
    s[0] = 0 /\ (\A i \in 0..n : s[i] \in Int) /\ \A i \in 1..n : s[i] = s[i-1] + f[i-1]

\* A sum is the last of its partial sums.
LEMMA TotalRuns ==
    ASSUME NEW n \in Nat, NEW f, \A i \in 0..(n - 1) : f[i] \in Int
    PROVE  \E s : Total(f, n) = s[n] /\ PartialSums(s, f, n)
  <1> DEFINE S == Int
             next(i, s) == s + f[i - 1]
             upto[i \in 0..n] == IF i = 0 THEN 0 ELSE upto[i-1] + f[i-1]
  <1>1. Total(f, n) = upto[n]
    BY DEF Total
  <1>2. n \in Nat /\ 0 \in S
    OBVIOUS
  <1>3. \A i \in 1..n, s \in S : next(i, s) \in S
    <2>1. \A i \in 1..n : i - 1 \in 0..(n - 1)
      OBVIOUS
    <2>2. QED
      BY <2>1
  <1>4. upto = [i \in 0..n |-> IF i = 0 THEN 0 ELSE next(i, upto[i-1])]
    <2> DEFINE g == [i \in 1..n |-> [s \in S |-> next(i, s)]]
    <2>1. g \in [1..n -> [S -> S]]
      BY <1>2, <1>3
    <2> HIDE DEF g, S, upto
    <2>2. PICK h \in [0..n -> S] : Follows(h, n, 0, g)
      BY <1>2, <1>3, <2>1, Recursion, Zenon
    <2>3. ASSUME NEW i \in 1..n PROVE h[i] = next(i, h[i - 1])
      <3>1. i - 1 \in 0..n
        BY <1>2, <1>3
      <3>2. h[i - 1] \in S /\ h[i] = g[i][h[i - 1]]
        BY <2>2, <3>1 DEF Follows
      <3>3. \A s \in S : g[i][s] = next(i, s)
        BY Zenon DEF g
      <3>4. QED
        BY <3>2, <3>3, Zenon
    <2>4. h = [i \in 0..n |-> IF i = 0 THEN 0 ELSE next(i, h[i-1])]
      <3>1. \A i \in 0..n : i # 0 => i \in 1..n
        BY <1>2, <1>3
      <3>2. h[0] = 0 /\ h = [i \in 0..n |-> h[i]]
        BY <2>2 DEF Follows
      <3> HIDE DEF next
      <3>3. \A i \in 0..n : h[i] = IF i = 0 THEN 0 ELSE next(i, h[i-1])
        BY <2>3, <3>1, <3>2
      <3>4. QED
        BY <3>2, <3>3, Zenon
    <2>5. QED
      BY <2>4 DEF upto
  <1> HIDE DEF upto
  <1>5. \A i \in 0..n : upto[i] \in S
    <2>1. 0 \in 0..n /\ upto[0] \in S
      BY <1>2, <1>4
    <2>2. ASSUME NEW i \in 1..n, upto[i-1] \in S PROVE upto[i] \in S
      <3>1. i \in 0..n /\ i # 0
        BY <1>2
      <3> HIDE DEF next
      <3>2. upto[i] = next(i, upto[i-1])
        BY <1>4, <3>1
      <3>3. QED
        BY <1>3, <2>2, <3>2
    <2> HIDE DEF S
    <2>3. QED
      BY <1>2, <2>1, <2>2, StaysIn
  <1>6. upto[0] = 0
    BY <1>2, <1>4
  <1>7. ASSUME NEW i \in 1..n PROVE upto[i] = upto[i-1] + f[i-1]
    <2>1. i \in 0..n /\ i # 0
      BY <1>2
    <2>2. upto[i] = next(i, upto[i-1])
      <3> HIDE DEF next
      <3> QED
        BY <1>4, <2>1
    <2>3. QED
      BY <2>2
  <1>8. Total(f, n) = upto[n] /\ PartialSums(upto, f, n)
    BY <1>1, <1>5, <1>6, <1>7 DEF PartialSums
  <1>9. QED
    BY <1>8

\* A sum is an integer, and the next is one term more.
LEMMA TotalSteps ==
    ASSUME NEW n \in Nat, NEW f, \A i \in 0..(n - 1) : f[i] \in Int
    PROVE  /\ Total(f, 0) = 0
           /\ \A i \in 0..n : Total(f, i) \in Int
           /\ \A i \in 1..n : Total(f, i) = Total(f, i - 1) + f[i - 1]
  <1>1. PICK s : Total(f, n) = s[n] /\ PartialSums(s, f, n)
    BY TotalRuns, Zenon
  <1>2. ASSUME NEW i \in 0..n PROVE Total(f, i) = s[i]
    <2>1. i \in Nat /\ \A l \in 0..(i - 1) : l \in 0..(n - 1)
      OBVIOUS
    <2>2. \A l \in 0..(i - 1) : f[l] \in Int
      BY <2>1
    <2>3. PICK r : Total(f, i) = r[i] /\ PartialSums(r, f, i)
      BY <2>1, <2>2, TotalRuns, Zenon
    <2> DEFINE H == {l \in 0..i : r[l] = s[l]}
    <2>4. 0 \in H
      BY <1>1, <2>1, <2>3 DEF PartialSums
    <2>5. ASSUME NEW l \in 1..i, l - 1 \in H PROVE l \in H
      <3>1. l \in 1..n /\ l \in 0..i
        OBVIOUS
      <3>2. r[l] = r[l-1] + f[l-1] /\ s[l] = s[l-1] + f[l-1]
        BY <1>1, <2>3, <3>1 DEF PartialSums
      <3>3. QED
        BY <2>5, <3>1, <3>2
    <2> HIDE DEF H
    <2>6. \A l \in 0..i : l \in H
      BY <2>1, <2>4, <2>5, Induction
    <2>7. i \in 0..i
      BY <2>1
    <2>8. QED
      BY <2>3, <2>6, <2>7 DEF H
  <1>3. 0 \in 0..n /\ \A i \in 1..n : i \in 0..n /\ i - 1 \in 0..n
    OBVIOUS
  <1>4. QED
    BY <1>1, <1>2, <1>3 DEF PartialSums

\* Sums of congruent terms are congruent, here with a factor c on one side.
LEMMA TotalTimes ==
    ASSUME NEW q \in Nat \ {0}, NEW n \in Nat, NEW c \in Int,
           NEW f, \A i \in 0..(n - 1) : f[i] \in Int,
           NEW h, \A i \in 0..(n - 1) : h[i] \in Int,
           \A i \in 0..(n - 1) : Congruent(f[i], c * h[i], q)
    PROVE  Congruent(Total(f, n), c * Total(h, n), q)
  <1> DEFINE H == {i \in 0..n : Total(f, i) % q = (c * Total(h, i)) % q}
  <1>1. 0 \in H
    <2>1. Total(f, 0) = 0 /\ Total(h, 0) = 0
      BY TotalSteps, Zenon
    <2>2. 0 \in 0..n /\ c * 0 = 0
      OBVIOUS
    <2>3. QED
      BY <2>1, <2>2
  <1>2. ASSUME NEW i \in 1..n, i - 1 \in H PROVE i \in H
    <2> DEFINE a == Total(f, i - 1)
               b == Total(h, i - 1)
               x == f[i - 1]
               y == h[i - 1]
    <2>1. i - 1 \in 0..n /\ i \in 0..n /\ i - 1 \in 0..(n - 1)
      OBVIOUS
    <2>2. a \in Int /\ b \in Int /\ Total(f, i) = a + x /\ Total(h, i) = b + y
      BY <2>1, TotalSteps
    <2>3. x \in Int /\ y \in Int /\ x % q = (c * y) % q /\ a % q = (c * b) % q
      BY <1>2, <2>1 DEF Congruent
    <2> HIDE DEF a, b, x, y, H
    <2> DEFINE u == c * b
               v == c * y
    <2>4. u \in Int /\ v \in Int /\ c * (b + y) = u + v
      BY <2>2, <2>3
    <2> HIDE DEF u, v
    <2>5. (a + x) % q = ((a % q) + (x % q)) % q /\ (u + v) % q = ((u % q) + (v % q)) % q
      BY <2>2, <2>3, <2>4, ModSum, Zenon
    <2>6. a % q = u % q /\ x % q = v % q
      BY <2>3 DEF u, v
    <2>7. (a + x) % q = (u + v) % q
      BY <2>5, <2>6
    <2>8. Total(f, i) % q = (c * Total(h, i)) % q
      BY <2>2, <2>4, <2>7
    <2>9. QED
      BY <2>1, <2>8 DEF H
  <1> HIDE DEF H
  <1>3. \A i \in 0..n : i \in H
    BY <1>1, <1>2, Induction
  <1>4. QED
    BY <1>3 DEF H, Congruent

\* A sum of 2n terms, when every two n apart make c times a third.
LEMMA TotalFolds ==
    ASSUME NEW q \in Nat \ {0}, NEW n \in Nat, NEW c \in Int,
           NEW f, \A i \in 0..((2 * n) - 1) : f[i] \in Int,
           NEW h, \A i \in 0..(n - 1) : h[i] \in Int,
           \A i \in 0..(n - 1) : Congruent(f[i] + f[n + i], c * h[i], q)
    PROVE  Congruent(Total(f, 2 * n), c * Total(h, n), q)
  <1> DEFINE e == [i \in 0..(n - 1) |-> f[i] + f[n + i]]
             H == {i \in 0..n : Total(e, i) = (Total(f, i) + Total(f, n + i)) - Total(f, n)}
  <1>1. \A i \in 0..(n - 1) : e[i] \in Int /\ e[i] = f[i] + f[n + i]
    <2>1. \A i \in 0..(n - 1) : i \in 0..((2 * n) - 1) /\ n + i \in 0..((2 * n) - 1)
      OBVIOUS
    <2>2. QED
      BY <2>1
  <1> HIDE DEF e
  <1>2. /\ Total(f, 0) = 0 /\ \A i \in 0..(2 * n) : Total(f, i) \in Int
        /\ \A i \in 1..(2 * n) : Total(f, i) = Total(f, i - 1) + f[i - 1]
    <2> DEFINE d == 2 * n
    <2>1. d \in Nat
      OBVIOUS
    <2>2. \A i \in 0..(d - 1) : f[i] \in Int
      OBVIOUS
    <2> HIDE DEF d
    <2>3. /\ Total(f, 0) = 0 /\ \A i \in 0..d : Total(f, i) \in Int
          /\ \A i \in 1..d : Total(f, i) = Total(f, i - 1) + f[i - 1]
      BY <2>1, <2>2, TotalSteps
    <2>4. QED
      BY <2>3 DEF d
  <1>3. Total(e, 0) = 0 /\ \A i \in 0..n : Total(e, i) \in Int
    BY <1>1, TotalSteps
  <1>4. 0 \in H
    <2>1. n + 0 = n /\ n \in 0..(2 * n) /\ 0 \in 0..n
      OBVIOUS
    <2>2. QED
      BY <1>2, <1>3, <2>1
  <1>5. ASSUME NEW i \in 1..n, i - 1 \in H PROVE i \in H
    <2>1. /\ i \in 1..(2 * n) /\ n + i \in 1..(2 * n) /\ n + (i - 1) = (n + i) - 1 /\ i \in 0..n
          /\ i - 1 \in 0..(n - 1) /\ n + i \in 0..(2 * n) /\ i \in 0..(2 * n) /\ n \in 0..(2 * n)
          /\ i - 1 \in 0..(2 * n) /\ (n + i) - 1 \in 0..(2 * n) /\ (n + i) - 1 = n + (i - 1)
          /\ i - 1 \in 0..((2 * n) - 1) /\ n + (i - 1) \in 0..((2 * n) - 1) /\ i - 1 \in 0..n
      OBVIOUS
    <2>2. Total(e, i) = Total(e, i - 1) + e[i - 1]
      BY <1>1, TotalSteps
    <2>3. Total(e, i - 1) = (Total(f, i - 1) + Total(f, n + (i - 1))) - Total(f, n)
      BY <1>5
    <2>4. Total(f, i) = Total(f, i - 1) + f[i - 1] /\ Total(f, n + i) = Total(f, n + (i - 1)) + f[n + (i - 1)]
      BY <1>2, <2>1
    <2>5. e[i - 1] = f[i - 1] + f[n + (i - 1)]
      BY <1>1, <2>1
    <2>6. /\ Total(f, i - 1) \in Int /\ Total(f, n + (i - 1)) \in Int /\ Total(f, n) \in Int
          /\ f[i - 1] \in Int /\ f[n + (i - 1)] \in Int
      BY <1>2, <2>1
    <2>7. Total(e, i) = (Total(f, i) + Total(f, n + i)) - Total(f, n)
      BY <2>2, <2>3, <2>4, <2>5, <2>6
    <2>8. QED
      BY <2>1, <2>7
  <1> HIDE DEF H
  <1>6. \A i \in 0..n : i \in H
    BY <1>4, <1>5, Induction
  <1>7. Total(e, n) = Total(f, 2 * n)
    <2>1. n \in 0..n /\ n + n = 2 * n /\ n \in 0..(2 * n) /\ 2 * n \in 0..(2 * n)
      OBVIOUS
    <2>2. Total(e, n) = (Total(f, n) + Total(f, 2 * n)) - Total(f, n)
      BY <1>6, <2>1 DEF H
    <2>3. Total(f, n) \in Int /\ Total(f, 2 * n) \in Int
      BY <1>2, <2>1
    <2>4. QED
      BY <2>2, <2>3
  <1>8. \A i \in 0..(n - 1) : Congruent(e[i], c * h[i], q)
    BY <1>1
  <1>9. \A i \in 0..(n - 1) : e[i] \in Int
    BY <1>1
  <1>10. Congruent(Total(e, n), c * Total(h, n), q)
    BY <1>8, <1>9, TotalTimes, Zenon
  <1>11. QED
    BY <1>7, <1>10

-----------------------------------------------------------------------------
(* Bit reversal *)

\* Powers of two double up to 2^n.
PowersDouble(n) == \A k \in 0..n : 2^k \in Nat \ {0} /\ (k > 0 => 2^k = 2 * 2^(k - 1))

\* The numbers made of the lowest bits of x in reverse order.
BitsReversed(x, n) ==
    LET rev[b \in 0..n] == IF b = 0 THEN 0 ELSE 2 * rev[b-1] + ((x \div 2^(b-1)) % 2) IN rev

\* A power of two is twice the one before.
LEMMA HalfPower ==
    ASSUME NEW n \in Nat, PowersDouble(n), NEW k \in 1..n
    PROVE  /\ 2^k \in Nat \ {0} /\ 2^(k - 1) \in Nat \ {0} /\ 2^k = 2 * 2^(k - 1)
           /\ k - 1 \in 0..n /\ k \in 0..n
  <1>1. k \in 0..n /\ k - 1 \in 0..n /\ k > 0
    OBVIOUS
  <1>2. QED
    BY <1>1 DEF PowersDouble

\* Reversed follows its recursion, and its values are numbers of n bits.
LEMMA BitsReversedIs ==
    ASSUME NEW n \in Nat, PowersDouble(n), NEW x \in Nat
    PROVE  /\ BitReverse64(x, n) = BitsReversed(x, n)[n]
           /\ BitsReversed(x, n)[0] = 0
           /\ \A b \in 1..n : BitsReversed(x, n)[b] = 2 * BitsReversed(x, n)[b-1] + ((x \div 2^(b-1)) % 2)
           /\ \A b \in 0..n : BitsReversed(x, n)[b] \in Nat
  <1> DEFINE S == Nat
             next(k, s) == 2 * s + ((x \div 2^(k-1)) % 2)
             rev[b \in 0..n] == IF b = 0 THEN 0 ELSE 2 * rev[b-1] + ((x \div 2^(b-1)) % 2)
  <1>1. BitsReversed(x, n) = rev /\ BitReverse64(x, n) = rev[n]
    BY DEF BitReverse64, BitsReversed
  <1>2. n \in Nat /\ 0 \in S
    OBVIOUS
  <1>3. \A k \in 1..n, s \in S : next(k, s) \in S
    <2>1. SUFFICES ASSUME NEW k \in 1..n, NEW s \in S PROVE next(k, s) \in S
      OBVIOUS
    <2> DEFINE p == 2^(k-1)
    <2>2. p \in Nat \ {0}
      BY HalfPower
    <2> HIDE DEF p
    <2>3. x \div p \in Nat
      BY <2>2, DivNat
    <2>4. (x \div p) % 2 \in Nat
      BY <2>3
    <2>5. QED
      BY <2>4 DEF p
  <1>4. rev = [k \in 0..n |-> IF k = 0 THEN 0 ELSE next(k, rev[k-1])]
    <2> DEFINE g == [k \in 1..n |-> [s \in S |-> next(k, s)]]
    <2>1. g \in [1..n -> [S -> S]]
      BY <1>2, <1>3
    <2> HIDE DEF g, S, rev
    <2>2. PICK f \in [0..n -> S] : Follows(f, n, 0, g)
      BY <1>2, <1>3, <2>1, Recursion, Zenon
    <2>3. ASSUME NEW k \in 1..n PROVE f[k] = next(k, f[k - 1])
      <3>1. k - 1 \in 0..n
        BY <1>2, <1>3
      <3>2. f[k - 1] \in S /\ f[k] = g[k][f[k - 1]]
        BY <2>2, <3>1 DEF Follows
      <3>3. \A s \in S : g[k][s] = next(k, s)
        BY Zenon DEF g
      <3>4. QED
        BY <3>2, <3>3, Zenon
    <2>4. f = [k \in 0..n |-> IF k = 0 THEN 0 ELSE next(k, f[k-1])]
      <3>1. \A k \in 0..n : k # 0 => k \in 1..n
        BY <1>2, <1>3
      <3>2. f[0] = 0 /\ f = [k \in 0..n |-> f[k]]
        BY <2>2 DEF Follows
      <3> HIDE DEF next
      <3>3. \A k \in 0..n : f[k] = IF k = 0 THEN 0 ELSE next(k, f[k-1])
        BY <2>3, <3>1, <3>2
      <3>4. QED
        BY <3>2, <3>3, Zenon
    <2>5. QED
      BY <2>4 DEF rev
  <1> HIDE DEF rev
  <1>5. \A k \in 0..n : rev[k] \in S
    <2>1. 0 \in 0..n /\ rev[0] \in S
      BY <1>2, <1>4
    <2>2. ASSUME NEW k \in 1..n, rev[k-1] \in S PROVE rev[k] \in S
      <3>1. k \in 0..n /\ k # 0
        BY <1>2
      <3> HIDE DEF next
      <3>2. rev[k] = next(k, rev[k-1])
        BY <1>4, <3>1
      <3>3. QED
        BY <1>3, <2>2, <3>2
    <2> HIDE DEF S
    <2>3. QED
      BY <1>2, <2>1, <2>2, StaysIn
  <1>6. rev[0] = 0
    BY <1>2, <1>4
  <1>7. \A b \in 1..n : rev[b] = next(b, rev[b-1])
    <2>1. \A b \in 1..n : b \in 0..n /\ b # 0
      BY <1>2
    <2> HIDE DEF next
    <2>2. QED
      BY <1>4, <2>1
  <1>8. QED
    BY <1>1, <1>5, <1>6, <1>7

\* The lowest bit ends highest.
LEMMA LowestBitFirst ==
    ASSUME NEW n \in Nat, PowersDouble(n), NEW y \in Nat, NEW c \in {0, 1}
    PROVE  \A b \in 1..n : BitsReversed((2 * y) + c, n)[b] = (c * 2^(b - 1)) + BitsReversed(y, n)[b - 1]
  <1> DEFINE z == (2 * y) + c
             P(b) == BitsReversed(z, n)[b] = (c * 2^(b - 1)) + BitsReversed(y, n)[b - 1]
             H == {b \in 0..n : b > 0 => P(b)}
  <1>1. z \in Nat /\ n \in Nat /\ 0 \in H
    OBVIOUS
  <1>2. ASSUME NEW b \in 1..n, b - 1 \in H PROVE b \in H
    <2>1. BitsReversed(z, n)[b] = 2 * BitsReversed(z, n)[b-1] + ((z \div 2^(b-1)) % 2)
      <3> HIDE DEF z
      <3>1. QED
        BY <1>1, BitsReversedIs
    <2>2. CASE b = 1
      <3>1. 2^(b-1) = 1
        <4>1. 0 \in 0..W
          BY WAssumption
        <4>2. 2^0 = 1
          BY <4>1, WordPowers
        <4>3. QED
          BY <2>2, <4>2
      <3>2. BitsReversed(z, n)[0] = 0 /\ BitsReversed(y, n)[0] = 0
        <4> HIDE DEF z
        <4> QED
          BY <1>1, BitsReversedIs
      <3>3. z \div 1 = z /\ z % 2 = c /\ b - 1 = 0
        BY <1>1, <2>2
      <3>4. P(b)
        BY <2>1, <2>2, <3>1, <3>2, <3>3
      <3>5. QED
        BY <1>1, <3>4
    <2>3. CASE b # 1
      <3> DEFINE p == 2^(b - 2)
                 a == BitsReversed(y, n)[b - 2]
      <3>1. b - 1 \in 1..n /\ b - 2 \in 0..n /\ (b - 1) - 1 = b - 2
        BY <1>1, <2>3
      <3>2. p \in Nat \ {0} /\ 2^(b - 1) = 2 * p
        BY <3>1, HalfPower
      <3>3. a \in Nat /\ BitsReversed(y, n)[b - 1] = 2 * a + ((y \div p) % 2)
        BY <3>1, BitsReversedIs
      <3>4. BitsReversed(z, n)[b - 1] = (c * p) + a
        BY <1>2, <3>1
      <3>5. z \div (2 * p) = y \div p
        <4> DEFINE d == y \div p
                   e == y % p
                   w == 2 * p
                   s == (2 * e) + c
        <4> HIDE DEF p
        <4>0. y \in Int /\ p \in Nat \ {0}
          BY <3>2
        <4>1. d \in Int /\ e \in 0..(p - 1) /\ y = (p * d) + e
          BY <4>0, DivMod, Zenon
        <4> HIDE DEF d, e
        <4>2. z = ((2 * p) * d) + ((2 * e) + c) /\ (2 * e) + c \in 0..((2 * p) - 1) /\ 2 * p \in Nat \ {0}
          BY <3>2, <4>1
        <4>3. z = (w * d) + s /\ s \in 0..(w - 1) /\ w \in Nat \ {0}
          BY <4>2
        <4> HIDE DEF w, s, z
        <4>4. ((w * d) + s) \div w = d
          BY <4>1, <4>3, DivModUnique, Zenon
        <4>5. z \div w = d
          BY <4>3, <4>4
        <4>6. QED
          BY <4>5 DEF w, d
      <3>6. (y \div p) % 2 \in Int
        <4> HIDE DEF p
        <4>1. y \div p \in Int
          BY <3>2
        <4>2. QED
          BY <4>1
      <3>7. P(b)
        <4> DEFINE t == (y \div p) % 2
        <4>1. t \in Int
          BY <3>6
        <4>2. BitsReversed(z, n)[b] = 2 * BitsReversed(z, n)[b-1] + t
          BY <2>1, <3>2, <3>5
        <4>3. BitsReversed(y, n)[b - 1] = 2 * a + t
          BY <3>3
        <4> HIDE DEF t, p, a, z
        <4>4. 2 * ((c * p) + a) + t = (c * (2 * p)) + (2 * a + t)
          BY <3>2, <3>3, <4>1
        <4>5. QED
          BY <3>2, <3>4, <4>2, <4>3, <4>4
      <3>8. QED
        BY <1>1, <3>7
    <2>4. QED
      BY <2>2, <2>3
  <1> HIDE DEF H, P
  <1>3. \A b \in 0..n : b \in H
    BY <1>1, <1>2, Induction
  <1>4. \A b \in 1..n : b \in 0..n /\ b > 0
    BY <1>1
  <1>5. \A b \in 1..n : P(b)
    BY <1>3, <1>4 DEF H
  <1>6. QED
    BY <1>5 DEF P

\* Every power of two divides the larger ones.
LEMMA PowerDivides ==
    ASSUME NEW n \in Nat, PowersDouble(n), NEW b \in 0..n
    PROVE  \E e \in Nat : 2^n = e * 2^b
  <1> DEFINE H == {a \in 0..n : \E e \in Nat : 2^n = e * 2^(n - a)}
  <1>1. 0 \in H
    <2>1. n - 0 = n /\ 0 \in 0..n /\ n \in 0..n
      OBVIOUS
    <2>2. 2^n \in Nat
      BY <2>1 DEF PowersDouble
    <2>3. 2^n = 1 * 2^(n - 0) /\ 1 \in Nat
      BY <2>1, <2>2
    <2>4. QED
      BY <2>1, <2>3
  <1>2. ASSUME NEW a \in 1..n, a - 1 \in H PROVE a \in H
    <2>1. PICK e \in Nat : 2^n = e * 2^(n - (a - 1))
      BY <1>2
    <2>2. n - (a - 1) \in 1..n /\ (n - (a - 1)) - 1 = n - a /\ a \in 0..n
      OBVIOUS
    <2> DEFINE p == 2^(n - a)
    <2>3. 2^(n - (a - 1)) = 2 * p /\ p \in Nat
      BY <2>2, HalfPower
    <2> HIDE DEF p
    <2>4. e * (2 * p) = (2 * e) * p /\ 2 * e \in Nat
      BY <2>3
    <2>5. 2^n = (2 * e) * p
      BY <2>1, <2>3, <2>4
    <2>6. \E f \in Nat : 2^n = f * 2^(n - a)
      BY <2>4, <2>5 DEF p
    <2>7. QED
      BY <2>2, <2>6
  <1> HIDE DEF H
  <1>3. \A a \in 0..n : a \in H
    BY <1>1, <1>2, Induction
  <1>4. n - b \in 0..n /\ n - (n - b) = b
    OBVIOUS
  <1>5. QED
    BY <1>3, <1>4 DEF H

\* Shifting a number of n - 1 bits up makes its reversal half as large, and
\* the bit shifted in the highest.
LEMMA TwiceReversed ==
    ASSUME NEW n \in Nat \ {0}, PowersDouble(n), NEW y \in 0..(2^(n - 1) - 1), NEW c \in {0, 1}
    PROVE  /\ BitReverse64(y, n) \in Nat /\ BitReverse64((2 * y) + c, n) \in Nat
           /\ 2 * BitReverse64((2 * y) + c, n) = BitReverse64(y, n) + (c * 2^n)
  <1> DEFINE h == 2^(n - 1)
             z == (2 * y) + c
  <1>1. n \in Nat /\ n \in 1..n /\ n \in 0..n
    OBVIOUS
  <1>2. h \in Nat \ {0} /\ 2^n = 2 * h /\ n - 1 \in 0..n
    BY <1>1, HalfPower
  <1> HIDE DEF h
  <1>3. y \in Nat /\ y < h /\ z \in Nat
    BY <1>2 DEF h
  <1>4. /\ BitReverse64(y, n) = BitsReversed(y, n)[n]
        /\ BitsReversed(y, n)[n] = 2 * BitsReversed(y, n)[n-1] + ((y \div h) % 2)
        /\ BitsReversed(y, n)[n-1] \in Nat
    BY <1>1, <1>2, <1>3, BitsReversedIs DEF h
  <1>5. y \div h = 0 /\ 0 % 2 = 0
    BY <1>2, <1>3
  <1>6. BitsReversed(z, n)[n] = (c * h) + BitsReversed(y, n)[n-1]
    BY <1>1, <1>3, LowestBitFirst DEF h
  <1> HIDE DEF z
  <1>7. BitReverse64(z, n) = BitsReversed(z, n)[n]
    BY <1>1, <1>3, BitsReversedIs
  <1> DEFINE a == BitsReversed(y, n)[n-1]
  <1>8. a \in Nat /\ BitReverse64(y, n) = 2 * a /\ BitReverse64(z, n) = (c * h) + a
    BY <1>4, <1>5, <1>6, <1>7
  <1> HIDE DEF a
  <1>9. 2 * ((c * h) + a) = (2 * a) + (c * (2 * h)) /\ 2 * a \in Nat /\ (c * h) + a \in Nat
    BY <1>2, <1>8
  <1>10. QED
    BY <1>2, <1>8, <1>9 DEF z

\* The highest bit ends lowest.
LEMMA HighestBitLast ==
    ASSUME NEW n \in Nat \ {0}, PowersDouble(n), NEW y \in 0..(2^(n - 1) - 1)
    PROVE  BitReverse64(2^(n - 1) + y, n) = BitReverse64(y, n) + 1
  <1> DEFINE h == 2^(n - 1)
             z == h + y
             r == n - 1
             H == {b \in 0..r : BitsReversed(z, n)[b] = BitsReversed(y, n)[b]}
  <1>1. n \in Nat /\ n \in 1..n /\ r \in Nat /\ r \in 0..n /\ \A b \in 0..r : b \in 0..n
    OBVIOUS
  <1>2. h \in Nat \ {0}
    BY <1>1, HalfPower
  <1> HIDE DEF h
  <1>3. y \in Nat /\ y < h /\ z \in Nat
    BY <1>2 DEF h
  <1> HIDE DEF z
  <1>4. /\ BitsReversed(y, n)[0] = 0 /\ BitsReversed(z, n)[0] = 0
        /\ BitReverse64(y, n) = BitsReversed(y, n)[n] /\ BitReverse64(z, n) = BitsReversed(z, n)[n]
        /\ \A b \in 1..n : BitsReversed(y, n)[b] = 2 * BitsReversed(y, n)[b-1] + ((y \div 2^(b-1)) % 2)
        /\ \A b \in 1..n : BitsReversed(z, n)[b] = 2 * BitsReversed(z, n)[b-1] + ((z \div 2^(b-1)) % 2)
        /\ BitsReversed(y, n)[r] \in Nat
    BY <1>1, <1>3, BitsReversedIs
  <1>5. 0 \in H
    BY <1>1, <1>4
  <1>6. ASSUME NEW b \in 1..r, b - 1 \in H PROVE b \in H
    <2>1. b \in 1..n /\ b \in 0..r
      BY <1>1
    <2>2. PowersDouble(r)
      BY <1>1 DEF PowersDouble
    <2>3. PICK e \in Nat : 2^r = e * 2^b
      BY <1>1, <2>1, <2>2, PowerDivides
    <2> DEFINE p == 2^(b-1)
    <2>4. p \in Nat \ {0} /\ 2^b = 2 * p
      BY <1>1, <2>1, HalfPower
    <2> HIDE DEF p
    <2>5. h = p * (2 * e)
      <3>1. h = e * (2 * p)
        BY <2>3, <2>4 DEF h
      <3>2. QED
        BY <2>4, <3>1
    <2> DEFINE d == y \div p
               s == y % p
               f == (2 * e) + d
    <2>6. d \in Int /\ s \in 0..(p - 1) /\ y = (p * d) + s
      <3>1. y \in Int /\ p \in Nat \ {0}
        BY <1>3, <2>4
      <3>2. QED
        BY <3>1, DivMod, Zenon
    <2> HIDE DEF d, s
    <2>7. z = (p * f) + s /\ f \in Int
      <3>1. p * ((2 * e) + d) = (p * (2 * e)) + (p * d)
        BY <2>4, <2>6
      <3>2. p * f = h + (p * d)
        BY <2>5, <3>1
      <3>3. f \in Int /\ p * d \in Int
        BY <2>4, <2>6
      <3> HIDE DEF f
      <3>4. QED
        BY <1>2, <2>6, <3>2, <3>3 DEF z
    <2> HIDE DEF f
    <2>8. z \div p = f
      BY <2>4, <2>6, <2>7, DivModUnique
    <2>9. f % 2 = d % 2
      BY <2>6 DEF f
    <2>10. (z \div p) % 2 = (y \div p) % 2
      BY <2>8, <2>9 DEF d
    <2>11. QED
      BY <1>4, <1>6, <2>1, <2>10 DEF p
  <1> HIDE DEF H
  <1>7. \A b \in 0..r : b \in H
    BY <1>1, <1>5, <1>6, Induction
  <1>8. BitsReversed(z, n)[r] = BitsReversed(y, n)[r]
    BY <1>1, <1>7 DEF H
  <1>9. (z \div h) % 2 = 1 /\ (y \div h) % 2 = 0
    <2>1. z = (h * 1) + y /\ y = (h * 0) + y /\ y \in 0..(h - 1)
      BY <1>2, <1>3 DEF z
    <2>2. z \div h = 1 /\ y \div h = 0
      BY <1>2, <2>1, DivModUnique
    <2>3. QED
      BY <2>2
  <1>10. /\ BitsReversed(y, n)[n] = 2 * BitsReversed(y, n)[r] + ((y \div h) % 2)
         /\ BitsReversed(z, n)[n] = 2 * BitsReversed(z, n)[r] + ((z \div h) % 2)
    BY <1>1, <1>4 DEF h
  <1> HIDE DEF r
  <1>11. BitsReversed(z, n)[n] = BitsReversed(y, n)[n] + 1
    BY <1>4, <1>8, <1>9, <1>10
  <1>12. QED
    BY <1>4, <1>11 DEF z, h

\* A reversal of n bits has n bits.
LEMMA ReversedBelow ==
    ASSUME NEW n \in Nat, PowersDouble(n), 2^0 = 1, NEW x \in Nat
    PROVE  BitReverse64(x, n) \in 0..(2^n - 1)
  <1> DEFINE H == {b \in 0..n : BitsReversed(x, n)[b] < 2^b}
  <1>1. /\ BitReverse64(x, n) = BitsReversed(x, n)[n]
        /\ BitsReversed(x, n)[0] = 0
        /\ \A b \in 1..n : BitsReversed(x, n)[b] = 2 * BitsReversed(x, n)[b-1] + ((x \div 2^(b-1)) % 2)
        /\ \A b \in 0..n : BitsReversed(x, n)[b] \in Nat
    BY BitsReversedIs
  <1>2. 0 \in H
    BY <1>1
  <1>3. ASSUME NEW b \in 1..n, b - 1 \in H PROVE b \in H
    <2> DEFINE p == 2^(b-1)
               c == (x \div p) % 2
               a == BitsReversed(x, n)[b-1]
    <2>1. b \in 0..n /\ b - 1 \in 0..n
      OBVIOUS
    <2>2. p \in Nat \ {0} /\ 2^b = 2 * p
      BY HalfPower
    <2>3. a < p /\ a \in Nat /\ BitsReversed(x, n)[b] = 2 * a + c
      BY <1>1, <1>3, <2>1
    <2> HIDE DEF p
    <2>4. c \in {0, 1}
      <3>1. x \div p \in Int
        BY <2>2
      <3>2. QED
        BY <3>1
    <2> HIDE DEF a, c
    <2>5. BitsReversed(x, n)[b] < 2^b
      BY <2>2, <2>3, <2>4
    <2>6. QED
      BY <2>1, <2>5
  <1> HIDE DEF H
  <1>4. \A b \in 0..n : b \in H
    BY <1>2, <1>3, Induction
  <1>5. n \in 0..n
    OBVIOUS
  <1>6. BitsReversed(x, n)[n] < 2^n /\ 2^n \in Nat /\ BitsReversed(x, n)[n] \in Nat
    BY <1>1, <1>4, <1>5 DEF H, PowersDouble
  <1>7. QED
    BY <1>1, <1>6
=============================================================================
