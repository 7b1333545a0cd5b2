------------------------------ MODULE RnsProofs ------------------------------
(* What the rows of module Rns are bounded by: the sums of an extension, the   *)
(* residues a division and a reduction leave, and one lemma for each action.   *)
(* Then what they stand for: Chinese remainders, what each step does to the    *)
(* integer behind the rows, and that each is a step of module Scaling.         *)
EXTENDS Rns, WordsProofs, SequenceTheorems

-----------------------------------------------------------------------------
(* Sequences, sums and products *)

\* A function on 1..n is a sequence.
LEMMA IsASequence ==
    ASSUME NEW n \in Nat, NEW S, NEW f \in [1..n -> S]
    PROVE  f \in Seq(S) /\ Len(f) = n /\ DOMAIN f = 1..n
  OBVIOUS

\* A sum is the last of the partial sums.
LEMMA SumFollows ==
    ASSUME NEW x, Len(x) \in Nat, NEW D, 0 \in D, \A k \in 1..Len(x), t \in D : (x[k] + t) \in D
    PROVE  \E f : /\ Sum(x) = f[Len(x)] /\ f[0] = 0 /\ \A k \in 0..Len(x) : f[k] \in D
                 /\ \A k \in 1..Len(x) : f[k] = x[k] + f[k - 1]
  <1> DEFINE n == Len(x)
             S == D
             next(k, t) == x[k] + t
             upto[k \in 0..Len(x)] == IF k = 0 THEN 0 ELSE x[k] + upto[k-1]
  <1>1. Sum(x) = upto[n]
    BY DEF Sum
  <1>2. n \in Nat /\ 0 \in S
    OBVIOUS
  <1>3. \A k \in 1..n, t \in S : next(k, t) \in S
    OBVIOUS
  <1>4. upto = [k \in 0..n |-> IF k = 0 THEN 0 ELSE next(k, upto[k-1])]
    <2> DEFINE g == [k \in 1..n |-> [s \in S |-> next(k, s)]]
    <2>1. g \in [1..n -> [S -> S]]
      BY <1>2, <1>3
    <2> HIDE DEF g, S, n, upto
    <2>2. PICK f \in [0..n -> S] : Follows(f, n, 0, g)
      BY <1>2, <1>3, <2>1, Recursion, Zenon
    <2>3. ASSUME NEW k \in 1..n PROVE f[k] = next(k, f[k - 1])
      <3>1. k - 1 \in 0..n
        BY <1>2, <1>3
      <3>2. f[k - 1] \in S /\ f[k] = g[k][f[k - 1]]
        BY <2>2, <3>1 DEF Follows
      <3>3. \A s \in S : g[k][s] = next(k, s)
        BY Zenon DEF g
      <3>4. QED
        BY <3>2, <3>3, Zenon
    <2>4. f = [k \in 0..n |-> IF k = 0 THEN 0 ELSE next(k, f[k-1])]
      <3>1. \A k \in 0..n : k # 0 => k \in 1..n
        BY <1>2, <1>3
      <3>2. f[0] = 0 /\ f = [k \in 0..n |-> f[k]]
        BY <2>2 DEF Follows
      <3> HIDE DEF next
      <3>3. \A k \in 0..n : f[k] = IF k = 0 THEN 0 ELSE next(k, f[k-1])
        BY <2>3, <3>1, <3>2
      <3>4. QED
        BY <3>2, <3>3, Zenon
    <2>5. QED
      BY <2>4 DEF upto, n
  <1> HIDE DEF upto
  <1>5. \A k \in 0..n : upto[k] \in S
    <2>1. 0 \in 0..n /\ upto[0] \in S
      BY <1>2, <1>4
    <2>2. ASSUME NEW k \in 1..n, upto[k-1] \in S PROVE upto[k] \in S
      <3>1. k \in 0..n /\ k # 0
        BY <1>2
      <3> HIDE DEF next
      <3>2. upto[k] = next(k, upto[k-1])
        BY <1>4, <3>1
      <3>3. QED
        BY <1>3, <2>2, <3>2
    <2> HIDE DEF S, n
    <2>3. QED
      BY <1>2, <2>1, <2>2, StaysIn
  <1>6. \A k \in 1..n : upto[k] = next(k, upto[k-1])
    <2>1. \A k \in 1..n : k \in 0..n /\ k # 0
      BY <1>2
    <2> HIDE DEF n, next
    <2>2. QED
      BY <1>4, <2>1
  <1>7. upto[0] = 0
    <2>1. 0 \in 0..n
      BY <1>2
    <2> HIDE DEF n, next
    <2>2. QED
      BY <1>4, <2>1
  <1>8. QED
    BY <1>1, <1>5, <1>6, <1>7

\* A product is the last of the partial products.
LEMMA ProductFollows ==
    ASSUME NEW x, Len(x) \in Nat, NEW D, 1 \in D, \A k \in 1..Len(x), t \in D : (x[k] * t) \in D
    PROVE  \E f : /\ Product(x) = f[Len(x)] /\ f[0] = 1 /\ \A k \in 0..Len(x) : f[k] \in D
                 /\ \A k \in 1..Len(x) : f[k] = x[k] * f[k - 1]
  <1> DEFINE n == Len(x)
             S == D
             next(k, t) == x[k] * t
             upto[k \in 0..Len(x)] == IF k = 0 THEN 1 ELSE x[k] * upto[k-1]
  <1>1. Product(x) = upto[n]
    BY DEF Product
  <1>2. n \in Nat /\ 1 \in S
    OBVIOUS
  <1>3. \A k \in 1..n, t \in S : next(k, t) \in S
    OBVIOUS
  <1>4. upto = [k \in 0..n |-> IF k = 0 THEN 1 ELSE next(k, upto[k-1])]
    <2> DEFINE g == [k \in 1..n |-> [s \in S |-> next(k, s)]]
    <2>1. g \in [1..n -> [S -> S]]
      BY <1>2, <1>3
    <2> HIDE DEF g, S, n, upto
    <2>2. PICK f \in [0..n -> S] : Follows(f, n, 1, g)
      BY <1>2, <1>3, <2>1, Recursion, Zenon
    <2>3. ASSUME NEW k \in 1..n PROVE f[k] = next(k, f[k - 1])
      <3>1. k - 1 \in 0..n
        BY <1>2, <1>3
      <3>2. f[k - 1] \in S /\ f[k] = g[k][f[k - 1]]
        BY <2>2, <3>1 DEF Follows
      <3>3. \A s \in S : g[k][s] = next(k, s)
        BY Zenon DEF g
      <3>4. QED
        BY <3>2, <3>3, Zenon
    <2>4. f = [k \in 0..n |-> IF k = 0 THEN 1 ELSE next(k, f[k-1])]
      <3>1. \A k \in 0..n : k # 0 => k \in 1..n
        BY <1>2, <1>3
      <3>2. f[0] = 1 /\ f = [k \in 0..n |-> f[k]]
        BY <2>2 DEF Follows
      <3> HIDE DEF next
      <3>3. \A k \in 0..n : f[k] = IF k = 0 THEN 1 ELSE next(k, f[k-1])
        BY <2>3, <3>1, <3>2
      <3>4. QED
        BY <3>2, <3>3, Zenon
    <2>5. QED
      BY <2>4 DEF upto, n
  <1> HIDE DEF upto
  <1>5. \A k \in 0..n : upto[k] \in S
    <2>1. 0 \in 0..n /\ upto[0] \in S
      BY <1>2, <1>4
    <2>2. ASSUME NEW k \in 1..n, upto[k-1] \in S PROVE upto[k] \in S
      <3>1. k \in 0..n /\ k # 0
        BY <1>2
      <3> HIDE DEF next
      <3>2. upto[k] = next(k, upto[k-1])
        BY <1>4, <3>1
      <3>3. QED
        BY <1>3, <2>2, <3>2
    <2> HIDE DEF S, n
    <2>3. QED
      BY <1>2, <2>1, <2>2, StaysIn
  <1>6. \A k \in 1..n : upto[k] = next(k, upto[k-1])
    <2>1. \A k \in 1..n : k \in 0..n /\ k # 0
      BY <1>2
    <2> HIDE DEF n, next
    <2>2. QED
      BY <1>4, <2>1
  <1>7. upto[0] = 1
    <2>1. 0 \in 0..n
      BY <1>2
    <2> HIDE DEF n, next
    <2>2. QED
      BY <1>4, <2>1
  <1>8. QED
    BY <1>1, <1>5, <1>6, <1>7

\* A sum of integers is an integer.
LEMMA SumIsInt ==
    ASSUME NEW x, Len(x) \in Nat, \A k \in 1..Len(x) : x[k] \in Int
    PROVE  Sum(x) \in Int
  <1>1. 0 \in Int /\ \A k \in 1..Len(x), t \in Int : (x[k] + t) \in Int
    OBVIOUS
  <1>2. PICK f : Sum(x) = f[Len(x)] /\ \A k \in 0..Len(x) : f[k] \in Int
    BY <1>1, SumFollows, Zenon
  <1>3. QED
    BY <1>2

\* A sum of n numbers up to c is at most n * c.
LEMMA SumAtMost ==
    ASSUME NEW x, NEW n \in Nat, Len(x) = n, NEW c \in Nat, \A k \in 1..n : x[k] \in 0..c
    PROVE  Sum(x) \in 0..(n * c)
  <1>1. Len(x) \in Nat /\ 0 \in Int /\ \A k \in 1..Len(x), t \in Int : (x[k] + t) \in Int
    OBVIOUS
  <1>2. PICK f : /\ Sum(x) = f[Len(x)] /\ f[0] = 0 /\ \A k \in 0..Len(x) : f[k] \in Int
                 /\ \A k \in 1..Len(x) : f[k] = x[k] + f[k - 1]
    BY <1>1, SumFollows, Zenon
  <1> DEFINE H == {k \in 0..n : f[k] \in 0..(k * c)}
  <1>3. 0 \in H
    BY <1>2
  <1>4. ASSUME NEW k \in 1..n, k - 1 \in H PROVE k \in H
    <2> DEFINE d == (k - 1) * c
    <2>1. k \in 0..n /\ d \in Nat /\ f[k - 1] \in 0..d /\ x[k] \in 0..c /\ f[k] = x[k] + f[k - 1]
      BY <1>2, <1>4
    <2>2. k * c = d + c
      BY <2>1
    <2> HIDE DEF d
    <2>3. f[k] \in 0..(d + c)
      BY <2>1
    <2>4. QED
      BY <2>1, <2>2, <2>3
  <1> HIDE DEF H
  <1>5. \A k \in 0..n : k \in H
    BY <1>3, <1>4, Induction
  <1>6. n \in 0..n
    OBVIOUS
  <1>7. QED
    BY <1>2, <1>5, <1>6 DEF H

\* A product of positive numbers is positive.
LEMMA ProductIsPositive ==
    ASSUME NEW x, Len(x) \in Nat, \A k \in 1..Len(x) : x[k] \in Nat \ {0}
    PROVE  Product(x) \in Nat \ {0}
  <1> DEFINE D == Nat \ {0}
  <1>1. 1 \in D /\ \A k \in 1..Len(x), t \in D : (x[k] * t) \in D
    <2>1. ASSUME NEW k \in 1..Len(x), NEW t \in D PROVE (x[k] * t) \in D
      <3>1. x[k] \in Nat \ {0} /\ t \in Nat \ {0}
        OBVIOUS
      <3>2. x[k] * t >= t
        BY <3>1
      <3>3. QED
        BY <3>1, <3>2
    <2>2. QED
      BY <2>1
  <1> HIDE DEF D
  <1>2. PICK f : Product(x) = f[Len(x)] /\ \A k \in 0..Len(x) : f[k] \in D
    BY <1>1, ProductFollows, Zenon
  <1>3. QED
    BY <1>2 DEF D

\* A product of numbers above two is above two.
LEMMA ProductIsLarge ==
    ASSUME NEW x, NEW n \in Nat \ {0}, Len(x) = n, \A k \in 1..n : x[k] \in Nat /\ x[k] > 2
    PROVE  Product(x) \in Nat /\ Product(x) > 2
  <1> DEFINE D == Nat \ {0}
  <1>1. 1 \in D /\ \A k \in 1..n, t \in D : (x[k] * t) \in D
    <2>1. ASSUME NEW k \in 1..n, NEW t \in D PROVE (x[k] * t) \in D
      <3> DEFINE u == x[k]
      <3>1. u \in Nat /\ u > 2 /\ t \in Nat \ {0}
        OBVIOUS
      <3> HIDE DEF u
      <3>2. u * t >= t
        BY <3>1
      <3>3. u * t \in D
        BY <3>1, <3>2
      <3>4. QED
        BY <3>3 DEF u
    <2>2. QED
      BY <2>1
  <1>2. n - 1 \in 0..n /\ n \in 1..n /\ Len(x) \in Nat
    OBVIOUS
  <1> HIDE DEF D
  <1>3. PICK f : /\ Product(x) = f[Len(x)] /\ f[0] = 1 /\ \A k \in 0..Len(x) : f[k] \in D
                 /\ \A k \in 1..Len(x) : f[k] = x[k] * f[k - 1]
    BY <1>1, <1>2, ProductFollows, Zenon
  <1> DEFINE u == x[n]
             t == f[n - 1]
  <1>4. Product(x) = u * t
    BY <1>2, <1>3
  <1>5. u \in Nat /\ u > 2 /\ t \in Nat \ {0}
    BY <1>2, <1>3 DEF D
  <1> HIDE DEF u, t
  <1>6. u * t >= u /\ u * t \in Nat
    BY <1>5
  <1>7. QED
    BY <1>4, <1>5, <1>6

\* A floating-point sum is never off by one or more.
LEMMA SlackBelow ==
    ASSUME NEW a \in Nat, a > 2
    PROVE  Slack(a) \in Nat /\ Slack(a) < a
  <1> DEFINE d == a \div Precision
             r == a % Precision
             e == Precision * d
  <1>1. Precision \in Nat /\ Precision > 1
    BY RnsAssumption
  <1>2. d \in Nat /\ r \in Nat /\ a = e + r /\ e \in Int
    BY <1>1
  <1> HIDE DEF r
  <1>3. e >= 2 * d
    BY <1>1, <1>2
  <1>4. Slack(a) = d + 1
    BY DEF Slack
  <1> HIDE DEF d, e
  <1>5. QED
    BY <1>2, <1>3, <1>4

-----------------------------------------------------------------------------
(* The moduli and the tables made of them *)

\* A modulus the word functions take, and its tables.
Sound(q) ==
    /\ q \in Nat \ {0} /\ 2 <= q /\ 8 * q < R
    /\ bredParams[q] = BRedParams(q)
    /\ mredParams[q] \in 0..(R - 1) /\ (q * mredParams[q]) % R = 1 % R

\* The moduli of both rings are sound, and so are odd plaintext moduli.
LEMMA ModuliAreSound ==
    ASSUME NEW q \in Moduli \cup {t \in T : Odd(t)}
    PROVE  Sound(q)
  <1>1. q \in Nat /\ q > 2 /\ getFactors(q) = {q} /\ 8 * q < R /\ q \in Moduli \cup T
    <2>1. \A i \in DOMAIN Q : Q[i] \in Nat
      BY RnsAssumption
    <2>2. \A j \in DOMAIN P : P[j] \in Nat
      BY RnsAssumption
    <2>3. q \in Nat
      BY <2>1, <2>2, RnsAssumption DEF Moduli
    <2>4. QED
      BY <2>3, RnsAssumption
  <1>2. q % 2 = 1
    <2>1. q \in getFactors(q)
      BY <1>1
    <2>2. \A d \in 2..(q - 1) : q % d # 0
      BY <2>1, Zenon DEF getFactors
    <2>3. 2 \in 2..(q - 1)
      BY <1>1
    <2>4. q % 2 # 0
      BY <2>2, <2>3
    <2>5. QED
      BY <1>1, <2>4
  <1>3. bredParams[q] = BRedParams(q) /\ mredParams[q] = MRedParams(q)
    BY <1>1 DEF bredParams, mredParams
  <1>4. q \in 1..(R - 1)
    BY <1>1, RAssumption
  <1>5. QED
    BY <1>1, <1>2, <1>3, <1>4, MontgomeryInverse DEF Sound

\* A number brought to the Montgomery domain is a residue.
LEMMA ToMontRange ==
    ASSUME NEW q, Sound(q), NEW x \in 0..(R - 1)
    PROVE  ToMont(x, q) \in 0..(q - 1)
  <1>1. q \in Nat \ {0} /\ 2 * q <= R /\ bredParams[q] = BRedParams(q)
    BY RAssumption DEF Sound
  <1>2. QED
    BY <1>1, ToMontgomery DEF ToMont

\* A product of a word and a residue is a residue, the modulus itself included.
LEMMA TimesRange ==
    ASSUME NEW q, Sound(q), NEW x \in 0..(R - 1), NEW y \in 0..q
    PROVE  MRed(x, y, q, mredParams[q]) \in 0..(q - 1)
  <1>1. q \in Nat \ {0} /\ 2 * q <= R /\ mredParams[q] \in Nat /\ x \in Nat /\ y \in Nat /\ R \in Nat \ {0}
    BY RAssumption DEF Sound
  <1>2. x * y < q * R
    <2>1. x * y <= x * q /\ x * q <= (R - 1) * q
      BY <1>1
    <2>2. (R - 1) * q = q * R - q
      BY <1>1
    <2> DEFINE a == x * y
               b == x * q
               c == q * R
    <2>3. a \in Int /\ b \in Int /\ c \in Int /\ a <= b /\ b <= c - q
      BY <1>1, <2>1, <2>2
    <2> HIDE DEF a, b, c
    <2>4. a < c
      BY <1>1, <2>3
    <2>5. QED
      BY <2>4 DEF a, c
  <1>3. QED
    BY <1>1, <1>2, MRedRange

\* What a division leaves in a row is below the modulus, whatever goes in.
LEMMA QuotientRange ==
    ASSUME NEW q, Sound(q), NEW y \in Int, NEW x \in Int, NEW inv \in 0..q
    PROVE  quotient(y, x, q, inv) \in 0..(q - 1)
  <1>1. q \in Nat
    BY DEF Sound
  <1>2. y + 2 * q - x \in Int /\ q - inv \in 0..q
    BY <1>1
  <1>3. Wrap(y + 2 * q - x) \in 0..(R - 1)
    BY <1>2, WrapRange
  <1>4. QED
    BY <1>2, <1>3, TimesRange DEF quotient

\* A sequence of moduli.
Basis(B) == B \in Seq(Nat) /\ Len(B) \in Nat /\ \A i \in 1..Len(B) : Sound(B[i])

\* A basis an extension starts from.
Source(A) ==
    /\ Basis(A) /\ \E n \in {Len(Q), Len(P)} : Len(A) <= n
    /\ \A i \in 1..Len(A) : A[i] \in Moduli
    /\ Product(A) \in Nat \ {0} /\ Slack(Product(A)) \in Nat /\ Slack(Product(A)) < Product(A)
    /\ \A i \in 1..Len(A) : ModInverse((Product(A) \div A[i]) % A[i], A[i]) \in 0..(A[i] - 1)

\* A basis of sound moduli has a positive product.
LEMMA BasisProduct ==
    ASSUME NEW B, Basis(B)
    PROVE  Product(B) \in Nat \ {0}
  <1>1. \A k \in 1..Len(B) : B[k] \in Nat \ {0}
    BY DEF Basis, Sound
  <1>2. QED
    BY <1>1, ProductIsPositive DEF Basis

\* The rings' moduli are bases.
LEMMA Rings ==
    /\ Basis(Q) /\ Basis(P) /\ Len(Q) > 1 /\ Len(P) > 0
    /\ DOMAIN Q = 1..Len(Q) /\ DOMAIN P = 1..Len(P)
    /\ \A i \in 1..Len(Q) : Q[i] \in Moduli
    /\ \A j \in 1..Len(P) : P[j] \in Moduli
  <1>1. /\ Q \in Seq(Nat) /\ P \in Seq(Nat) /\ Len(Q) \in Nat /\ Len(P) \in Nat
        /\ DOMAIN Q = 1..Len(Q) /\ DOMAIN P = 1..Len(P) /\ Len(Q) > 1 /\ Len(P) > 0
    BY RnsAssumption
  <1>2. (\A i \in 1..Len(Q) : Q[i] \in Moduli) /\ \A j \in 1..Len(P) : P[j] \in Moduli
    BY <1>1 DEF Moduli
  <1>3. QED
    BY <1>1, <1>2, ModuliAreSound DEF Basis

\* Consecutive moduli of Q are a basis.
LEMMA Pieces ==
    ASSUME NEW i \in 1..Len(Q), NEW j \in i..Len(Q)
    PROVE  /\ Basis(SubSeq(Q, i, j)) /\ Len(SubSeq(Q, i, j)) = (j - i) + 1
           /\ \A k \in 1..((j - i) + 1) :
                 SubSeq(Q, i, j)[k] = Q[(i + k) - 1] /\ SubSeq(Q, i, j)[k] \in Moduli
  <1>1. i \in Int /\ j \in Int /\ i <= j /\ \A k \in i..j : Q[k] \in Nat /\ k \in 1..Len(Q)
    BY Rings, RnsAssumption
  <1>2. /\ SubSeq(Q, i, j) \in Seq(Nat) /\ Len(SubSeq(Q, i, j)) = (j - i) + 1
        /\ \A k \in 1..((j - i) + 1) : SubSeq(Q, i, j)[k] = Q[(i + k) - 1]
    BY <1>1, SubSeqProperties
  <1>3. \A k \in 1..((j - i) + 1) : (i + k) - 1 \in 1..Len(Q)
    BY Rings
  <1>4. \A k \in 1..((j - i) + 1) : SubSeq(Q, i, j)[k] \in Moduli
    BY <1>2, <1>3, Rings
  <1> DEFINE B == SubSeq(Q, i, j)
             n == (j - i) + 1
  <1>5. B \in Seq(Nat) /\ Len(B) = n /\ n \in Nat /\ \A k \in 1..n : B[k] \in Moduli
    <2>1. n \in Nat
      BY <1>1
    <2>2. B \in Seq(Nat) /\ Len(B) = n
      BY <1>2
    <2>3. \A k \in 1..n : B[k] \in Moduli
      BY <1>4
    <2>4. QED
      BY <2>1, <2>2, <2>3
  <1>6. Basis(B)
    <2> HIDE DEF B, n
    <2>1. \A k \in 1..Len(B) : Sound(B[k])
      BY <1>5, ModuliAreSound
    <2>2. QED
      BY <1>5, <2>1 DEF Basis
  <1>7. QED
    BY <1>2, <1>4, <1>6

\* All of Q is one of them.
LEMMA WholeQ == SubSeq(Q, 1, Len(Q)) = Q /\ Q \in Sources
  <1>1. Q \in Seq(Nat) /\ Len(Q) \in Nat /\ Len(Q) > 1 /\ 1 \in DOMAIN Q
    BY Rings DEF Basis
  <1>2. SubSeq(Q, 1, Len(Q)) = Q
    BY <1>1
  <1>3. Len(Q) \in (1 + 1)..Len(Q)
    BY <1>1
  <1>4. QED
    BY <1>1, <1>2, <1>3 DEF Sources

\* An extension may start from P and from two or more consecutive moduli of Q.
LEMMA SourcesExtend ==
    ASSUME NEW A \in Sources
    PROVE  Source(A)
  <1>1. /\ Basis(A) /\ \E n \in {Len(Q), Len(P)} : Len(A) <= n
        /\ \A i \in 1..Len(A) : A[i] \in Moduli
    <2>1. CASE A = P
      BY <2>1, Rings DEF Basis
    <2>2. CASE A # P
      <3>1. PICK i \in DOMAIN Q : \E j \in (i + 1)..Len(Q) : A = SubSeq(Q, i, j)
        BY <2>2 DEF Sources
      <3>2. PICK j \in (i + 1)..Len(Q) : A = SubSeq(Q, i, j)
        BY <3>1
      <3>3. i \in 1..Len(Q) /\ j \in i..Len(Q) /\ Len(A) = (j - i) + 1
        <4>1. i \in 1..Len(Q) /\ j \in i..Len(Q)
          BY Rings
        <4>2. QED
          BY <3>2, <4>1, Pieces
      <3>4. Len(A) <= Len(Q)
        BY <3>3, Rings DEF Basis
      <3>5. QED
        BY <3>2, <3>3, <3>4, Pieces
    <2>3. QED
      BY <2>1, <2>2
  <1>2. /\ Product(A) \in Nat \ {0} /\ DOMAIN A = 1..Len(A)
        /\ Slack(Product(A)) \in Nat /\ Slack(Product(A)) < Product(A)
    <2>1. Len(A) \in Nat \ {0} /\ DOMAIN A = 1..Len(A)
      <3>1. CASE A = P
        BY <3>1, Rings DEF Basis
      <3>2. CASE A # P
        <4>1. PICK i \in DOMAIN Q : \E j \in (i + 1)..Len(Q) : A = SubSeq(Q, i, j)
          BY <3>2 DEF Sources
        <4>2. PICK j \in (i + 1)..Len(Q) : A = SubSeq(Q, i, j)
          BY <4>1
        <4>3. i \in 1..Len(Q) /\ j \in i..Len(Q) /\ (j - i) + 1 \in Nat \ {0}
          BY Rings DEF Basis
        <4>4. Len(A) = (j - i) + 1
          BY <4>2, <4>3, Pieces
        <4>5. QED
          BY <1>1, <4>3, <4>4 DEF Basis
      <3>3. QED
        BY <3>1, <3>2
    <2>2. \A k \in 1..Len(A) : A[k] \in Nat /\ A[k] > 2
      BY <1>1, RnsAssumption DEF Basis, Sound
    <2>3. Product(A) \in Nat /\ Product(A) > 2
      BY <2>1, <2>2, ProductIsLarge
    <2>4. QED
      BY <2>1, <2>3, SlackBelow
  <1>3. ASSUME NEW i \in 1..Len(A)
        PROVE  ModInverse((Product(A) \div A[i]) % A[i], A[i]) \in 0..(A[i] - 1)
    <2>1. \E y \in 0..(A[i] - 1) : (((Product(A) \div A[i]) % A[i]) * y) % A[i] = 1 % A[i]
      BY <1>2, Inverses
    <2>2. QED
      BY <2>1 DEF ModInverse
  <1>4. QED
    BY <1>1, <1>2, <1>3 DEF Source

\* The table of multiples of the product holds residues, one from the other.
LEMMA MultiplesRun ==
    ASSUME NEW A, Product(A) \in Nat, Len(A) \in Nat, NEW b \in Nat \ {0}
    PROVE  /\ \A v \in 0..Len(A) : Multiples(A, b)[v] \in 0..(b - 1)
           /\ Multiples(A, b)[0] = 0
           /\ \A v \in 1..Len(A) :
                 Multiples(A, b)[v] = CRed(Multiples(A, b)[v - 1] + (b - (Product(A) % b)), b)
  <1> DEFINE n == Len(A)
             S == 0..(b - 1)
             p == Product(A) % b
             next(k, t) == CRed(t + (b - p), b)
             upto[i \in 0..Len(A)] == IF i = 0 THEN 0 ELSE CRed(upto[i-1] + (b - (Product(A) % b)), b)
             tab[k \in 0..n] == IF k = 0 THEN 0 ELSE next(k, tab[k-1])
  <1>1. Multiples(A, b) = [v \in 0..n |-> tab[v]]
    BY DEF Multiples
  <1>2. n \in Nat /\ 0 \in S
    OBVIOUS
  <1>3. \A k \in 1..n, t \in S : next(k, t) \in S
    <2>1. p \in 0..(b - 1)
      OBVIOUS
    <2> HIDE DEF p
    <2>2. ASSUME NEW t \in S PROVE CRed(t + (b - p), b) \in S
      <3>1. t + (b - p) \in 0..((2 * b) - 1)
        BY <2>1
      <3>2. QED
        BY <3>1, CRedRange
    <2>3. QED
      BY <2>2
  <1>4. tab = [k \in 0..n |-> IF k = 0 THEN 0 ELSE next(k, tab[k-1])]
    <2> DEFINE g == [k \in 1..n |-> [s \in S |-> next(k, s)]]
    <2>1. g \in [1..n -> [S -> S]]
      BY <1>2, <1>3
    <2> HIDE DEF g, S, n, tab
    <2>2. PICK f \in [0..n -> S] : Follows(f, n, 0, g)
      BY <1>2, <1>3, <2>1, Recursion, Zenon
    <2>3. ASSUME NEW k \in 1..n PROVE f[k] = next(k, f[k - 1])
      <3>1. k - 1 \in 0..n
        BY <1>2, <1>3
      <3>2. f[k - 1] \in S /\ f[k] = g[k][f[k - 1]]
        BY <2>2, <3>1 DEF Follows
      <3>3. \A s \in S : g[k][s] = next(k, s)
        BY Zenon DEF g
      <3>4. QED
        BY <3>2, <3>3, Zenon
    <2>4. f = [k \in 0..n |-> IF k = 0 THEN 0 ELSE next(k, f[k-1])]
      <3>1. \A k \in 0..n : k # 0 => k \in 1..n
        BY <1>2, <1>3
      <3>2. f[0] = 0 /\ f = [k \in 0..n |-> f[k]]
        BY <2>2 DEF Follows
      <3> HIDE DEF next
      <3>3. \A k \in 0..n : f[k] = IF k = 0 THEN 0 ELSE next(k, f[k-1])
        BY <2>3, <3>1, <3>2
      <3>4. QED
        BY <3>2, <3>3, Zenon
    <2>5. QED
      BY <2>4 DEF tab, n
  <1> HIDE DEF tab
  <1>5. \A k \in 0..n : tab[k] \in S
    <2>1. 0 \in 0..n /\ tab[0] \in S
      BY <1>2, <1>4
    <2>2. ASSUME NEW k \in 1..n, tab[k-1] \in S PROVE tab[k] \in S
      <3>1. k \in 0..n /\ k # 0
        BY <1>2
      <3> HIDE DEF next
      <3>2. tab[k] = next(k, tab[k-1])
        BY <1>4, <3>1
      <3>3. QED
        BY <1>3, <2>2, <3>2
    <2> HIDE DEF S, n
    <2>3. QED
      BY <1>2, <2>1, <2>2, StaysIn
  <1>6. ASSUME NEW v \in 1..n
        PROVE  Multiples(A, b)[v] = CRed(Multiples(A, b)[v - 1] + (b - p), b)
    <2>1. v \in 0..n /\ v - 1 \in 0..n /\ v # 0
      BY <1>2
    <2>2. Multiples(A, b)[v] = tab[v] /\ Multiples(A, b)[v - 1] = tab[v - 1]
      BY <1>1, <2>1
    <2> HIDE DEF p
    <2>3. tab[v] = CRed(tab[v - 1] + (b - p), b)
      BY <1>4, <2>1
    <2>4. QED
      BY <2>2, <2>3
  <1>7. Multiples(A, b)[0] = 0
    <2>1. 0 \in 0..n
      BY <1>2
    <2>2. QED
      BY <1>1, <1>4, <2>1
  <1>8. QED
    BY <1>1, <1>5, <1>6, <1>7
LEMMA MultiplesRange ==
    ASSUME NEW A, Product(A) \in Nat, Len(A) \in Nat, NEW b \in Nat \ {0}
    PROVE  \A v \in 0..Len(A) : Multiples(A, b)[v] \in 0..(b - 1)
  BY MultiplesRun, Zenon

\* The digits of words are residues.
LEMMA DigitsRange ==
    ASSUME NEW A, Source(A), NEW B, NEW m \in 1..Len(A), NEW x \in [1..m -> 0..(R - 1)]
    PROVE  /\ digits(x, basisextenderparameters(A, B)) \in [1..m -> Nat]
           /\ \A i \in 1..m : digits(x, basisextenderparameters(A, B))[i] \in 0..(A[i] - 1)
  <1> DEFINE params == basisextenderparameters(A, B)
             a == Product(A)
  <1>1. /\ DOMAIN A = 1..Len(A) /\ Len(A) \in Nat /\ DOMAIN x = 1..m
        /\ params.from = A
        /\ params.qibMont = [i \in DOMAIN A |-> ToMont(ModInverse((a \div A[i]) % A[i], A[i]), A[i])]
    BY DEF basisextenderparameters, Source, Basis
  <1>2. ASSUME NEW i \in 1..m
        PROVE  MRed(x[i], params.qibMont[i], A[i], mredParams[A[i]]) \in 0..(A[i] - 1)
    <2>1. i \in 1..Len(A) /\ Sound(A[i]) /\ x[i] \in 0..(R - 1)
      BY <1>1 DEF Source, Basis
    <2>2. ModInverse((a \div A[i]) % A[i], A[i]) \in 0..(R - 1)
      <3> DEFINE z == ModInverse((a \div A[i]) % A[i], A[i])
      <3>1. z \in 0..(A[i] - 1)
        BY <2>1 DEF Source
      <3> HIDE DEF z
      <3>2. A[i] \in Nat /\ 8 * A[i] < R
        BY <2>1 DEF Sound
      <3>3. QED
        BY <3>1, <3>2, RAssumption DEF z
    <2>3. params.qibMont[i] = ToMont(ModInverse((a \div A[i]) % A[i], A[i]), A[i])
      BY <1>1, <2>1
    <2> HIDE DEF params, a
    <2>4. params.qibMont[i] \in 0..(A[i] - 1)
      BY <2>1, <2>2, <2>3, ToMontRange
    <2>5. params.qibMont[i] \in 0..A[i]
      BY <2>1, <2>4, SMTT(30) DEF Sound
    <2>6. QED
      BY <2>1, <2>5, TimesRange
  <1> HIDE DEF params
  <1>3. digits(x, params) = [i \in 1..m |-> MRed(x[i], params.qibMont[i], A[i], mredParams[A[i]])]
    BY <1>1 DEF digits
  <1>4. \A i \in 1..m : digits(x, params)[i] \in 0..(A[i] - 1)
    BY <1>2, <1>3
  <1>5. \A i \in 1..m : digits(x, params)[i] \in Nat
    BY <1>4
  <1>6. QED
    BY <1>3, <1>4, <1>5 DEF params

\* A row near twice its modulus b, as RowsFit has it.
Near(r, b) ==
    r \in 0..(R - 1) /\ \E q \in Moduli, n \in {Len(Q), Len(P)} : R * r < b * (2 * R + n * q)

\* A row below twice its modulus is near it.
LEMMA LazyIsNear ==
    ASSUME NEW b \in 1..(R - 1), 2 * b <= R, NEW r \in 0..(2 * b - 1)
    PROVE  Near(r, b)
  <1>1. Q[1] \in Moduli /\ Q[1] \in Nat \ {0} /\ Len(Q) \in Nat /\ Len(Q) > 1
    BY Rings DEF Basis, Sound
  <1> DEFINE n == Len(Q)
             c == n * Q[1]
  <1>2. c \in Nat
    BY <1>1
  <1> HIDE DEF c
  <1>3. R * r <= R * (2 * b - 1) /\ R * (2 * b - 1) = (R * b) + (R * b) - R /\ R \in Nat \ {0}
        /\ b * (2 * R + c) = (R * b) + (R * b) + (b * c) /\ b * c >= 0
    BY <1>2, RAssumption
  <1> DEFINE u == R * r
             w == R * b
             z == b * c
  <1>4. u \in Int /\ w \in Int /\ z \in Int
    BY <1>2, RAssumption
  <1>5. u <= w + w - R /\ z >= 0 /\ b * (2 * R + c) = w + w + z /\ R \in Nat \ {0}
    BY <1>3
  <1> HIDE DEF u, w, z
  <1>6. u < w + w + z
    BY <1>4, <1>5
  <1>7. R * r < b * (2 * R + n * Q[1])
    BY <1>5, <1>6 DEF u, c
  <1>8. r \in 0..(R - 1)
    BY RAssumption
  <1>9. QED
    BY <1>1, <1>7, <1>8 DEF Near

\* A residue is near its modulus, and so is the modulus itself.
LEMMA SmallIsNear ==
    ASSUME NEW b \in 1..(R - 1), NEW r \in 0..b
    PROVE  Near(r, b)
  <1>1. Q[1] \in Moduli /\ Q[1] \in Nat \ {0} /\ Len(Q) \in Nat /\ Len(Q) > 1
    BY Rings DEF Basis, Sound
  <1> DEFINE n == Len(Q)
             c == n * Q[1]
  <1>2. c \in Nat
    BY <1>1
  <1> HIDE DEF c
  <1>3. R * r <= R * b /\ b * (2 * R + c) = (R * b) + (R * b) + (b * c) /\ R * b > 0 /\ b * c >= 0
    BY <1>2, RAssumption
  <1> DEFINE u == R * r
             w == R * b
             z == b * c
  <1>4. u \in Int /\ w \in Int /\ z \in Int
    BY <1>2, RAssumption
  <1>5. u <= w /\ w > 0 /\ z >= 0 /\ b * (2 * R + c) = w + w + z
    BY <1>3
  <1> HIDE DEF u, w, z
  <1>6. u < w + w + z
    BY <1>4, <1>5
  <1>7. R * r < b * (2 * R + n * Q[1])
    BY <1>5, <1>6 DEF u, c
  <1>8. QED
    BY <1>1, <1>7, RAssumption DEF Near

\* One of the moduli is the largest.
LEMMA Largest ==
    ASSUME NEW A, Source(A), NEW m \in 1..Len(A)
    PROVE  \E q \in Moduli : \A i \in 1..m : A[i] <= q
  <1> DEFINE H == {k \in 0..m : \E q \in Moduli : \A i \in 1..k : A[i] <= q}
  <1>1. Len(A) \in Nat /\ m \in Nat /\ \A i \in 1..Len(A) : A[i] \in Moduli /\ A[i] \in Nat
    BY DEF Source, Basis, Sound
  <1>2. 0 \in H
    <2>1. 1 \in 1..Len(A) /\ 1..0 = {}
      BY <1>1
    <2>2. QED
      BY <1>1, <2>1
  <1>3. ASSUME NEW k \in 1..m, k - 1 \in H PROVE k \in H
    <2>1. PICK q \in Moduli : \A i \in 1..(k - 1) : A[i] <= q
      BY <1>3
    <2>2. k \in 0..m /\ k \in 1..Len(A) /\ \A i \in 1..k : i \in 1..Len(A) /\ (i = k \/ i \in 1..(k - 1))
      BY <1>1
    <2>3. q \in Nat
      BY ModuliAreSound DEF Sound
    <2>4. CASE A[k] <= q
      BY <2>1, <2>2, <2>4
    <2>5. CASE ~(A[k] <= q)
      <3>1. \A i \in 1..k : A[i] <= A[k]
        BY <1>1, <2>1, <2>2, <2>3, <2>5
      <3>2. A[k] \in Moduli
        BY <1>1, <2>2
      <3>3. QED
        BY <2>2, <3>1, <3>2
    <2>6. QED
      BY <2>4, <2>5
  <1> HIDE DEF H
  <1>4. \A k \in 0..m : k \in H
    BY <1>1, <1>2, <1>3, Induction
  <1>5. m \in 0..m
    BY <1>1
  <1>6. QED
    BY <1>4, <1>5 DEF H

\* Digits of a source: one residue per modulus.
Digits(y, A, m) == m \in 1..Len(A) /\ y \in [1..m -> Nat] /\ \A i \in 1..m : y[i] \in 0..(A[i] - 1)

\* The integer part of the sum of the digits over their moduli is an index of
\* the table of multiples.
LEMMA CorrectionRange ==
    ASSUME NEW A, Source(A), NEW B, NEW m, NEW y, Digits(y, A, m),
           NEW v \in reconstructRNS(y, basisextenderparameters(A, B))
    PROVE  v \in 0..Len(A)
  <1> DEFINE a == Product(A)
             term == [i \in 1..m |-> y[i] * (a \div A[i])]
             sum == Sum(term)
             l == Slack(a)
  <1>1. a \in Nat \ {0} /\ l < a /\ l \in Nat /\ Len(A) \in Nat /\ m \in Nat /\ m \in 1..Len(A)
    BY DEF Source, Basis, Digits
  <1> HIDE DEF a, l
  <1>2. ASSUME NEW i \in 1..m PROVE term[i] \in 0..a
    <2>1. A[i] \in Nat \ {0} /\ y[i] \in 0..(A[i] - 1)
      BY <1>1 DEF Source, Basis, Sound, Digits
    <2> DEFINE d == A[i]
               c == a \div d
               z == y[i]
    <2>2. d \in Nat \ {0} /\ a \in Int
      BY <1>1, <2>1
    <2> HIDE DEF d
    <2>3. c \in Int /\ a = (d * c) + (a % d) /\ a % d \in 0..(d - 1)
      BY <2>2, DivMod, Zenon
    <2>4. c >= 0
      BY <1>1, <2>2
    <2> HIDE DEF c
    <2>5. z \in 0..(d - 1)
      BY <2>1 DEF d
    <2> HIDE DEF z
    <2>6. z * c >= 0 /\ z * c <= d * c
      BY <2>2, <2>3, <2>4, <2>5
    <2> DEFINE e == d * c
               f == z * c
    <2>7. e \in Int /\ f \in Int /\ f >= 0 /\ f <= e /\ e <= a
      BY <2>2, <2>3, <2>5, <2>6
    <2> HIDE DEF e, f
    <2>8. f \in 0..a
      BY <1>1, <2>7
    <2>9. term[i] = f
      BY DEF f, z, c, d
    <2>10. QED
      BY <2>8, <2>9
  <1>3. Len(term) = m
    <2>1. \A i \in 1..m : term[i] \in Nat
      BY <1>1, <1>2
    <2>2. term \in [1..m -> Nat]
      BY <2>1
    <2> HIDE DEF term
    <2>3. QED
      BY <1>1, <2>2, IsASequence
  <1>4. sum \in 0..(m * a)
    <2> HIDE DEF term
    <2>1. a \in Nat
      BY <1>1
    <2>2. QED
      BY <1>1, <1>2, <1>3, <2>1, SumAtMost
  <1>5. reconstructRNS(y, basisextenderparameters(A, B))
        = IF sum = 0 THEN {0} ELSE {s \div a : s \in {e \in (sum - l)..(sum + l) : e >= 0}}
    <2>1. DOMAIN y = 1..m
      BY DEF Digits
    <2>2. basisextenderparameters(A, B).from = A
      BY DEF basisextenderparameters
    <2>3. QED
      BY <2>1, <2>2 DEF reconstructRNS, a, l
  <1> HIDE DEF sum
  <1>6. CASE sum = 0
    BY <1>1, <1>5, <1>6
  <1>7. CASE sum # 0
    <2>1. PICK e \in (sum - l)..(sum + l) : e >= 0 /\ v = e \div a
      BY <1>5, <1>7
    <2> DEFINE c == e \div a
    <2>2. e \in Int /\ e <= (m * a) + l
      <3> DEFINE w == m * a
      <3>1. w \in Int
        BY <1>1
      <3>2. sum \in 0..w
        BY <1>4
      <3> HIDE DEF w
      <3>3. e \in Int /\ e <= w + l
        BY <1>1, <3>1, <3>2
      <3>4. QED
        BY <3>3 DEF w
    <2>3. c \in Int /\ e = (a * c) + (e % a) /\ e % a \in 0..(a - 1)
      BY <1>1, <2>2, DivMod, Zenon
    <2>4. c >= 0
      BY <1>1, <2>1, <2>2
    <2> HIDE DEF c
    <2>5. c <= m
      <3>1. SUFFICES ASSUME c >= m + 1 PROVE FALSE
        BY <1>1, <2>3
      <3>2. a * c >= a * (m + 1)
        BY <1>1, <2>3, <3>1
      <3>3. a * (m + 1) = (m * a) + a
        BY <1>1
      <3> DEFINE w == m * a
                 x == a * c
      <3>4. w \in Int /\ x \in Int /\ x >= w + a /\ e <= w + l /\ e >= x
        BY <1>1, <2>2, <2>3, <3>2, <3>3
      <3> HIDE DEF w, x
      <3>5. QED
        BY <1>1, <3>4
    <2>6. QED
      BY <1>1, <2>1, <2>3, <2>4, <2>5 DEF c
  <1>8. QED
    BY <1>6, <1>7

\* The high half of a word times a modulus is a residue.
LEMMA HighHalf ==
    ASSUME NEW b, Sound(b), NEW w \in 0..(R - 1)
    PROVE  Hi(w * b) \in 0..(b - 1)
  <1>1. b \in Nat \ {0} /\ R \in Nat \ {0} /\ R \in Int
    BY RAssumption DEF Sound
  <1> DEFINE p == w * b
             h == p \div R
  <1>2. p \in Int
    BY <1>1
  <1>3. p >= 0 /\ p < R * b
    BY <1>1
  <1> HIDE DEF p
  <1>4. h \in Int /\ p = (R * h) + (p % R) /\ p % R \in 0..(R - 1)
    BY <1>1, <1>2, DivMod, Zenon
  <1>5. h >= 0
    BY <1>1, <1>2, <1>3
  <1> HIDE DEF h
  <1>6. h <= b - 1
    <2>1. SUFFICES ASSUME h >= b PROVE FALSE
      BY <1>1, <1>4
    <2>2. R * h >= R * b
      BY <1>1, <1>4, <2>1
    <2> DEFINE x == R * h
               y == R * b
    <2>3. x \in Int /\ y \in Int /\ x >= y /\ p < y /\ p >= x
      BY <1>1, <1>2, <1>3, <1>4, <2>2
    <2> HIDE DEF x, y
    <2>4. QED
      BY <1>2, <2>3
  <1>7. QED
    BY <1>1, <1>4, <1>5, <1>6 DEF Hi, h, p

\* A row an extension writes is near twice its modulus: the digits times
\* cofactors below b add up to m*q*b, of which the high half is kept.
LEMMA ExtendedRow ==
    ASSUME NEW A, Source(A), NEW B, Basis(B), NEW m, NEW y, Digits(y, A, m),
           NEW v \in 0..Len(A), NEW j \in 1..Len(B)
    PROVE  Near(multSum(y, v, j, basisextenderparameters(A, B)), B[j])
  <1> DEFINE params == basisextenderparameters(A, B)
             b == B[j]
             a == Product(A)
             term == [i \in 1..m |-> y[i] * params.qispjMont[j][i]]
             sum == Sum(term)
             w == Wrap(Lo(sum) * mredParams[b])
             t == params.qpjInv[j][v]
             e == (Hi(sum) - Hi(w * b)) + b + t
  <1>1. /\ Sound(b) /\ b \in Nat \ {0} /\ Len(A) \in Nat /\ m \in Nat /\ m \in 1..Len(A)
        /\ a \in Nat \ {0} /\ R \in Nat \ {0} /\ 8 * b < R
    BY RAssumption DEF Source, Basis, Digits, Sound
  <1>2. /\ DOMAIN A = 1..Len(A) /\ DOMAIN B = 1..Len(B) /\ DOMAIN y = 1..m
        /\ params.to = B
        /\ params.qispjMont = [k \in DOMAIN B |-> [i \in DOMAIN A |-> ToMont((a \div A[i]) % B[k], B[k])]]
        /\ params.qpjInv = [k \in DOMAIN B |-> Multiples(A, B[k])]
    BY DEF basisextenderparameters, Source, Basis, Digits
  <1>3. multSum(y, v, j, params) = Wrap(e)
    <2>1. b = params.to[j] /\ sum = Sum([i \in DOMAIN y |-> y[i] * params.qispjMont[j][i]])
      BY <1>2
    <2> HIDE DEF params, b
    <2>2. multSum(y, v, j, params) = Wrap(Hi(sum) - Hi(w * b) + b + t)
      BY <2>1 DEF multSum
    <2>3. QED
      BY <2>2
  <1>4. t \in 0..(b - 1)
    <2>1. t = Multiples(A, b)[v]
      BY <1>2
    <2> HIDE DEF t, params, b
    <2>2. QED
      BY <1>1, <2>1, MultiplesRange DEF a
  <1>5. \A i \in 1..m : params.qispjMont[j][i] \in 0..(b - 1)
    <2>1. ASSUME NEW i \in 1..m PROVE ToMont((a \div A[i]) % b, b) \in 0..(b - 1)
      <3>0. i \in 1..Len(A)
        BY <1>1
      <3>1. A[i] \in Nat \ {0}
        BY <3>0 DEF Source, Basis, Sound
      <3> DEFINE c == a \div A[i]
      <3>2. c \in Int
        BY <1>1, <3>1
      <3> HIDE DEF c, a
      <3>3. c % b \in 0..(R - 1)
        BY <1>1, <3>2
      <3> HIDE DEF b
      <3>4. ToMont(c % b, b) \in 0..(b - 1)
        BY <1>1, <3>3, ToMontRange
      <3>5. QED
        BY <3>4 DEF c
    <2>2. \A i \in 1..m : i \in DOMAIN A
      BY <1>1, <1>2
    <2>3. QED
      BY <1>2, <2>1, <2>2
  <1> HIDE DEF params, t, b, a
  <1>6. PICK q \in Moduli : \A i \in 1..m : A[i] <= q
    BY <1>1, Largest
  <1>7. q \in Nat \ {0}
    BY ModuliAreSound DEF Sound
  <1> DEFINE c == (q - 1) * (b - 1)
  <1>8. c \in Nat
    BY <1>1, <1>7
  <1>9. \A i \in 1..m : term[i] \in 0..c
    <2>1. ASSUME NEW i \in 1..m PROVE term[i] \in 0..c
      <3> DEFINE x == y[i]
                 z == params.qispjMont[j][i]
      <3>1. x \in 0..(q - 1) /\ z \in 0..(b - 1)
        <4>1. x \in 0..(A[i] - 1) /\ A[i] <= q
          BY <1>6 DEF Digits
        <4>2. i \in 1..Len(A)
          BY <1>1
        <4>3. A[i] \in Nat
          BY <4>2 DEF Source, Basis, Sound
        <4>4. QED
          BY <1>5, <1>7, <4>1, <4>3
      <3>2. term[i] = x * z
        OBVIOUS
      <3> HIDE DEF x, z
      <3>3. x * z <= (q - 1) * (b - 1) /\ x * z >= 0
        <4>1. x * z <= (q - 1) * z
          BY <1>1, <1>7, <3>1
        <4>2. (q - 1) * z <= (q - 1) * (b - 1)
          BY <1>1, <1>7, <3>1
        <4> DEFINE f == (q - 1) * z
                   g == x * z
        <4>3. f \in Int /\ g \in Int /\ c \in Int /\ g <= f /\ f <= c /\ g >= 0
          BY <1>1, <1>7, <1>8, <3>1, <4>1, <4>2
        <4> HIDE DEF f, c
        <4>4. QED
          BY <4>3 DEF c
      <3>4. x * z \in Int
        BY <3>1, <1>1, <1>7
      <3> HIDE DEF term
      <3>5. QED
        BY <1>8, <3>2, <3>3, <3>4
    <2>2. QED
      BY <2>1
  <1>10. Len(term) = m
    <2>1. \A i \in 1..m : term[i] \in Nat
      BY <1>8, <1>9
    <2>2. term \in [1..m -> Nat]
      BY <2>1
    <2> HIDE DEF term
    <2>3. QED
      BY <1>1, <2>2, IsASequence
  <1> HIDE DEF c
  <1>11. sum \in 0..(m * c)
    <2> HIDE DEF term
    <2>1. QED
      BY <1>1, <1>8, <1>9, <1>10, SumAtMost
  <1> HIDE DEF sum
  <1>12. sum \in Nat
    BY <1>1, <1>8, <1>11
  <1>13. Hi(sum) \in Nat /\ R * Hi(sum) <= sum
    <2>1. R \in Int /\ sum \in Int
      BY <1>1, <1>12
    <2> DEFINE h == sum \div R
    <2>2. h \in Int /\ sum = (R * h) + (sum % R) /\ sum % R \in 0..(R - 1)
      BY <1>1, <2>1, DivMod, Zenon
    <2>3. h >= 0
      BY <1>1, <1>12
    <2>4. Hi(sum) = h
      BY DEF Hi
    <2> HIDE DEF h
    <2>5. QED
      BY <1>1, <1>12, <2>2, <2>3, <2>4
  <1>14. Hi(w * b) \in 0..(b - 1)
    <2>1. Lo(sum) \in Int /\ mredParams[b] \in Int
      BY <1>1, <1>12 DEF Lo, Sound
    <2>2. Lo(sum) * mredParams[b] \in Int
      BY <2>1
    <2>3. w \in 0..(R - 1)
      BY <2>2, WrapRange
    <2> HIDE DEF w
    <2>4. QED
      BY <1>1, <2>3, HighHalf
  <1> HIDE DEF w
  <1>15. e \in Nat /\ e <= Hi(sum) + (2 * b) - 1
    BY <1>1, <1>4, <1>13, <1>14, SMTT(30)
  <1> HIDE DEF e
  <1>16. Wrap(e) \in 0..(R - 1) /\ Wrap(e) <= e
    <2>1. e \in Int
      BY <1>15
    <2>2. CASE e < R
      <3>1. e \in 0..(R - 1)
        BY <1>1, <1>15, <2>2
      <3>2. QED
        BY <2>1, <3>1, WrapRange
    <2>3. CASE ~(e < R)
      BY <1>1, <2>1, <2>3, WrapRange
    <2>4. QED
      BY <2>2, <2>3
  <1> DEFINE r == Wrap(e)
  <1> HIDE DEF r
  <1>17. R * r < b * (2 * R + m * q)
    <2> DEFINE h == Hi(sum)
               d == m * c
               f == m * q
               g == R * r
               k == R * h
    <2>1. f \in Nat /\ d \in Nat /\ h \in Nat /\ r \in Nat /\ g \in Int /\ k \in Int /\ r <= h + (2 * b) - 1
      BY <1>1, <1>7, <1>8, <1>13, <1>15, <1>16 DEF r
    <2>2. g <= k + R * ((2 * b) - 1)
      <3> HIDE DEF h, g, k
      <3>1. R * r <= R * (h + ((2 * b) - 1))
        BY <1>1, <2>1
      <3>2. R * (h + ((2 * b) - 1)) = R * h + R * ((2 * b) - 1)
        BY <1>1, <2>1
      <3>3. QED
        BY <3>1, <3>2 DEF g, k
    <2>3. k <= d
      <3>1. sum \in Int /\ k <= sum /\ sum <= d
        BY <1>11, <1>12, <1>13
      <3> HIDE DEF k, d
      <3>2. QED
        BY <2>1, <3>1
    <2>4. d <= b * f
      <3>1. c <= q * b
        <4>1. (q - 1) * (b - 1) = ((q * b) - q) - b + 1
          BY <1>1, <1>7
        <4> DEFINE x == q * b
        <4>2. x \in Int
          BY <1>1, <1>7
        <4>3. c = (x - q) - b + 1
          BY <4>1 DEF c
        <4> HIDE DEF x
        <4>4. c <= x
          BY <1>1, <1>7, <4>2, <4>3
        <4>5. QED
          BY <4>4 DEF x
      <3> DEFINE x == q * b
      <3>2. x \in Int
        BY <1>1, <1>7
      <3>3. c <= x
        BY <3>1
      <3>4. b * f = m * x
        BY <1>1, <1>7
      <3> HIDE DEF x
      <3>5. m * c <= m * x
        BY <1>1, <1>8, <3>2, <3>3
      <3>6. QED
        BY <3>4, <3>5
    <2>5. R * ((2 * b) - 1) = (2 * (R * b)) - R /\ b * (2 * R + f) = (2 * (R * b)) + (b * f)
      <3> HIDE DEF f
      <3> QED
        BY <1>1, <2>1
    <2> DEFINE x == R * b
               z == b * f
    <2>6. x \in Int /\ z \in Int
      BY <1>1, <2>1
    <2>7. g <= k + ((2 * x) - R) /\ k <= d /\ d <= z /\ b * (2 * R + f) = (2 * x) + z
      BY <2>2, <2>3, <2>4, <2>5
    <2> HIDE DEF x, z, g, k, d, f
    <2>8. g < b * (2 * R + f)
      BY <1>1, <2>1, <2>6, <2>7
    <2>9. QED
      BY <2>8 DEF g, f
  <1>18. PICK n \in {Len(Q), Len(P)} : Len(A) <= n
    BY DEF Source
  <1>19. R * r < b * (2 * R + n * q)
    <2>1. n \in Nat /\ m <= n
      BY <1>1, <1>18, Rings DEF Basis
    <2> DEFINE f == m * q
               g == n * q
    <2>2. f \in Int /\ g \in Int /\ f <= g
      BY <1>1, <1>7, <2>1
    <2>3. R * r < b * (2 * R + f)
      BY <1>17
    <2> HIDE DEF f, g
    <2>4. b * (2 * R + f) <= b * (2 * R + g)
      BY <1>1, <2>2
    <2> DEFINE x == b * (2 * R + f)
               z == b * (2 * R + g)
               s == R * r
    <2>5. x \in Int /\ z \in Int /\ s \in Int /\ x <= z /\ s < x
      BY <1>1, <1>16, <2>2, <2>3, <2>4 DEF r
    <2> HIDE DEF x, z, s
    <2>6. s < z
      BY <2>5
    <2>7. QED
      BY <2>6 DEF s, z, g
  <1>20. QED
    BY <1>3, <1>16, <1>19 DEF Near, r, params, b

\* The bases of a polynomial of l rows, alone and with the moduli of P.
LEMMA Levels ==
    ASSUME NEW l \in 1..Len(Q)
    PROVE  /\ Level(l) \in Bases /\ Basis(Level(l)) /\ Len(Level(l)) = l
           /\ DOMAIN Level(l) = 1..l
           /\ \A i \in 1..l : Level(l)[i] = Q[i]
  <1>1. 1 \in 1..Len(Q) /\ l \in 1..Len(Q) /\ (l - 1) + 1 = l
    BY Rings DEF Basis
  <1>2. Basis(Level(l)) /\ Len(Level(l)) = l /\ \A i \in 1..l : Level(l)[i] = Q[(1 + i) - 1]
    BY <1>1, Pieces DEF Level
  <1>3. \A i \in 1..l : (1 + i) - 1 = i
    BY <1>1
  <1>4. DOMAIN Level(l) = 1..l
    BY <1>2 DEF Basis
  <1>5. Level(l) \in Bases
    BY Rings DEF Bases
  <1>6. QED
    BY <1>2, <1>3, <1>4, <1>5

\* The same with the moduli of P after them.
LEMMA ExtendedLevel ==
    ASSUME NEW l \in 1..Len(Q)
    PROVE  /\ Level(l) \o P \in Bases /\ Basis(Level(l) \o P) /\ Len(Level(l) \o P) = l + Len(P)
           /\ DOMAIN (Level(l) \o P) = 1..(l + Len(P))
           /\ \A i \in 1..l : (Level(l) \o P)[i] = Q[i]
           /\ \A j \in 1..Len(P) : (Level(l) \o P)[l + j] = P[j]
  <1> DEFINE A == Level(l)
             B == A \o P
             n == Len(P)
  <1>1. A \in Seq(Nat) /\ Len(A) = l /\ P \in Seq(Nat) /\ n \in Nat /\ l \in Nat
    BY Levels, Rings DEF Basis
  <1>2. B \in Seq(Nat) /\ Len(B) = l + n /\ DOMAIN B = 1..(l + n)
    BY <1>1
  <1>3. /\ \A i \in 1..l : B[i] = A[i]
        /\ \A j \in 1..n : B[l + j] = P[j]
    BY <1>1, SMTT(30)
  <1>4. \A i \in 1..l : A[i] = Q[i] /\ Sound(A[i])
    BY <1>1, Levels DEF Basis
  <1>5. \A j \in 1..n : Sound(P[j])
    BY Rings DEF Basis
  <1>6. \A k \in 1..(l + n) : Sound(B[k])
    <2>1. ASSUME NEW k \in 1..(l + n) PROVE k \in 1..l \/ \E j \in 1..n : k = l + j
      <3>1. CASE k <= l
        BY <1>1, <3>1
      <3>2. CASE ~(k <= l)
        <4>1. k - l \in 1..n /\ k = l + (k - l)
          BY <1>1, <3>2
        <4>2. QED
          BY <4>1
      <3>3. QED
        BY <3>1, <3>2
    <2> HIDE DEF A, B, n
    <2>2. QED
      BY <1>3, <1>4, <1>5, <2>1
  <1>7. Basis(B)
    <2> HIDE DEF B, A
    <2>1. Len(B) \in Nat
      BY <1>1, <1>2
    <2>2. QED
      BY <1>2, <1>6, <2>1 DEF Basis
  <1>8. B \in Bases
    BY Rings DEF Bases
  <1>9. QED
    BY <1>2, <1>3, <1>4, <1>7, <1>8

\* P, Q and QP are among them.
LEMMA RingBases ==
    /\ P \in Bases /\ Q \in Bases /\ Q = Level(Len(Q)) /\ Len(Q) \in 1..Len(Q)
    /\ Source(Q) /\ Source(P)
  <1>1. Len(Q) \in 1..Len(Q)
    BY Rings DEF Basis
  <1>2. Q = Level(Len(Q)) /\ Q \in Sources
    BY WholeQ DEF Level
  <1>3. P \in Sources /\ P \in Bases
    BY DEF Sources, Bases
  <1>4. Q \in Bases
    BY <1>1, <1>2, Levels
  <1>5. QED
    BY <1>1, <1>2, <1>3, <1>4, SourcesExtend

\* The moduli with those of P are none without.
LEMMA LevelsDiffer ==
    ASSUME NEW l \in 1..Len(Q), NEW k \in 1..Len(Q)
    PROVE  Level(l) \o P # Level(k)
  <1>1. SUFFICES ASSUME Level(l) \o P = Level(k) PROVE FALSE
    OBVIOUS
  <1>2. Len(Q) \in Nat /\ Len(P) \in Nat /\ Len(P) > 0 /\ Q \in Seq(Nat) /\ P \in Seq(Nat)
    BY Rings DEF Basis
  <1>3. l + Len(P) = k
    BY <1>1, Levels, ExtendedLevel
  <1>4. l + 1 \in 1..k /\ 1 \in 1..Len(P) /\ l + 1 \in 1..Len(Q)
    BY <1>2, <1>3
  <1>5. Q[l + 1] = P[1]
    <2>1. Level(k)[l + 1] = Q[l + 1]
      BY <1>4, Levels
    <2>2. (Level(l) \o P)[l + 1] = P[1]
      BY <1>4, ExtendedLevel
    <2>3. QED
      BY <1>1, <2>1, <2>2
  <1>6. Len(Q) + 1 \in DOMAIN (Q \o P) /\ l + 1 \in DOMAIN (Q \o P) /\ l + 1 # Len(Q) + 1
        /\ (Q \o P)[l + 1] = Q[l + 1] /\ (Q \o P)[Len(Q) + 1] = P[1]
    <2> DEFINE n == Len(Q)
    <2>1. DOMAIN (Q \o P) = 1..(n + Len(P)) /\ \A i \in 1..n : (Q \o P)[i] = Q[i]
      BY <1>2
    <2>2. (Q \o P)[n + 1] = P[1]
      BY <1>2, <1>4
    <2>3. l + 1 <= n
      BY <1>2, <1>4
    <2> HIDE DEF n
    <2>4. l + 1 # n + 1
      <3>1. l + Len(P) <= n
        BY <1>3 DEF n
      <3>2. CASE l + 1 = n + 1
        BY <1>1, <1>2, <1>3, <1>4, <3>2 DEF n
      <3>3. QED
        BY <3>2
    <2>5. n + 1 \in 1..(n + Len(P)) /\ l + 1 \in 1..(n + Len(P)) /\ l + 1 \in 1..n
      BY <1>2, <1>4, <2>3 DEF n
    <2>6. QED
      BY <2>1, <2>2, <2>4, <2>5 DEF n
  <1>7. QED
    BY <1>5, <1>6, RnsAssumption, Zenon

\* What an extension writes: words near twice their moduli.
LEMMA ExtensionNear ==
    ASSUME NEW A, Source(A), NEW B, Basis(B), NEW m \in 1..Len(A), NEW x \in [1..m -> 0..(R - 1)],
           NEW n \in 0..Len(B), NEW z \in modUpExact(x, n, basisextenderparameters(A, B))
    PROVE  z \in [1..n -> 0..(R - 1)] /\ \A j \in 1..n : Near(z[j], B[j])
  <1> DEFINE params == basisextenderparameters(A, B)
             y == digits(x, params)
  <1>1. Digits(y, A, m)
    BY DigitsRange DEF Digits
  <1>2. PICK v \in reconstructRNS(y, params) : z = [j \in 1..n |-> multSum(y, v, j, params)]
    BY DEF modUpExact
  <1> HIDE DEF y
  <1>3. v \in 0..Len(A)
    BY <1>1, <1>2, CorrectionRange
  <1>4. \A j \in 1..n : Near(multSum(y, v, j, params), B[j])
    <2>1. \A j \in 1..n : j \in 1..Len(B)
      BY DEF Basis
    <2>2. QED
      BY <1>1, <1>3, <2>1, ExtendedRow
  <1> HIDE DEF params
  <1>5. \A j \in 1..n : z[j] = multSum(y, v, j, params)
    BY <1>2
  <1>6. \A j \in 1..n : Near(z[j], B[j]) /\ z[j] \in 0..(R - 1)
    BY <1>4, <1>5 DEF Near
  <1>7. z \in [1..n -> 0..(R - 1)]
    BY <1>2, <1>6
  <1>8. QED
    BY <1>6, <1>7

\* The inverses of a divisor, in Montgomery form, are residues.
LEMMA DownParams ==
    ASSUME NEW keep, Basis(keep), NEW drop, Product(drop) \in Nat
    PROVE  \A i \in 1..Len(keep) : genModDownParams(keep, drop)[i] \in 0..(keep[i] - 1)
  <1>1. SUFFICES ASSUME NEW i \in 1..Len(keep)
                 PROVE  genModDownParams(keep, drop)[i] \in 0..(keep[i] - 1)
    OBVIOUS
  <1> DEFINE q == keep[i]
             p == Product(drop)
  <1>2. genModDownParams(keep, drop)[i] = ToMont(ModExp(p % q, q - 2, q), q)
    BY DEF genModDownParams, Basis
  <1>3. Sound(q) /\ p \in Nat
    BY DEF Basis
  <1> HIDE DEF q, p
  <1>4. q \in Nat \ {0} /\ 2 * q <= R /\ p % q \in 0..(R - 1) /\ q - 2 \in 0..(R - 1)
    BY <1>3, RAssumption DEF Sound
  <1>5. ModExp(p % q, q - 2, q) \in 0..(R - 1)
    BY <1>4, ModExpRange
  <1>6. QED
    BY <1>2, <1>3, <1>5, ToMontRange DEF q

\* So is the inverse of a modulus that is dropped.
LEMMA RescaleRange ==
    ASSUME NEW q, Sound(q), NEW last \in 0..(R - 1)
    PROVE  rescaleParams(last, q) \in 0..q
  <1>1. q \in Nat \ {0} /\ 2 * q <= R /\ q - 2 \in 0..(R - 1)
    BY RAssumption DEF Sound
  <1>2. ModExp(last, q - 2, q) \in 0..(R - 1)
    BY <1>1, ModExpRange
  <1>3. rescaleParams(last, q) \in 0..(q - 1)
    BY <1>2, ToMontRange DEF rescaleParams
  <1>4. QED
    BY <1>1, <1>3

\* Reduction modulo any modulus, a power of two included.
LEMMA ReducedRange ==
    ASSUME NEW q, Sound(q), NEW x \in 0..(R - 1)
    PROVE  BRedAdd(x, q, bredParams[q]) \in 0..(q - 1)
  <1>1. q \in Nat \ {0} /\ 2 * q <= R /\ bredParams[q] = BRedParams(q) /\ x \in Int
    BY RAssumption DEF Sound
  <1>2. BRedAdd(x, q, bredParams[q]) = x % q
    BY <1>1, BarrettReduction
  <1>3. QED
    BY <1>1, <1>2

\* The sequence y of b elements after the sequence x of a.
Joins(x, a, y, b, S) ==
    /\ x \o y \in [1..(a + b) -> S]
    /\ \A i \in 1..a : (x \o y)[i] = x[i]
    /\ \A j \in 1..b : (x \o y)[a + j] = y[j]

\* It has the elements of both.
LEMMA Joined ==
    ASSUME NEW S, NEW a \in Nat, NEW b \in Nat, NEW x \in [1..a -> S], NEW y \in [1..b -> S]
    PROVE  Joins(x, a, y, b, S)
  <1>1. x \in Seq(S) /\ Len(x) = a /\ y \in Seq(S) /\ Len(y) = b
    BY IsASequence
  <1> DEFINE z == x \o y
  <1>2. z \in Seq(S) /\ Len(z) = a + b
    BY <1>1
  <1>3. \A i \in 1..a : z[i] = x[i]
    BY <1>1
  <1>4. \A j \in 1..b : z[a + j] = y[j]
    BY <1>1
  <1>5. z \in [1..(a + b) -> S]
    <2> HIDE DEF z
    <2> QED
      BY <1>2
  <1>6. QED
    BY <1>3, <1>4, <1>5 DEF Joins

-----------------------------------------------------------------------------
(* The invariant *)

\* Only a digit, always over the moduli of P too, may be far from its modulus.
DigitBasis == op[1] = "Digit" => \E l \in 1..Len(Q) : moduli = Level(l) \o P
IInv == TypeOK /\ RowsFit /\ DigitBasis

\* The rows in terms of their number.
LEMMA RowsAre ==
    ASSUME IInv, NEW n \in Nat, DOMAIN moduli = 1..n
    PROVE  /\ rows \in [1..n -> 0..(R - 1)] /\ Len(rows) = n /\ DOMAIN rows = 1..n
           /\ \A i \in 1..n : rows[i] \in 0..(R - 1)
  <1>1. rows \in [1..n -> 0..(R - 1)]
    BY DEF IInv, TypeOK
  <1>2. Len(rows) = n /\ DOMAIN rows = 1..n
    BY <1>1, IsASequence
  <1>3. QED
    BY <1>1, <1>2

\* Rows near their moduli, and no digit: the invariant holds.
LEMMA Fits ==
    ASSUME NEW name, name[1] # "Digit", NEW m \in Bases, NEW n \in Nat, DOMAIN m = 1..n,
           NEW x \in [1..n -> 0..(R - 1)], \A i \in 1..n : Near(x[i], m[i]), Become(name, m, x)
    PROVE  IInv'
  <1>1. op' = name /\ moduli' = m /\ rows' = x
    BY DEF Become
  <1>2. TypeOK'
    BY <1>1 DEF TypeOK
  <1>3. RowsFit'
    <2>1. SUFFICES ASSUME NEW i \in DOMAIN x
                   PROVE  \E q \in Moduli, k \in {Len(Q), Len(P)} :
                              R * x[i] < m[i] * (2 * R + k * q)
      BY <1>1 DEF RowsFit
    <2>2. Near(x[i], m[i])
      OBVIOUS
    <2>3. QED
      BY <2>2 DEF Near
  <1>4. DigitBasis'
    BY <1>1 DEF DigitBasis
  <1>5. QED
    BY <1>2, <1>3, <1>4 DEF IInv

\* Rows below their moduli, and no digit.
LEMMA FitsBelow ==
    ASSUME NEW name, name[1] # "Digit", NEW m \in Bases, NEW n \in Nat, DOMAIN m = 1..n, NEW x,
           Basis(m), DOMAIN x = 1..n, x = [i \in 1..n |-> x[i]],
           \A i \in 1..n : x[i] \in 0..(m[i] - 1), Become(name, m, x)
    PROVE  IInv'
  <1>1. Len(m) = n
    BY DEF Basis
  <1>2. \A i \in 1..n : m[i] \in 1..(R - 1)
    <2>1. ASSUME NEW i \in 1..n PROVE Sound(m[i])
      BY <1>1 DEF Basis
    <2>2. QED
      BY <2>1, RAssumption DEF Sound
  <1>3. \A i \in 1..n : Near(x[i], m[i])
    <2>1. ASSUME NEW i \in 1..n PROVE x[i] \in 0..m[i] /\ m[i] \in 1..(R - 1)
      BY <1>2
    <2>2. QED
      BY <2>1, SmallIsNear
  <1>4. \A i \in 1..n : x[i] \in 0..(R - 1)
    BY <1>3 DEF Near
  <1>5. x \in [1..n -> 0..(R - 1)]
    BY <1>4
  <1>6. QED
    BY <1>3, <1>5, Fits

\* A division leaves its rows below their moduli.
LEMMA QuotientsFit ==
    ASSUME NEW name, name[1] # "Digit", NEW m \in Bases, Basis(m), NEW ys, NEW inv,
           \A i \in 1..Len(m) : inv[i] \in 0..m[i] /\ ys[i] \subseteq Int /\ rows[i] \in Int,
           Quotients(name, ys, inv, m)
    PROVE  IInv'
  <1> DEFINE S == [i \in DOMAIN m |-> {quotient(y, rows[i], m[i], inv[i]) : y \in ys[i]}]
  <1>1. PICK x \in OneOfEach(S) : Become(name, m, x)
    BY DEF Quotients
  <1>2. DOMAIN m = 1..Len(m) /\ Len(m) \in Nat
    BY DEF Basis
  <1>3. x \in [DOMAIN m -> UNION {S[i] : i \in DOMAIN m}] /\ \A i \in DOMAIN m : x[i] \in S[i]
    BY <1>1 DEF OneOfEach
  <1>4. DOMAIN x = 1..Len(m) /\ x = [i \in 1..Len(m) |-> x[i]]
    BY <1>2, <1>3
  <1>5. ASSUME NEW i \in 1..Len(m) PROVE x[i] \in 0..(m[i] - 1)
    <2>1. PICK y \in ys[i] : x[i] = quotient(y, rows[i], m[i], inv[i])
      BY <1>2, <1>3
    <2>2. y \in Int /\ rows[i] \in Int /\ inv[i] \in 0..m[i] /\ Sound(m[i])
      BY DEF Basis
    <2>3. QED
      BY <2>1, <2>2, QuotientRange
  <1>6. QED
    BY <1>1, <1>2, <1>4, <1>5, FitsBelow

-----------------------------------------------------------------------------
(* The actions *)

\* A polynomial starts with residues.
LEMMA InitFits == Init => IInv
  <1>1. SUFFICES ASSUME Init PROVE IInv
    OBVIOUS
  <1>2. moduli \in Bases /\ Basis(moduli)
    <2>1. CASE moduli = P
      BY <2>1, Rings, RingBases
    <2>2. CASE moduli # P
      <3>1. PICK l \in DOMAIN Q : moduli = Level(l) \/ moduli = Level(l) \o P
        BY <1>1, <2>2 DEF Init
      <3>2. l \in 1..Len(Q)
        BY Rings
      <3>3. QED
        BY <3>1, <3>2, Levels, ExtendedLevel
    <2>3. QED
      BY <2>1, <2>2
  <1>3. PICK value \in Inputs(moduli) : rows = [i \in DOMAIN moduli |-> value % moduli[i]]
    BY <1>1 DEF Init
  <1>4. value \in Nat
    BY <1>2, <1>3, InputsAssumption
  <1>5. DOMAIN moduli = 1..Len(moduli) /\ DOMAIN rows = DOMAIN moduli
    BY <1>2, <1>3 DEF Basis
  <1>6. ASSUME NEW i \in DOMAIN moduli
        PROVE  /\ rows[i] \in 0..(R - 1)
               /\ \E q \in Moduli, n \in {Len(Q), Len(P)} : R * rows[i] < moduli[i] * (2 * R + n * q)
    <2> DEFINE m == moduli[i]
    <2>1. Sound(m) /\ rows[i] = value % m
      BY <1>2, <1>3, <1>5 DEF Basis
    <2> HIDE DEF m
    <2>2. m \in 1..(R - 1) /\ rows[i] \in 0..m
      BY <1>4, <2>1, RAssumption DEF Sound
    <2>3. Near(rows[i], m)
      BY <2>2, SmallIsNear
    <2>4. QED
      BY <2>3 DEF Near, m
  <1>7. TypeOK
    BY <1>2, <1>3, <1>6 DEF TypeOK
  <1>8. RowsFit
    BY <1>5, <1>6 DEF RowsFit
  <1>9. DigitBasis
    BY <1>1 DEF Init, DigitBasis
  <1>10. QED
    BY <1>7, <1>8, <1>9 DEF IInv

\* Every modulus is a word a reduction takes.
LEMMA Reducible ==
    ASSUME NEW m \in Bases, NEW i \in DOMAIN m
    PROVE  m[i] \in 1..(R - 1) /\ 2 * m[i] <= R /\ bredParams[m[i]] = BRedParams(m[i])
  <1>1. CASE Basis(m)
    <2>1. Sound(m[i])
      BY <1>1 DEF Basis
    <2>2. QED
      BY <2>1, RAssumption DEF Sound
  <1>2. CASE ~Basis(m)
    <2>1. PICK t \in T : m = << t >>
      <3>1. \A l \in DOMAIN Q : Basis(Level(l)) /\ Basis(Level(l) \o P)
        BY Levels, ExtendedLevel, Rings
      <3>2. QED
        BY <1>2, <3>1, Rings DEF Bases
    <2>2. m[i] = t
      BY <2>1
    <2>3. t \in 1..(R - 1) /\ 2 * t <= R
      <3>1. CASE Odd(t)
        <4>1. Sound(t)
          BY <3>1, ModuliAreSound
        <4>2. QED
          BY <4>1, RAssumption DEF Sound
      <3>2. CASE ~Odd(t)
        <4>1. PICK k \in 1..(W - 1) : t = 2^k
          BY <3>2, RnsAssumption
        <4>2. k \in 0..W /\ k + 1 \in 0..W /\ k < W
          BY <4>1, WAssumption
        <4>3. 2^k \in Nat \ {0} /\ 2^(k + 1) = 2 * 2^k /\ 2^k < R
          BY <4>2, WordPowers
        <4>4. R = 2^(k + 1) * 2^(W - (k + 1)) /\ 2^(k + 1) \in Nat \ {0} /\ 2^(W - (k + 1)) \in Nat \ {0}
          BY <4>2, WordPowers
        <4> DEFINE a == 2^(k + 1)
                   b == 2^(W - (k + 1))
        <4>5. a \in Nat \ {0} /\ b \in Nat \ {0} /\ R = a * b /\ a = 2 * t
          BY <4>1, <4>3, <4>4
        <4>6. t \in Nat \ {0} /\ t < R /\ R \in Nat
          BY <4>1, <4>3, RAssumption
        <4> HIDE DEF a, b
        <4>7. a <= R
          BY <4>5
        <4>8. QED
          BY <4>5, <4>6, <4>7
      <3>3. QED
        BY <3>1, <3>2
    <2>4. bredParams[t] = BRedParams(t)
      BY DEF bredParams
    <2>5. QED
      BY <2>2, <2>3, <2>4
  <1>3. QED
    BY <1>1, <1>2

\* A reduction makes residues of the rows.
LEMMA ReduceFits == IInv /\ Reduce => IInv'
  <1>1. SUFFICES ASSUME IInv, Reduce PROVE IInv'
    OBVIOUS
  <1>2. moduli' = moduli /\ op' = op /\ moduli \in Bases /\ rows \in [DOMAIN moduli -> 0..(R - 1)]
    BY <1>1 DEF Reduce, IInv, TypeOK
  <1>3. rows' = [i \in DOMAIN moduli |-> BRedAdd(rows[i], moduli[i], bredParams[moduli[i]])]
    BY <1>1, <1>2 DEF Reduce
  <1>4. ASSUME NEW i \in DOMAIN moduli
        PROVE  /\ rows'[i] \in 0..(R - 1)
               /\ \E q \in Moduli, n \in {Len(Q), Len(P)} : R * rows'[i] < moduli[i] * (2 * R + n * q)
    <2> DEFINE m == moduli[i]
               x == rows[i]
    <2>1. m \in 1..(R - 1) /\ 2 * m <= R /\ bredParams[m] = BRedParams(m) /\ x \in 0..(R - 1)
      BY <1>2, Reducible
    <2>2. rows'[i] = BRedAdd(x, m, bredParams[m])
      BY <1>3
    <2> HIDE DEF m, x
    <2>3. rows'[i] = x % m
      BY <2>1, <2>2, BarrettReduction
    <2>4. rows'[i] \in 0..m
      BY <2>1, <2>3
    <2>5. Near(rows'[i], m)
      BY <2>1, <2>4, SmallIsNear
    <2>6. QED
      BY <2>5 DEF Near, m
  <1>5. TypeOK'
    BY <1>2, <1>3, <1>4 DEF TypeOK
  <1>6. RowsFit'
    BY <1>2, <1>3, <1>4 DEF RowsFit
  <1>7. DigitBasis'
    BY <1>1, <1>2 DEF DigitBasis, IInv
  <1>8. QED
    BY <1>5, <1>6, <1>7 DEF IInv

\* A row left below twice its modulus is near it.
LEMMA LeaveLazyFits == IInv /\ LeaveLazy => IInv'
  <1>1. SUFFICES ASSUME IInv, LeaveLazy PROVE IInv'
    OBVIOUS
  <1>2. moduli' = moduli /\ op' = op /\ moduli \in Bases /\ rows \in [DOMAIN moduli -> 0..(R - 1)]
    BY <1>1 DEF LeaveLazy, IInv, TypeOK
  <1> DEFINE S == [i \in DOMAIN rows |-> {y \in 0..(2 * moduli[i] - 1) : y % moduli[i] = rows[i]}]
  <1>3. rows' \in OneOfEach(S)
    BY <1>1 DEF LeaveLazy
  <1>4. /\ DOMAIN rows = DOMAIN moduli /\ rows' = [i \in DOMAIN moduli |-> rows'[i]]
        /\ \A i \in DOMAIN moduli : rows'[i] \in 0..(2 * moduli[i] - 1)
    BY <1>2, <1>3 DEF OneOfEach
  <1>5. ASSUME NEW i \in DOMAIN moduli
        PROVE  /\ rows'[i] \in 0..(R - 1)
               /\ \E q \in Moduli, n \in {Len(Q), Len(P)} : R * rows'[i] < moduli[i] * (2 * R + n * q)
    <2> DEFINE m == moduli[i]
               x == rows'[i]
    <2>1. m \in 1..(R - 1) /\ 2 * m <= R
      BY <1>2, Reducible
    <2>2. x \in 0..(2 * m - 1)
      BY <1>4
    <2> HIDE DEF m, x
    <2>3. Near(x, m)
      BY <2>1, <2>2, LazyIsNear
    <2>4. QED
      BY <2>3 DEF Near, m, x
  <1>6. TypeOK'
    BY <1>2, <1>4, <1>5 DEF TypeOK
  <1>7. RowsFit'
    BY <1>2, <1>4, <1>5 DEF RowsFit
  <1>8. DigitBasis'
    BY <1>1, <1>2 DEF DigitBasis, IInv
  <1>9. QED
    BY <1>6, <1>7, <1>8 DEF IInv

\* Extending a level of Q to P: the rows of Q stay, and no digit is among them.
LEMMA ModUpSplitQPFits == IInv /\ ModUpSplitQP => IInv'
  <1>1. SUFFICES ASSUME IInv, ModUpSplitQP PROVE IInv'
    OBVIOUS
  <1>2. PICK l \in 1..Len(Q) : moduli = Level(l)
    BY <1>1, RnsAssumption, Rings DEF ModUpSplitQP
  <1>3. PICK p \in modUpExact(rows, Len(P), paramsQP) : Become(<< "Convert" >>, moduli \o P, rows \o p)
    BY <1>1 DEF ModUpSplitQP
  <1> DEFINE n == Len(P)
             m == moduli \o P
             x == rows \o p
  <1>4. /\ DOMAIN moduli = 1..l /\ l \in Nat /\ n \in Nat /\ Len(Q) \in Nat
        /\ \A i \in 1..l : moduli[i] = Q[i]
    BY <1>2, Levels, Rings DEF Basis
  <1>5. /\ rows \in [1..l -> 0..(R - 1)] /\ Len(rows) = l
    BY <1>1, <1>4, RowsAre
  <1>6. p \in [1..n -> 0..(R - 1)] /\ \A j \in 1..n : Near(p[j], P[j])
    <2>1. n \in 0..Len(P)
      BY <1>4
    <2>2. Source(Q) /\ Basis(P)
      BY RingBases, Rings
    <2>3. p \in modUpExact(rows, n, basisextenderparameters(Q, P))
      BY <1>3 DEF paramsQP
    <2> HIDE DEF n
    <2>4. QED
      BY <1>2, <1>5, <2>1, <2>2, <2>3, ExtensionNear
  <1>7. /\ m \in Bases /\ DOMAIN m = 1..(l + n)
        /\ \A i \in 1..l : m[i] = Q[i]
        /\ \A j \in 1..n : m[l + j] = P[j]
    BY <1>2, ExtendedLevel
  <1>8. \A i \in 1..l : Near(rows[i], Q[i])
    <2>1. op[1] # "Digit"
      BY <1>1, <1>2, LevelsDiffer DEF IInv, DigitBasis
    <2>2. \A i \in DOMAIN rows : \E q \in Moduli, k \in {Len(Q), Len(P)} :
              R * rows[i] < moduli[i] * (2 * R + k * q)
      BY <1>1, <2>1 DEF IInv, RowsFit
    <2>3. QED
      BY <1>4, <1>5, <2>2 DEF Near
  <1>9. /\ x \in [1..(l + n) -> 0..(R - 1)]
        /\ \A i \in 1..l : x[i] = rows[i]
        /\ \A j \in 1..n : x[l + j] = p[j]
    <2> DEFINE S == 0..(R - 1)
    <2> HIDE DEF n
    <2>1. rows \in [1..l -> S] /\ p \in [1..n -> S]
      BY <1>5, <1>6
    <2> HIDE DEF S
    <2>2. Joins(rows, l, p, n, S)
      BY <1>4, <2>1, Joined
    <2>3. QED
      BY <2>2 DEF S, Joins
  <1>10. \A i \in 1..(l + n) : Near(x[i], m[i])
    <2>1. ASSUME NEW k \in 1..(l + n) PROVE k \in 1..l \/ \E j \in 1..n : k = l + j
      <3>1. CASE k <= l
        BY <1>4, <3>1
      <3>2. CASE ~(k <= l)
        <4>1. k - l \in 1..n /\ k = l + (k - l)
          BY <1>4, <3>2
        <4>2. QED
          BY <4>1
      <3>3. QED
        BY <3>1, <3>2
    <2> HIDE DEF x, m
    <2>2. ASSUME NEW k \in 1..(l + n) PROVE Near(x[k], m[k])
      <3>1. CASE k \in 1..l
        BY <1>7, <1>8, <1>9, <3>1
      <3>2. CASE k \notin 1..l
        <4>1. PICK j \in 1..n : k = l + j
          BY <2>1, <3>2
        <4>2. QED
          BY <1>6, <1>7, <1>9, <4>1
      <3>3. QED
        BY <3>1, <3>2
    <2>3. QED
      BY <2>2
  <1>11. l + n \in Nat /\ << "Convert" >>[1] # "Digit"
    BY <1>4
  <1> HIDE DEF x, m, n
  <1>12. Become(<< "Convert" >>, m, x)
    BY <1>3 DEF x, m
  <1>13. QED
    BY <1>7, <1>9, <1>10, <1>11, <1>12, Fits

\* Extending P to all of Q.
LEMMA ModUpSplitPQFits == IInv /\ ModUpSplitPQ => IInv'
  <1>1. SUFFICES ASSUME IInv, ModUpSplitPQ PROVE IInv'
    OBVIOUS
  <1>2. PICK z \in modUpExact(rows, Len(Q), basisextenderparameters(P, Q)) : Become(<< "Convert" >>, Q, z)
    BY <1>1 DEF ModUpSplitPQ, paramsPQ
  <1>3. DOMAIN moduli = 1..Len(P) /\ Len(P) \in Nat /\ Len(P) > 0 /\ Len(P) \in 1..Len(P)
    BY <1>1, Rings DEF ModUpSplitPQ, Basis
  <1>4. rows \in [1..Len(P) -> 0..(R - 1)]
    BY <1>1, <1>3, RowsAre
  <1>5. Len(Q) \in Nat /\ Len(Q) \in 0..Len(Q) /\ Source(P) /\ Basis(Q) /\ Q \in Bases /\ DOMAIN Q = 1..Len(Q)
    BY Rings, RingBases DEF Basis
  <1>6. z \in [1..Len(Q) -> 0..(R - 1)] /\ \A j \in 1..Len(Q) : Near(z[j], Q[j])
    BY <1>2, <1>3, <1>4, <1>5, ExtensionNear
  <1>7. << "Convert" >>[1] # "Digit"
    OBVIOUS
  <1>8. QED
    BY <1>2, <1>5, <1>6, <1>7, Fits

\* The m elements of x from the i-th to the j-th.
Part(x, i, j, m, S) ==
    /\ SubSeq(x, i, j) \in [1..m -> S]
    /\ \A k \in 1..m : SubSeq(x, i, j)[k] = x[(i + k) - 1]

\* It has its elements among those of x.
LEMMA Parts ==
    ASSUME NEW S, NEW n \in Nat, NEW x \in [1..n -> S], NEW i \in 1..n, NEW j \in i..n,
           NEW m \in Nat, m = (j - i) + 1
    PROVE  Part(x, i, j, m, S)
  <1>1. x \in Seq(S) /\ Len(x) = n
    BY IsASequence
  <1>2. \A k \in i..j : x[k] \in S
    <2>1. \A k \in i..j : k \in 1..n
      OBVIOUS
    <2>2. QED
      BY <2>1
  <1>3. i \in Int /\ j \in Int /\ i <= j
    OBVIOUS
  <1>4. /\ SubSeq(x, i, j) \in Seq(S) /\ Len(SubSeq(x, i, j)) = (j - i) + 1
        /\ \A k \in 1..((j - i) + 1) : SubSeq(x, i, j)[k] = x[(i + k) - 1]
    BY <1>2, <1>3, SubSeqProperties
  <1> DEFINE y == SubSeq(x, i, j)
  <1>5. y \in Seq(S) /\ Len(y) = m /\ \A k \in 1..m : y[k] = x[(i + k) - 1]
    BY <1>4
  <1>6. y \in [1..m -> S]
    <2> HIDE DEF y
    <2> QED
      BY <1>5
  <1>7. QED
    BY <1>5, <1>6 DEF Part

\* The rows of a polynomial over l moduli of Q and those of P.
LEMMA Halves ==
    ASSUME IInv, NEW l \in 1..Len(Q), moduli = Level(l) \o P
    PROVE  /\ rows \in [1..(l + Len(P)) -> 0..(R - 1)] /\ Len(rows) = l + Len(P)
           /\ LastRows(Len(P)) \in [1..Len(P) -> 0..(R - 1)]
           /\ \A j \in 1..Len(P) : LastRows(Len(P))[j] = rows[l + j]
           /\ KeptRows(l) \in [1..l -> 0..(R - 1)]
           /\ \A i \in 1..l : rows[i] \in Int
  <1> DEFINE n == Len(P)
             S == 0..(R - 1)
  <1>1. l \in Nat /\ l > 0 /\ n \in Nat /\ n > 0 /\ l + n \in Nat /\ DOMAIN moduli = 1..(l + n)
    BY ExtendedLevel, Rings, SMTT(30) DEF Basis
  <1>2. rows \in [1..(l + n) -> 0..(R - 1)] /\ Len(rows) = l + n /\ \A i \in 1..(l + n) : rows[i] \in 0..(R - 1)
    BY <1>1, RowsAre
  <1>3. SubSeq(rows, (Len(rows) - n) + 1, Len(rows)) = LastRows(n) /\ SubSeq(rows, 1, l) = KeptRows(l)
        /\ (Len(rows) - n) + 1 = l + 1
    BY <1>1, <1>2 DEF LastRows, KeptRows
  <1> HIDE DEF n, S
  <1>4. LastRows(n) = SubSeq(rows, l + 1, l + n)
    BY <1>2, <1>3
  <1>5. rows \in [1..(l + n) -> S]
    BY <1>2 DEF S
  <1>6. Part(rows, l + 1, l + n, n, S)
    <2>1. l + 1 \in 1..(l + n) /\ l + n \in (l + 1)..(l + n) /\ n = ((l + n) - (l + 1)) + 1
      BY <1>1
    <2>2. QED
      BY <1>1, <1>5, <2>1, Parts
  <1>7. Part(rows, 1, l, l, S)
    <2>1. 1 \in 1..(l + n) /\ l \in 1..(l + n) /\ l = (l - 1) + 1
      BY <1>1
    <2>2. QED
      BY <1>1, <1>5, <2>1, Parts
  <1>8. \A j \in 1..n : ((l + 1) + j) - 1 = l + j
    BY <1>1
  <1>9. \A i \in 1..l : rows[i] \in Int
    BY <1>1, <1>2
  <1>10. LastRows(n) \in [1..n -> S] /\ \A j \in 1..n : LastRows(n)[j] = rows[l + j]
    BY <1>4, <1>6, <1>8 DEF Part
  <1>11. KeptRows(l) \in [1..l -> S]
    BY <1>3, <1>7 DEF Part
  <1>12. QED
    BY <1>2, <1>9, <1>10, <1>11 DEF n, S

\* Dividing by P: what the extension of its rows leaves is congruent to the
\* remainder, and a Montgomery product takes the difference.
LEMMA ModDownPQFits == IInv /\ ModDownPQ => IInv'
  <1>1. SUFFICES ASSUME IInv, ModDownPQ PROVE IInv'
    OBVIOUS
  <1>2. PICK n \in 1..Len(Q) :
            /\ moduli = Level(n) \o P
            /\ \E y \in modUpExact(LastRows(Len(P)), n, paramsPQ) :
                   Quotients(<< "ModDown" >>, [i \in 1..n |-> {y[i]}], modDownParamsPQ, Level(n))
    BY <1>1, Rings DEF ModDownPQ
  <1>3. PICK y \in modUpExact(LastRows(Len(P)), n, basisextenderparameters(P, Q)) :
            Quotients(<< "ModDown" >>, [i \in 1..n |-> {y[i]}], modDownParamsPQ, Level(n))
    BY <1>2 DEF paramsPQ
  <1>4. /\ Len(P) \in 1..Len(P) /\ Source(P) /\ Basis(Q) /\ n \in 0..Len(Q)
        /\ LastRows(Len(P)) \in [1..Len(P) -> 0..(R - 1)]
        /\ \A i \in 1..n : rows[i] \in Int
    <2>1. Len(P) \in Nat /\ Len(P) > 0 /\ Len(Q) \in Nat
      BY Rings DEF Basis
    <2>2. /\ LastRows(Len(P)) \in [1..Len(P) -> 0..(R - 1)]
          /\ \A i \in 1..n : rows[i] \in Int
      BY <1>1, <1>2, Halves
    <2>3. Source(P) /\ Basis(Q)
      BY Rings, RingBases
    <2>4. QED
      BY <2>1, <2>2, <2>3
  <1>5. y \in [1..n -> 0..(R - 1)]
    BY <1>3, <1>4, ExtensionNear
  <1>6. \A i \in 1..Len(Q) : modDownParamsPQ[i] \in 0..(Q[i] - 1)
    <2>1. Product(P) \in Nat
      BY BasisProduct, Rings
    <2>2. QED
      BY <2>1, DownParams, Rings DEF modDownParamsPQ
  <1>7. /\ Level(n) \in Bases /\ Basis(Level(n)) /\ Len(Level(n)) = n
        /\ \A i \in 1..n : Level(n)[i] = Q[i]
    BY Levels
  <1> DEFINE m == Level(n)
             ys == [i \in 1..n |-> {y[i]}]
  <1>8. ASSUME NEW i \in 1..Len(m)
        PROVE  modDownParamsPQ[i] \in 0..m[i] /\ ys[i] \subseteq Int /\ rows[i] \in Int
    <2>1. i \in 1..n /\ i \in 1..Len(Q) /\ m[i] = Q[i]
      BY <1>7, Rings DEF Basis
    <2>2. y[i] \in Int
      BY <1>5, <2>1
    <2>3. Q[i] \in Nat
      BY <2>1, Rings DEF Basis, Sound
    <2> HIDE DEF m
    <2>4. modDownParamsPQ[i] \in 0..m[i]
      BY <1>6, <2>1, <2>3
    <2>5. QED
      BY <1>4, <2>1, <2>2, <2>4
  <1>9. << "ModDown" >>[1] # "Digit"
    OBVIOUS
  <1>10. m \in Bases /\ Basis(m) /\ Quotients(<< "ModDown" >>, ys, modDownParamsPQ, m)
    BY <1>3, <1>7
  <1> HIDE DEF m, ys
  <1>11. QED
    BY <1>8, <1>9, <1>10, QuotientsFit

\* The lazy transforms take and return integers.
LEMMA LazyAreInt ==
    ASSUME NEW q \in Nat \ {0}, 2 * q <= R
    PROVE  /\ \A x : NTTLazy(x, q) \subseteq Int
           /\ \A x : InvNTTLazy(x, q) \subseteq 0..(R - 1)
  <1>1. \A x : NTTLazy(x, q) \subseteq Int
    BY RAssumption DEF NTTLazy
  <1>2. \A x : InvNTTLazy(x, q) \subseteq 0..(R - 1)
    BY RAssumption DEF InvNTTLazy
  <1>3. QED
    BY <1>1, <1>2

\* The same in the transform domain, where words may exceed the modulus.
LEMMA ModDownNTTPQFits == IInv /\ ModDownNTTPQ => IInv'
  <1>1. SUFFICES ASSUME IInv, ModDownNTTPQ PROVE IInv'
    OBVIOUS
  <1> DEFINE n == Len(P)
             F == [j \in DOMAIN P |-> InvNTTLazy(rows[Len(Q) + j], P[j])]
  <1>2. PICK x \in OneOfEach(F) :
            \E y \in modUpExact(x, Len(Q), paramsPQ) :
                Quotients(<< "ModDown" >>, [i \in DOMAIN Q |-> NTTLazy(y[i], Q[i])], modDownParamsPQ, Q)
    BY <1>1 DEF ModDownNTTPQ
  <1>3. PICK y \in modUpExact(x, Len(Q), basisextenderparameters(P, Q)) :
            Quotients(<< "ModDown" >>, [i \in DOMAIN Q |-> NTTLazy(y[i], Q[i])], modDownParamsPQ, Q)
    BY <1>2 DEF paramsPQ
  <1>4. DOMAIN P = 1..n /\ DOMAIN Q = 1..Len(Q) /\ \A j \in 1..n : Sound(P[j])
    BY Rings DEF Basis
  <1>5. x \in [1..n -> 0..(R - 1)]
    <2>1. x \in [DOMAIN F -> UNION {F[i] : i \in DOMAIN F}] /\ \A i \in DOMAIN F : x[i] \in F[i]
      BY <1>2 DEF OneOfEach
    <2>2. DOMAIN F = 1..n /\ DOMAIN x = 1..n
      BY <1>4, <2>1
    <2>3. ASSUME NEW j \in 1..n PROVE x[j] \in 0..(R - 1)
      <3>1. x[j] \in InvNTTLazy(rows[Len(Q) + j], P[j])
        BY <1>4, <2>1, <2>2
      <3>2. P[j] \in Nat \ {0} /\ 2 * P[j] <= R
        BY <1>4, RAssumption DEF Sound
      <3>3. QED
        BY <3>1, <3>2, LazyAreInt
    <2> HIDE DEF F
    <2>4. x = [j \in 1..n |-> x[j]]
      BY <2>1, <2>2
    <2>5. QED
      BY <2>3, <2>4
  <1>6. n \in 1..Len(P) /\ Len(Q) \in 0..Len(Q) /\ Source(P) /\ Basis(Q) /\ Q \in Bases
        /\ Len(Q) \in 1..Len(Q) /\ moduli = Level(Len(Q)) \o P
    <2>1. n \in Nat /\ n > 0 /\ Len(Q) \in Nat
      BY Rings DEF Basis
    <2>2. moduli = Q \o P /\ Q = Level(Len(Q))
      BY <1>1, RingBases DEF ModDownNTTPQ
    <2>3. QED
      BY <2>1, <2>2, Rings, RingBases
  <1>7. \A i \in 1..Len(Q) : rows[i] \in Int
    BY <1>1, <1>6, Halves
  <1>8. \A i \in 1..Len(Q) : modDownParamsPQ[i] \in 0..Q[i]
    <2>1. Product(P) \in Nat
      BY BasisProduct, Rings
    <2>2. \A i \in 1..Len(Q) : modDownParamsPQ[i] \in 0..(Q[i] - 1)
      BY <2>1, DownParams, Rings DEF modDownParamsPQ
    <2>3. \A i \in 1..Len(Q) : Q[i] \in Nat
      BY Rings DEF Basis, Sound
    <2>4. QED
      BY <2>2, <2>3
  <1> DEFINE ys == [i \in DOMAIN Q |-> NTTLazy(y[i], Q[i])]
  <1>9. \A i \in 1..Len(Q) : ys[i] \subseteq Int
    <2>1. ASSUME NEW i \in 1..Len(Q) PROVE ys[i] \subseteq Int
      <3>1. Sound(Q[i]) /\ ys[i] = NTTLazy(y[i], Q[i])
        BY <1>4, Rings DEF Basis
      <3>2. Q[i] \in Nat \ {0} /\ 2 * Q[i] <= R
        BY <3>1, RAssumption DEF Sound
      <3>3. QED
        BY <3>1, <3>2, LazyAreInt
    <2>2. QED
      BY <2>1
  <1>10. Quotients(<< "ModDown" >>, ys, modDownParamsPQ, Q)
    BY <1>3
  <1>11. << "ModDown" >>[1] # "Digit"
    OBVIOUS
  <1> HIDE DEF ys
  <1>12. QED
    BY <1>6, <1>7, <1>8, <1>9, <1>10, <1>11, QuotientsFit

\* Dividing by Q.
LEMMA ModDownSplitQPFits == IInv /\ ModDownSplitQP => IInv'
  <1>1. SUFFICES ASSUME IInv, ModDownSplitQP PROVE IInv'
    OBVIOUS
  <1> DEFINE n == Len(P)
             z(y) == [j \in DOMAIN P |-> quotient(y[j], LastRows(Len(P))[j], P[j], modDownParamsQP[j])]
  <1>2. PICK y \in modUpExact(KeptRows(Len(Q)), Len(P), basisextenderparameters(Q, P)) :
            Become(<< "ModDown" >>, P, z(y))
    BY <1>1 DEF ModDownSplitQP, paramsQP
  <1>3. n \in 0..Len(P) /\ n \in Nat /\ Len(Q) \in 1..Len(Q) /\ Source(Q) /\ Basis(P) /\ P \in Bases
        /\ moduli = Level(Len(Q)) \o P /\ DOMAIN P = 1..n
    <2>1. n \in Nat
      BY Rings DEF Basis
    <2>2. moduli = Q \o P /\ Q = Level(Len(Q))
      BY <1>1, RingBases DEF ModDownSplitQP
    <2>3. QED
      BY <2>1, <2>2, Rings, RingBases
  <1>4. KeptRows(Len(Q)) \in [1..Len(Q) -> 0..(R - 1)] /\ LastRows(n) \in [1..n -> 0..(R - 1)]
    BY <1>1, <1>3, Halves
  <1>5. y \in [1..n -> 0..(R - 1)]
    BY <1>2, <1>3, <1>4, ExtensionNear
  <1>6. \A j \in 1..n : modDownParamsQP[j] \in 0..(P[j] - 1)
    <2>1. Product(Q) \in Nat
      BY BasisProduct, Rings
    <2>2. QED
      BY <2>1, DownParams, Rings DEF modDownParamsQP
  <1> DEFINE x == z(y)
  <1>7. DOMAIN x = 1..n /\ x = [j \in 1..n |-> x[j]]
    BY <1>3
  <1>8. ASSUME NEW j \in 1..n PROVE x[j] \in 0..(P[j] - 1)
    <2>1. x[j] = quotient(y[j], LastRows(n)[j], P[j], modDownParamsQP[j])
      BY <1>3
    <2>2. Sound(P[j]) /\ y[j] \in Int /\ LastRows(n)[j] \in Int
      <3> HIDE DEF n
      <3>1. y[j] \in 0..(R - 1) /\ LastRows(n)[j] \in 0..(R - 1)
        BY <1>4, <1>5
      <3>2. Sound(P[j])
        BY <1>3 DEF Basis, n
      <3>3. QED
        BY <3>1, <3>2
    <2>3. modDownParamsQP[j] \in 0..P[j]
      BY <1>6, <2>2 DEF Sound
    <2> HIDE DEF x
    <2>4. QED
      BY <2>1, <2>2, <2>3, QuotientRange
  <1>9. << "ModDown" >>[1] # "Digit"
    OBVIOUS
  <1> HIDE DEF x
  <1>10. Become(<< "ModDown" >>, P, x)
    BY <1>2 DEF x
  <1>11. QED
    BY <1>3, <1>7, <1>8, <1>9, <1>10, FitsBelow

\* A division by the last of m moduli takes m words to m - 1 residues.
LEMMA FloorStep ==
    ASSUME NEW m \in 1..Len(Q), NEW x \in [1..m -> 0..(R - 1)]
    PROVE  /\ divFloor(x) \in [1..(m - 1) -> 0..(R - 1)]
           /\ \A i \in 1..(m - 1) : divFloor(x)[i] \in 0..(Q[i] - 1)
  <1>1. m \in Nat /\ m \in 1..m /\ Len(x) = m /\ \A i \in 1..m : i \in 1..Len(Q) /\ Sound(Q[i])
    <2>1. m \in Nat /\ m \in 1..m /\ \A i \in 1..m : i \in 1..Len(Q)
      BY Rings DEF Basis
    <2>2. QED
      BY <2>1, IsASequence, Rings DEF Basis
  <1> DEFINE z(i) == quotient(BRedAdd(x[m], Q[i], bredParams[Q[i]]), x[i], Q[i], rescaleParams(Q[m], Q[i]))
  <1>2. divFloor(x) = [i \in 1..(m - 1) |-> z(i)]
    BY <1>1 DEF divFloor
  <1>3. ASSUME NEW i \in 1..(m - 1) PROVE z(i) \in 0..(Q[i] - 1) /\ z(i) \in 0..(R - 1)
    <2> DEFINE q == Q[i]
               y == BRedAdd(x[m], q, bredParams[q])
    <2>1. i \in 1..m /\ Sound(q) /\ Sound(Q[m]) /\ x[i] \in Int /\ x[m] \in 0..(R - 1)
      BY <1>1
    <2> HIDE DEF q
    <2>2. y \in Int
      BY <2>1, ReducedRange
    <2>3. Q[m] \in 0..(R - 1)
      BY <2>1, RAssumption DEF Sound
    <2>4. rescaleParams(Q[m], q) \in 0..q
      BY <2>1, <2>3, RescaleRange
    <2> HIDE DEF y
    <2>5. quotient(y, x[i], q, rescaleParams(Q[m], q)) \in 0..(q - 1)
      BY <2>1, <2>2, <2>4, QuotientRange
    <2>6. z(i) \in 0..(q - 1)
      BY <2>5 DEF y, q
    <2> HIDE DEF z
    <2>7. q \in Nat /\ q < R
      BY <2>1, RAssumption DEF Sound
    <2>8. QED
      BY <2>6, <2>7, RAssumption DEF q
  <1> HIDE DEF z
  <1>4. QED
    BY <1>2, <1>3

\* What the rounding division adds and takes away again are integers.
LEMMA CentredAreInt ==
    /\ \A m \in 1..Len(Q) : \A x \in [1..m -> 0..(R - 1)] : Len(x) = m => centred(x) \in Int
    /\ \A k \in 1..Len(Q) : \A i \in 1..Len(Q) : uncentre(Q[k], Q[i]) \in Int
  <1>1. ASSUME NEW m \in 1..Len(Q), NEW x \in [1..m -> 0..(R - 1)], Len(x) = m
        PROVE  centred(x) \in Int
    <2>1. Sound(Q[m]) /\ x[m] \in Int
      BY Rings DEF Basis
    <2>2. Q[m] \in Nat /\ halved(Q[m]) \in Int
      BY <2>1 DEF Sound, halved
    <2>3. QED
      BY <1>1, <2>1, <2>2 DEF centred, CRed
  <1>2. ASSUME NEW k \in 1..Len(Q), NEW i \in 1..Len(Q)
        PROVE  uncentre(Q[k], Q[i]) \in Int
    <2>1. Sound(Q[k]) /\ Sound(Q[i])
      BY Rings DEF Basis
    <2> DEFINE h == halved(Q[k])
    <2>2. h \in 0..(R - 1)
      <3> DEFINE a == Q[k]
      <3>1. a \in Nat \ {0} /\ a < R /\ h = (a - 1) \div 2
        BY <2>1, RAssumption DEF Sound, halved
      <3> HIDE DEF a, h
      <3>2. QED
        BY <3>1, RAssumption
    <2> HIDE DEF h
    <2>3. BRedAdd(h, Q[i], bredParams[Q[i]]) \in 0..(Q[i] - 1) /\ Q[i] \in Nat
      BY <2>1, <2>2, ReducedRange DEF Sound
    <2>4. QED
      BY <2>3 DEF h, uncentre
  <1>3. QED
    BY <1>1, <1>2

\* So does a rounding one.
LEMMA RoundStep ==
    ASSUME NEW m \in 1..Len(Q), NEW x \in [1..m -> 0..(R - 1)]
    PROVE  /\ divRound(x) \in [1..(m - 1) -> 0..(R - 1)]
           /\ \A i \in 1..(m - 1) : divRound(x)[i] \in 0..(Q[i] - 1)
  <1>1. m \in Nat /\ m \in 1..m /\ Len(x) = m /\ \A i \in 1..m : i \in 1..Len(Q) /\ Sound(Q[i])
    <2>1. m \in Nat /\ m \in 1..m /\ \A i \in 1..m : i \in 1..Len(Q)
      BY Rings DEF Basis
    <2>2. QED
      BY <2>1, IsASequence, Rings DEF Basis
  <1> DEFINE z(i) == quotient(centred(x) + uncentre(Q[m], Q[i]), x[i], Q[i], rescaleParams(Q[m], Q[i]))
  <1>2. divRound(x) = [i \in 1..(m - 1) |-> z(i)]
    BY <1>1 DEF divRound
  <1>3. ASSUME NEW i \in 1..(m - 1) PROVE z(i) \in 0..(Q[i] - 1) /\ z(i) \in 0..(R - 1)
    <2> DEFINE q == Q[i]
               y == centred(x) + uncentre(Q[m], q)
    <2>1. i \in 1..m /\ i \in 1..Len(Q) /\ Sound(q) /\ Sound(Q[m]) /\ x[i] \in Int
      BY <1>1
    <2>2. y \in Int
      <3>1. centred(x) \in Int /\ uncentre(Q[m], q) \in Int
        BY <1>1, <2>1, CentredAreInt
      <3> HIDE DEF q
      <3>2. QED
        BY <3>1
    <2> HIDE DEF q, y
    <2>3. Q[m] \in 0..(R - 1)
      BY <2>1, RAssumption DEF Sound
    <2>4. rescaleParams(Q[m], q) \in 0..q
      BY <2>1, <2>3, RescaleRange
    <2>5. quotient(y, x[i], q, rescaleParams(Q[m], q)) \in 0..(q - 1)
      BY <2>1, <2>2, <2>4, QuotientRange
    <2>6. z(i) \in 0..(q - 1)
      BY <2>5 DEF y, q
    <2> HIDE DEF z
    <2>7. q \in Nat /\ q < R
      BY <2>1, RAssumption DEF Sound
    <2>8. QED
      BY <2>6, <2>7, RAssumption DEF q
  <1> HIDE DEF z
  <1>4. QED
    BY <1>2, <1>3

\* The run of several divisions in turn.
LEMMA ManyFloorRuns ==
    ASSUME NEW l \in 1..Len(Q), NEW n \in 1..(l - 1), NEW x \in [1..l -> 0..(R - 1)]
    PROVE  \E after : /\ Many(divFloor, x, n) = after[n] /\ after[0] = x
                      /\ \A k \in 1..n : after[k] = divFloor(after[k - 1])
  <1> DEFINE S == UNION {[1..m -> 0..(R - 1)] : m \in 0..Len(Q)}
             next(k, s) == divFloor(s)
             after[k \in 0..n] == IF k = 0 THEN x ELSE divFloor(after[k-1])
  <1>1. Many(divFloor, x, n) = after[n]
    BY DEF Many
  <1>2. n \in Nat /\ x \in S /\ l \in Nat /\ Len(Q) \in Nat /\ n < l
    <2>1. n \in Nat /\ l \in Nat /\ Len(Q) \in Nat /\ n < l /\ l \in 0..Len(Q)
      BY Rings DEF Basis
    <2>2. x \in S
      BY <2>1
    <2>3. QED
      BY <2>1, <2>2
  <1>3. \A k \in 1..n, s \in S : next(k, s) \in S
    <2>1. ASSUME NEW s \in S PROVE divFloor(s) \in S
      <3>1. PICK m \in 0..Len(Q) : s \in [1..m -> 0..(R - 1)]
        OBVIOUS
      <3>2. CASE m = 0
        <4>1. s \in [1..0 -> 0..(R - 1)] /\ 0 \in Nat
          BY <3>1, <3>2
        <4>2. Len(s) = 0
          BY <4>1, IsASequence
        <4>3. 1..(0 - 1) = 1..0
          BY <1>2
        <4>4. divFloor(s) \in [1..0 -> 0..(R - 1)]
          BY <4>2, <4>3 DEF divFloor
        <4>5. QED
          BY <1>2, <4>4
      <3>3. CASE m # 0
        <4>1. m \in 1..Len(Q) /\ m - 1 \in 0..Len(Q)
          BY <1>2, <3>3
        <4>2. divFloor(s) \in [1..(m - 1) -> 0..(R - 1)]
          BY <3>1, <4>1, FloorStep
        <4>3. QED
          BY <4>1, <4>2
      <3>4. QED
        BY <3>2, <3>3
    <2>2. QED
      BY <2>1
  <1>4. after = [k \in 0..n |-> IF k = 0 THEN x ELSE next(k, after[k-1])]
    <2> DEFINE g == [k \in 1..n |-> [s \in S |-> next(k, s)]]
    <2>1. g \in [1..n -> [S -> S]]
      BY <1>2, <1>3
    <2> HIDE DEF g, S, after
    <2>2. PICK f \in [0..n -> S] : Follows(f, n, x, g)
      BY <1>2, <1>3, <2>1, Recursion, Zenon
    <2>3. ASSUME NEW k \in 1..n PROVE f[k] = next(k, f[k - 1])
      <3>1. k - 1 \in 0..n
        BY <1>2, <1>3
      <3>2. f[k - 1] \in S /\ f[k] = g[k][f[k - 1]]
        BY <2>2, <3>1 DEF Follows
      <3>3. \A s \in S : g[k][s] = next(k, s)
        BY Zenon DEF g
      <3>4. QED
        BY <3>2, <3>3, Zenon
    <2>4. f = [k \in 0..n |-> IF k = 0 THEN x ELSE next(k, f[k-1])]
      <3>1. \A k \in 0..n : k # 0 => k \in 1..n
        BY <1>2, <1>3
      <3>2. f[0] = x /\ f = [k \in 0..n |-> f[k]]
        BY <2>2 DEF Follows
      <3> HIDE DEF next
      <3>3. \A k \in 0..n : f[k] = IF k = 0 THEN x ELSE next(k, f[k-1])
        BY <2>3, <3>1, <3>2
      <3>4. QED
        BY <3>2, <3>3, Zenon
    <2>5. QED
      BY <2>4 DEF after
  <1> HIDE DEF after
  <1>5. \A k \in 1..n : after[k] = divFloor(after[k-1])
    <2>1. \A k \in 1..n : k \in 0..n /\ k # 0
      BY <1>2
    <2>2. QED
      BY <1>4, <2>1
  <1>6. after[0] = x
    <2>1. 0 \in 0..n
      BY <1>2
    <2>2. QED
      BY <1>4, <2>1
  <1>7. QED
    BY <1>1, <1>5, <1>6, Zenon

\* Several divisions in turn.
LEMMA ManyFloorStep ==
    ASSUME NEW l \in 1..Len(Q), NEW n \in 1..(l - 1), NEW x \in [1..l -> 0..(R - 1)]
    PROVE  /\ Many(divFloor, x, n) \in [1..(l - n) -> 0..(R - 1)]
           /\ \A i \in 1..(l - n) : Many(divFloor, x, n)[i] \in 0..(Q[i] - 1)
  <1>1. PICK after : /\ Many(divFloor, x, n) = after[n] /\ after[0] = x
                    /\ \A k \in 1..n : after[k] = divFloor(after[k - 1])
    BY ManyFloorRuns, Zenon
  <1>2. n \in Nat /\ l \in Nat /\ Len(Q) \in Nat /\ n < l
    BY Rings DEF Basis
  <1> DEFINE H == {k \in 0..n : after[k] \in [1..(l - k) -> 0..(R - 1)]}
  <1>7. 0 \in H
    <2>1. l - 0 = l /\ 0 \in 0..n
      BY <1>2
    <2>2. QED
      BY <1>1, <2>1
  <1>8. ASSUME NEW k \in 1..n, k - 1 \in H
        PROVE  /\ k \in H
               /\ \A i \in 1..(l - k) : after[k][i] \in 0..(Q[i] - 1)
    <2> DEFINE m == l - (k - 1)
               y == after[k - 1]
    <2>1. y \in [1..m -> 0..(R - 1)] /\ m \in 1..Len(Q) /\ k \in 0..n /\ m - 1 = l - k
      BY <1>2, <1>8
    <2>2. after[k] = divFloor(y)
      BY <1>1
    <2> HIDE DEF m, y, H
    <2>3. /\ divFloor(y) \in [1..(m - 1) -> 0..(R - 1)]
          /\ \A i \in 1..(m - 1) : divFloor(y)[i] \in 0..(Q[i] - 1)
      BY <2>1, FloorStep
    <2> DEFINE z == divFloor(y)
    <2> HIDE DEF z
    <2>4. /\ z \in [1..(m - 1) -> 0..(R - 1)]
          /\ \A i \in 1..(m - 1) : z[i] \in 0..(Q[i] - 1)
      BY <2>3 DEF z
    <2>5. after[k] = z
      BY <2>2 DEF z
    <2>6. QED
      BY <2>1, <2>4, <2>5 DEF H
  <1> HIDE DEF H
  <1>9. \A k \in 0..n : k \in H
    <2>1. \A k \in 1..n : k - 1 \in H => k \in H
      BY <1>8
    <2>2. QED
      BY <1>2, <1>7, <2>1, Induction
  <1>10. n \in 0..n /\ n \in 1..n /\ n - 1 \in 0..n
    BY <1>2
  <1>11. \A i \in 1..(l - n) : after[n][i] \in 0..(Q[i] - 1)
    BY <1>8, <1>9, <1>10
  <1>12. after[n] \in [1..(l - n) -> 0..(R - 1)]
    BY <1>9, <1>10 DEF H
  <1>13. QED
    BY <1>1, <1>11, <1>12

\* The run of several rounding divisions in turn.
LEMMA ManyRoundRuns ==
    ASSUME NEW l \in 1..Len(Q), NEW n \in 1..(l - 1), NEW x \in [1..l -> 0..(R - 1)]
    PROVE  \E after : /\ Many(divRound, x, n) = after[n] /\ after[0] = x
                      /\ \A k \in 1..n : after[k] = divRound(after[k - 1])
  <1> DEFINE S == UNION {[1..m -> 0..(R - 1)] : m \in 0..Len(Q)}
             next(k, s) == divRound(s)
             after[k \in 0..n] == IF k = 0 THEN x ELSE divRound(after[k-1])
  <1>1. Many(divRound, x, n) = after[n]
    BY DEF Many
  <1>2. n \in Nat /\ x \in S /\ l \in Nat /\ Len(Q) \in Nat /\ n < l
    <2>1. n \in Nat /\ l \in Nat /\ Len(Q) \in Nat /\ n < l /\ l \in 0..Len(Q)
      BY Rings DEF Basis
    <2>2. x \in S
      BY <2>1
    <2>3. QED
      BY <2>1, <2>2
  <1>3. \A k \in 1..n, s \in S : next(k, s) \in S
    <2>1. ASSUME NEW s \in S PROVE divRound(s) \in S
      <3>1. PICK m \in 0..Len(Q) : s \in [1..m -> 0..(R - 1)]
        OBVIOUS
      <3>2. CASE m = 0
        <4>1. s \in [1..0 -> 0..(R - 1)] /\ 0 \in Nat
          BY <3>1, <3>2
        <4>2. Len(s) = 0
          BY <4>1, IsASequence
        <4>3. 1..(0 - 1) = 1..0
          BY <1>2
        <4>4. divRound(s) \in [1..0 -> 0..(R - 1)]
          BY <4>2, <4>3 DEF divRound
        <4>5. QED
          BY <1>2, <4>4
      <3>3. CASE m # 0
        <4>1. m \in 1..Len(Q) /\ m - 1 \in 0..Len(Q)
          BY <1>2, <3>3
        <4>2. divRound(s) \in [1..(m - 1) -> 0..(R - 1)]
          BY <3>1, <4>1, RoundStep
        <4>3. QED
          BY <4>1, <4>2
      <3>4. QED
        BY <3>2, <3>3
    <2>2. QED
      BY <2>1
  <1>4. after = [k \in 0..n |-> IF k = 0 THEN x ELSE next(k, after[k-1])]
    <2> DEFINE g == [k \in 1..n |-> [s \in S |-> next(k, s)]]
    <2>1. g \in [1..n -> [S -> S]]
      BY <1>2, <1>3
    <2> HIDE DEF g, S, after
    <2>2. PICK f \in [0..n -> S] : Follows(f, n, x, g)
      BY <1>2, <1>3, <2>1, Recursion, Zenon
    <2>3. ASSUME NEW k \in 1..n PROVE f[k] = next(k, f[k - 1])
      <3>1. k - 1 \in 0..n
        BY <1>2, <1>3
      <3>2. f[k - 1] \in S /\ f[k] = g[k][f[k - 1]]
        BY <2>2, <3>1 DEF Follows
      <3>3. \A s \in S : g[k][s] = next(k, s)
        BY Zenon DEF g
      <3>4. QED
        BY <3>2, <3>3, Zenon
    <2>4. f = [k \in 0..n |-> IF k = 0 THEN x ELSE next(k, f[k-1])]
      <3>1. \A k \in 0..n : k # 0 => k \in 1..n
        BY <1>2, <1>3
      <3>2. f[0] = x /\ f = [k \in 0..n |-> f[k]]
        BY <2>2 DEF Follows
      <3> HIDE DEF next
      <3>3. \A k \in 0..n : f[k] = IF k = 0 THEN x ELSE next(k, f[k-1])
        BY <2>3, <3>1, <3>2
      <3>4. QED
        BY <3>2, <3>3, Zenon
    <2>5. QED
      BY <2>4 DEF after
  <1> HIDE DEF after
  <1>5. \A k \in 1..n : after[k] = divRound(after[k-1])
    <2>1. \A k \in 1..n : k \in 0..n /\ k # 0
      BY <1>2
    <2>2. QED
      BY <1>4, <2>1
  <1>6. after[0] = x
    <2>1. 0 \in 0..n
      BY <1>2
    <2>2. QED
      BY <1>4, <2>1
  <1>7. QED
    BY <1>1, <1>5, <1>6, Zenon

\* And several rounding ones.
LEMMA ManyRoundStep ==
    ASSUME NEW l \in 1..Len(Q), NEW n \in 1..(l - 1), NEW x \in [1..l -> 0..(R - 1)]
    PROVE  /\ Many(divRound, x, n) \in [1..(l - n) -> 0..(R - 1)]
           /\ \A i \in 1..(l - n) : Many(divRound, x, n)[i] \in 0..(Q[i] - 1)
  <1>1. PICK after : /\ Many(divRound, x, n) = after[n] /\ after[0] = x
                    /\ \A k \in 1..n : after[k] = divRound(after[k - 1])
    BY ManyRoundRuns, Zenon
  <1>2. n \in Nat /\ l \in Nat /\ Len(Q) \in Nat /\ n < l
    BY Rings DEF Basis
  <1> DEFINE H == {k \in 0..n : after[k] \in [1..(l - k) -> 0..(R - 1)]}
  <1>7. 0 \in H
    <2>1. l - 0 = l /\ 0 \in 0..n
      BY <1>2
    <2>2. QED
      BY <1>1, <2>1
  <1>8. ASSUME NEW k \in 1..n, k - 1 \in H
        PROVE  /\ k \in H
               /\ \A i \in 1..(l - k) : after[k][i] \in 0..(Q[i] - 1)
    <2> DEFINE m == l - (k - 1)
               y == after[k - 1]
    <2>1. y \in [1..m -> 0..(R - 1)] /\ m \in 1..Len(Q) /\ k \in 0..n /\ m - 1 = l - k
      BY <1>2, <1>8
    <2>2. after[k] = divRound(y)
      BY <1>1
    <2> HIDE DEF m, y, H
    <2>3. /\ divRound(y) \in [1..(m - 1) -> 0..(R - 1)]
          /\ \A i \in 1..(m - 1) : divRound(y)[i] \in 0..(Q[i] - 1)
      BY <2>1, RoundStep
    <2> DEFINE z == divRound(y)
    <2> HIDE DEF z
    <2>4. /\ z \in [1..(m - 1) -> 0..(R - 1)]
          /\ \A i \in 1..(m - 1) : z[i] \in 0..(Q[i] - 1)
      BY <2>3 DEF z
    <2>5. after[k] = z
      BY <2>2 DEF z
    <2>6. QED
      BY <2>1, <2>4, <2>5 DEF H
  <1> HIDE DEF H
  <1>9. \A k \in 0..n : k \in H
    <2>1. \A k \in 1..n : k - 1 \in H => k \in H
      BY <1>8
    <2>2. QED
      BY <1>2, <1>7, <2>1, Induction
  <1>10. n \in 0..n /\ n \in 1..n /\ n - 1 \in 0..n
    BY <1>2
  <1>11. \A i \in 1..(l - n) : after[n][i] \in 0..(Q[i] - 1)
    BY <1>8, <1>9, <1>10
  <1>12. after[n] \in [1..(l - n) -> 0..(R - 1)]
    BY <1>9, <1>10 DEF H
  <1>13. QED
    BY <1>1, <1>11, <1>12

\* Each of several divisions leaves residues to the next.
LEMMA DivFloorByLastModulusManyFits == IInv /\ DivFloorByLastModulusMany => IInv'
  <1>1. SUFFICES ASSUME IInv, DivFloorByLastModulusMany PROVE IInv'
    OBVIOUS
  <1>2. PICK n \in 1..(Len(rows) - 1) :
            /\ Leveled /\ Canonical(Len(rows))
            /\ Become(<< "DivFloor" >>, Level(Len(rows) - n), Many(divFloor, rows, n))
    BY <1>1 DEF DivFloorByLastModulusMany
  <1>3. PICK l \in 2..Len(Q) : moduli = Level(l)
    BY <1>2 DEF Leveled
  <1>4. l \in 1..Len(Q) /\ l \in Nat
    BY Rings DEF Basis
  <1>5. rows \in [1..l -> 0..(R - 1)] /\ Len(rows) = l
    BY <1>1, <1>3, <1>4, Levels, RowsAre
  <1> DEFINE k == l - n
             x == Many(divFloor, rows, n)
  <1>6. n \in 1..(l - 1) /\ k \in 1..Len(Q) /\ k \in Nat
    BY <1>4, <1>5, Rings DEF Basis
  <1>7. x \in [1..k -> 0..(R - 1)] /\ \A i \in 1..k : x[i] \in 0..(Q[i] - 1)
    BY <1>4, <1>5, <1>6, ManyFloorStep
  <1>8. Become(<< "DivFloor" >>, Level(k), x)
    BY <1>2, <1>5
  <1> HIDE DEF k, x
  <1>9. /\ Level(k) \in Bases /\ Basis(Level(k)) /\ DOMAIN Level(k) = 1..k
        /\ \A i \in 1..k : Level(k)[i] = Q[i]
    BY <1>6, Levels
  <1>10. DOMAIN x = 1..k /\ x = [i \in 1..k |-> x[i]] /\ << "DivFloor" >>[1] # "Digit"
    BY <1>7
  <1>11. \A i \in 1..k : x[i] \in 0..(Level(k)[i] - 1)
    BY <1>7, <1>9
  <1>12. QED
    BY <1>6, <1>8, <1>9, <1>10, <1>11, FitsBelow

\* So does each of several rounding ones.
LEMMA DivRoundByLastModulusManyFits == IInv /\ DivRoundByLastModulusMany => IInv'
  <1>1. SUFFICES ASSUME IInv, DivRoundByLastModulusMany PROVE IInv'
    OBVIOUS
  <1>2. PICK n \in 1..(Len(rows) - 1) :
            /\ Leveled /\ Canonical(Len(rows))
            /\ Become(<< "DivRound" >>, Level(Len(rows) - n), Many(divRound, rows, n))
    BY <1>1 DEF DivRoundByLastModulusMany
  <1>3. PICK l \in 2..Len(Q) : moduli = Level(l)
    BY <1>2 DEF Leveled
  <1>4. l \in 1..Len(Q) /\ l \in Nat
    BY Rings DEF Basis
  <1>5. rows \in [1..l -> 0..(R - 1)] /\ Len(rows) = l
    BY <1>1, <1>3, <1>4, Levels, RowsAre
  <1> DEFINE k == l - n
             x == Many(divRound, rows, n)
  <1>6. n \in 1..(l - 1) /\ k \in 1..Len(Q) /\ k \in Nat
    BY <1>4, <1>5, Rings DEF Basis
  <1>7. x \in [1..k -> 0..(R - 1)] /\ \A i \in 1..k : x[i] \in 0..(Q[i] - 1)
    BY <1>4, <1>5, <1>6, ManyRoundStep
  <1>8. Become(<< "DivRound" >>, Level(k), x)
    BY <1>2, <1>5
  <1> HIDE DEF k, x
  <1>9. /\ Level(k) \in Bases /\ Basis(Level(k)) /\ DOMAIN Level(k) = 1..k
        /\ \A i \in 1..k : Level(k)[i] = Q[i]
    BY <1>6, Levels
  <1>10. DOMAIN x = 1..k /\ x = [i \in 1..k |-> x[i]] /\ << "DivRound" >>[1] # "Digit"
    BY <1>7
  <1>11. \A i \in 1..k : x[i] \in 0..(Level(k)[i] - 1)
    BY <1>7, <1>9
  <1>12. QED
    BY <1>6, <1>8, <1>9, <1>10, <1>11, FitsBelow

\* A polynomial of l rows without its last one.
LEMMA OneShorter ==
    ASSUME NEW l \in 2..Len(Q)
    PROVE  /\ Shorter(Level(l)) = Level(l - 1) /\ l - 1 \in 1..Len(Q) /\ l \in 1..Len(Q)
           /\ Level(l)[Len(Level(l))] = Q[l]
  <1>1. l \in 1..Len(Q) /\ l - 1 \in 1..Len(Q) /\ l \in 1..l
    BY Rings DEF Basis
  <1>2. Len(Level(l)) = l /\ Level(l)[l] = Q[l]
    BY <1>1, Levels
  <1> DEFINE A == SubSeq(Level(l), 1, l - 1)
             B == SubSeq(Q, 1, l - 1)
  <1>3. Shorter(Level(l)) = A /\ Level(l - 1) = B
    BY <1>2 DEF Shorter, Level
  <1>4. Part(Level(l), 1, l - 1, l - 1, Nat)
    <2>1. Level(l) \in [1..l -> Nat]
      <3>1. Level(l) \in Seq(Nat) /\ Len(Level(l)) = l
        BY <1>1, Levels DEF Basis
      <3>2. QED
        BY <3>1
    <2>2. l \in Nat /\ 1 \in 1..l /\ l - 1 \in 1..l /\ l - 1 \in Nat /\ l - 1 = ((l - 1) - 1) + 1
      BY <1>1
    <2>3. QED
      BY <2>1, <2>2, Parts
  <1>5. B \in [1..(l - 1) -> Nat] /\ \A i \in 1..(l - 1) : B[i] = Q[i]
    <2>1. /\ Level(l - 1) \in Seq(Nat) /\ Len(Level(l - 1)) = l - 1
          /\ \A i \in 1..(l - 1) : Level(l - 1)[i] = Q[i]
      BY <1>1, Levels DEF Basis
    <2>2. Level(l - 1) \in [1..(l - 1) -> Nat]
      <3> DEFINE C == Level(l - 1)
      <3>1. C \in Seq(Nat) /\ Len(C) = l - 1
        BY <2>1
      <3> HIDE DEF C
      <3>2. C \in [1..(l - 1) -> Nat]
        BY <3>1
      <3>3. QED
        BY <3>2 DEF C
    <2> HIDE DEF B
    <2>3. QED
      BY <1>3, <2>1, <2>2
  <1>6. A \in [1..(l - 1) -> Nat] /\ \A i \in 1..(l - 1) : A[i] = Q[i]
    <2>1. \A i \in 1..(l - 1) : (1 + i) - 1 = i /\ i \in 1..l
      BY <1>1
    <2>2. \A i \in 1..l : Level(l)[i] = Q[i]
      BY <1>1, Levels
    <2>3. QED
      BY <1>4, <2>1, <2>2 DEF Part
  <1>7. A = B
    <2> HIDE DEF A, B
    <2>1. A = [i \in 1..(l - 1) |-> A[i]] /\ B = [i \in 1..(l - 1) |-> B[i]]
      BY <1>5, <1>6
    <2>2. \A i \in 1..(l - 1) : A[i] = B[i]
      BY <1>5, <1>6
    <2>3. QED
      BY <2>1, <2>2, Zenon
  <1>8. QED
    BY <1>1, <1>2, <1>3, <1>7

\* One division in the transform domain.
LEMMA DivFloorByLastModulusNTTFits == IInv /\ DivFloorByLastModulusNTT => IInv'
  <1>1. SUFFICES ASSUME IInv, DivFloorByLastModulusNTT PROVE IInv'
    OBVIOUS
  <1>2. PICK l \in 2..Len(Q) : moduli = Level(l)
    BY <1>1 DEF DivFloorByLastModulusNTT, Leveled
  <1> DEFINE m == Level(l - 1)
             inv == [i \in DOMAIN m |-> rescaleParams(Q[l], m[i])]
  <1>3. Shorter(moduli) = m /\ l - 1 \in 1..Len(Q) /\ l \in 1..Len(Q) /\ Last = Q[l]
    BY <1>2, OneShorter DEF Last
  <1>4. l \in Nat /\ DOMAIN moduli = 1..l /\ rows \in [1..l -> 0..(R - 1)] /\ Len(rows) = l
    <2>1. l \in Nat /\ DOMAIN moduli = 1..l
      BY <1>2, <1>3, Levels
    <2>2. QED
      BY <1>1, <2>1, RowsAre
  <1>5. /\ m \in Bases /\ Basis(m) /\ Len(m) = l - 1 /\ DOMAIN m = 1..(l - 1)
        /\ \A i \in 1..(l - 1) : m[i] = Q[i] /\ Sound(m[i]) /\ i \in 1..Len(Q) /\ i \in 1..l
    <2>1. /\ m \in Bases /\ Basis(m) /\ Len(m) = l - 1 /\ DOMAIN m = 1..(l - 1)
          /\ \A i \in 1..(l - 1) : m[i] = Q[i]
      BY <1>3, Levels
    <2> HIDE DEF m
    <2>2. \A i \in 1..(l - 1) : Sound(m[i])
      BY <2>1 DEF Basis
    <2>3. \A i \in 1..(l - 1) : i \in 1..Len(Q) /\ i \in 1..l
      BY <1>3, <1>4, Rings DEF Basis
    <2>4. QED
      BY <2>1, <2>2, <2>3
  <1> HIDE DEF m
  <1>6. Sound(Q[l]) /\ Q[l] \in 0..(R - 1)
    <2>1. Sound(Q[l])
      BY <1>3, Rings DEF Basis
    <2>2. QED
      BY <2>1, RAssumption DEF Sound
  <1>7. \A i \in 1..(l - 1) : inv[i] \in 0..m[i]
    BY <1>5, <1>6, RescaleRange
  <1>8. \A i \in 1..(l - 1) : rows[i] \in Int
    BY <1>4, <1>5
  <1>9. PICK r \in InvNTTLazy(rows[Len(rows)], Last) :
            Quotients(<< "DivFloorNTT" >>, [i \in DOMAIN m |-> NTTLazy(r, m[i])],
                      [i \in DOMAIN m |-> rescaleParams(Last, m[i])], m)
    BY <1>1, <1>3 DEF DivFloorByLastModulusNTT
  <1> DEFINE ys == [i \in DOMAIN m |-> NTTLazy(r, m[i])]
  <1>10. \A i \in 1..(l - 1) : ys[i] \subseteq Int
    <2>1. ASSUME NEW i \in 1..(l - 1) PROVE ys[i] \subseteq Int
      <3>1. ys[i] = NTTLazy(r, m[i])
        BY <1>5
      <3>2. m[i] \in Nat \ {0} /\ 2 * m[i] <= R
        BY <1>5, RAssumption DEF Sound
      <3>3. QED
        BY <3>1, <3>2, LazyAreInt
    <2>2. QED
      BY <2>1
  <1>11. Quotients(<< "DivFloorNTT" >>, ys, inv, m)
    BY <1>3, <1>9
  <1>12. << "DivFloorNTT" >>[1] # "Digit"
    OBVIOUS
  <1> HIDE DEF ys, inv
  <1>13. QED
    BY <1>5, <1>7, <1>8, <1>10, <1>11, <1>12, QuotientsFit

\* And one that rounds.
LEMMA DivRoundByLastModulusNTTFits == IInv /\ DivRoundByLastModulusNTT => IInv'
  <1>1. SUFFICES ASSUME IInv, DivRoundByLastModulusNTT PROVE IInv'
    OBVIOUS
  <1>2. PICK l \in 2..Len(Q) : moduli = Level(l)
    BY <1>1 DEF DivRoundByLastModulusNTT, Leveled
  <1> DEFINE m == Level(l - 1)
             inv == [i \in DOMAIN m |-> rescaleParams(Q[l], m[i])]
  <1>3. Shorter(moduli) = m /\ l - 1 \in 1..Len(Q) /\ l \in 1..Len(Q) /\ Last = Q[l]
    BY <1>2, OneShorter DEF Last
  <1>4. l \in Nat /\ DOMAIN moduli = 1..l /\ rows \in [1..l -> 0..(R - 1)] /\ Len(rows) = l
    <2>1. l \in Nat /\ DOMAIN moduli = 1..l
      BY <1>2, <1>3, Levels
    <2>2. QED
      BY <1>1, <2>1, RowsAre
  <1>5. /\ m \in Bases /\ Basis(m) /\ Len(m) = l - 1 /\ DOMAIN m = 1..(l - 1)
        /\ \A i \in 1..(l - 1) : m[i] = Q[i] /\ Sound(m[i]) /\ i \in 1..Len(Q) /\ i \in 1..l
    <2>1. /\ m \in Bases /\ Basis(m) /\ Len(m) = l - 1 /\ DOMAIN m = 1..(l - 1)
          /\ \A i \in 1..(l - 1) : m[i] = Q[i]
      BY <1>3, Levels
    <2> HIDE DEF m
    <2>2. \A i \in 1..(l - 1) : Sound(m[i])
      BY <2>1 DEF Basis
    <2>3. \A i \in 1..(l - 1) : i \in 1..Len(Q) /\ i \in 1..l
      BY <1>3, <1>4, Rings DEF Basis
    <2>4. QED
      BY <2>1, <2>2, <2>3
  <1> HIDE DEF m
  <1>6. Sound(Q[l]) /\ Q[l] \in 0..(R - 1)
    <2>1. Sound(Q[l])
      BY <1>3, Rings DEF Basis
    <2>2. QED
      BY <2>1, RAssumption DEF Sound
  <1>7. \A i \in 1..(l - 1) : inv[i] \in 0..m[i]
    BY <1>5, <1>6, RescaleRange
  <1>8. \A i \in 1..(l - 1) : rows[i] \in Int
    BY <1>4, <1>5
  <1>9. Quotients(<< "DivRound" >>,
                  [i \in DOMAIN m |-> NTTLazy(centred(rows) + uncentre(Last, m[i]), m[i])],
                  [i \in DOMAIN m |-> rescaleParams(Last, m[i])], m)
    BY <1>1, <1>3 DEF DivRoundByLastModulusNTT
  <1> DEFINE ys == [i \in DOMAIN m |-> NTTLazy(centred(rows) + uncentre(Last, m[i]), m[i])]
  <1>10. \A i \in 1..(l - 1) : ys[i] \subseteq Int
    <2>1. ASSUME NEW i \in 1..(l - 1) PROVE ys[i] \subseteq Int
      <3>1. ys[i] = NTTLazy(centred(rows) + uncentre(Last, m[i]), m[i])
        BY <1>5
      <3>2. m[i] \in Nat \ {0} /\ 2 * m[i] <= R
        BY <1>5, RAssumption DEF Sound
      <3>3. QED
        BY <3>1, <3>2, LazyAreInt
    <2>2. QED
      BY <2>1
  <1>11. Quotients(<< "DivRound" >>, ys, inv, m)
    BY <1>3, <1>9
  <1>12. << "DivRound" >>[1] # "Digit"
    OBVIOUS
  <1> HIDE DEF ys, inv
  <1>13. QED
    BY <1>5, <1>7, <1>8, <1>10, <1>11, <1>12, QuotientsFit

\* A digit of a polynomial of l rows.
LEMMA DigitFits ==
    ASSUME NEW name, NEW l \in 1..Len(Q), NEW x \in [1..(l + Len(P)) -> 0..(R - 1)],
           \A i \in 1..(l + Len(P)) :
               \/ Near(x[i], (Level(l) \o P)[i])
               \/ name[1] = "Digit" /\ name[2] = name[3] /\ x[i] < Q[name[2]],
           Become(name, Level(l) \o P, x)
    PROVE  IInv'
  <1> DEFINE m == Level(l) \o P
             n == l + Len(P)
  <1>1. op' = name /\ moduli' = m /\ rows' = x /\ m \in Bases /\ DOMAIN m = 1..n
    BY ExtendedLevel DEF Become
  <1>2. TypeOK'
    BY <1>1 DEF TypeOK
  <1>3. DigitBasis'
    BY <1>1 DEF DigitBasis
  <1> HIDE DEF m, n
  <1>4. RowsFit'
    <2>1. SUFFICES ASSUME NEW i \in DOMAIN x
                   PROVE  \/ \E q \in Moduli, k \in {Len(Q), Len(P)} :
                                 R * x[i] < m[i] * (2 * R + k * q)
                          \/ name[1] = "Digit" /\ name[2] = name[3] /\ x[i] < Q[name[2]]
      BY <1>1 DEF RowsFit
    <2>2. \/ Near(x[i], m[i])
          \/ name[1] = "Digit" /\ name[2] = name[3] /\ x[i] < Q[name[2]]
      BY DEF m
    <2>3. QED
      BY <2>2 DEF Near
  <1>5. QED
    BY <1>2, <1>3, <1>4 DEF IInv

\* The moduli of a digit that is not a single row: two at least, and all of
\* them among the rows the polynomial has.
LEMMA GroupRange ==
    ASSUME NEW a \in Nat \ {0}, NEW n \in Nat, NEW l \in 1..n, NEW g \in Nat,
           NEW xa, xa = IF (g + 1) * a <= n THEN a ELSE n % a,
           g * a <= l - 1, xa # 1,
           ~(g * a + xa > l /\ l % a = 1)
    PROVE  LET i == IF l - 1 >= xa + g * a THEN xa - 2 ELSE (l - 2) % a
           IN  i \in Nat /\ (g * a + i) + 2 <= l
  <1> DEFINE st == g * a
  <1>1. st \in Nat /\ (g + 1) * a = st + a /\ st <= l - 1 /\ l \in Nat /\ l <= n
    OBVIOUS
  <1>2. xa \in 2..a
    <2>1. CASE (g + 1) * a <= n
      BY <2>1
    <2>2. CASE ~((g + 1) * a <= n)
      <3>1. n - st \in 1..(a - 1) /\ n - st \in Int
        <4> HIDE DEF st
        <4>1. ~(st + a <= n)
          BY <1>1, <2>2
        <4>2. QED
          BY <1>1, <4>1
      <3>2. n % a = n - st
        <4> DEFINE r == n - st
        <4>1. n = (a * g) + r
          BY <1>1
        <4>2. r \in 0..(a - 1)
          BY <3>1
        <4> HIDE DEF r
        <4>3. ((a * g) + r) % a = r
          <5>1. g \in Int
            OBVIOUS
          <5>2. QED
            BY <4>2, <5>1, DivModUnique
        <4>4. QED
          BY <4>1, <4>3 DEF r
      <3> HIDE DEF st
      <3>3. xa = n - st /\ xa # 1
        BY <2>2, <3>2
      <3>4. QED
        BY <1>1, <3>1, <3>3
    <2>3. QED
      BY <2>1, <2>2
  <1> DEFINE i == IF l - 1 >= xa + st THEN xa - 2 ELSE (l - 2) % a
  <1>3. i \in Nat /\ (st + i) + 2 <= l
    <2>1. CASE l - 1 >= xa + st
      <3> HIDE DEF st
      <3> QED
        BY <1>1, <1>2, <2>1
    <2>2. CASE ~(l - 1 >= xa + st)
      <3> DEFINE d == (l - 1) - st
      <3>1. d \in 0..(xa - 1) /\ d \in Int /\ xa <= a
        <4> HIDE DEF st
        <4> QED
          BY <1>1, <1>2, <2>2
      <3>2. d # 0
        <4>1. SUFFICES ASSUME d = 0 PROVE FALSE
          OBVIOUS
        <4>2. l = (a * g) + 1
          BY <1>1, <4>1
        <4>3. 1 \in 0..(a - 1) /\ g \in Int
          BY <1>2
        <4>4. ((a * g) + 1) % a = 1
          BY <4>3, DivModUnique
        <4>5. l = st + 1 /\ l % a = 1
          BY <1>1, <4>1, <4>2, <4>4
        <4> HIDE DEF st, d
        <4>6. st + xa > l
          BY <1>1, <1>2, <4>5
        <4>7. QED
          BY <4>5, <4>6 DEF st
      <3>3. d - 1 \in 0..(a - 1)
        <4> HIDE DEF d
        <4> QED
          BY <1>2, <3>1, <3>2
      <3>4. l - 2 = (a * g) + (d - 1)
        BY <1>1
      <3>5. (l - 2) % a = d - 1
        <4> DEFINE e == d - 1
        <4>1. e \in 0..(a - 1) /\ l - 2 = (a * g) + e
          BY <3>3, <3>4
        <4> HIDE DEF e
        <4>2. ((a * g) + e) % a = e
          BY <4>1, DivModUnique
        <4>3. QED
          BY <4>1, <4>2 DEF e
      <3>6. i = d - 1
        BY <2>2, <3>5
      <3>7. d - 1 \in Nat /\ (st + (d - 1)) + 2 <= l
        <4>1. (st + (d - 1)) + 2 = l
          <5> HIDE DEF st
          <5> QED
            BY <1>1
        <4> HIDE DEF st, d
        <4>2. QED
          BY <1>1, <3>3, <4>1
      <3>8. QED
        BY <3>6, <3>7
    <2>3. QED
      BY <2>1, <2>2
  <1>4. QED
    BY <1>3

\* Where a digit's row is found among those of QP.
LEMMA Targets ==
    ASSUME NEW l \in 1..Len(Q), NEW j \in 1..(l + Len(P))
    PROVE  LET k == IF j <= l THEN j ELSE Len(Q) + j - l
           IN  k \in 1..Len(Q \o P) /\ (Q \o P)[k] = (Level(l) \o P)[j]
  <1> DEFINE n == Len(Q)
             k == IF j <= l THEN j ELSE n + j - l
  <1>1. n \in Nat /\ Len(P) \in Nat /\ l \in 1..n /\ n \in 1..Len(Q)
    BY Rings DEF Basis
  <1>2. /\ Len(Q \o P) = n + Len(P) /\ \A i \in 1..n : (Q \o P)[i] = Q[i]
        /\ \A i \in 1..Len(P) : (Q \o P)[n + i] = P[i]
    BY <1>1, RingBases, ExtendedLevel
  <1>3. CASE j <= l
    <2>1. j \in 1..l /\ j \in 1..n /\ j \in 1..(n + Len(P)) /\ k = j
      BY <1>1, <1>3
    <2>2. (Level(l) \o P)[j] = Q[j]
      BY <2>1, ExtendedLevel
    <2>3. QED
      BY <1>2, <2>1, <2>2
  <1>4. CASE ~(j <= l)
    <2> DEFINE i == j - l
    <2>1. i \in 1..Len(P) /\ k = n + i /\ j = l + i /\ n + i \in 1..(n + Len(P))
      BY <1>1, <1>4
    <2> HIDE DEF i
    <2>2. (Level(l) \o P)[l + i] = P[i]
      BY <2>1, ExtendedLevel
    <2> HIDE DEF k, n
    <2>3. (Q \o P)[k] = P[i] /\ k \in 1..Len(Q \o P)
      BY <1>2, <2>1
    <2>4. QED
      BY <2>1, <2>2, <2>3 DEF k, n
  <1>5. QED
    BY <1>3, <1>4

\* Two or more consecutive moduli of Q.
LEMMA Consecutive ==
    ASSUME NEW i \in 1..Len(Q), NEW j \in (i + 1)..Len(Q)
    PROVE  SubSeq(Q, i, j) \in Sources /\ Len(SubSeq(Q, i, j)) = (j - i) + 1
  <1>1. i \in DOMAIN Q
    BY Rings
  <1> DEFINE F(k) == {SubSeq(Q, k, n) : n \in (k + 1)..Len(Q)}
  <1>2. SubSeq(Q, i, j) \in Sources
    <2>1. SubSeq(Q, i, j) \in F(i)
      OBVIOUS
    <2>2. Sources = {P} \cup UNION {F(k) : k \in DOMAIN Q}
      BY DEF Sources
    <2> HIDE DEF F
    <2>3. QED
      BY <1>1, <2>1, <2>2
  <1>3. j \in i..Len(Q)
    BY Rings DEF Basis
  <1>4. QED
    BY <1>2, <1>3, Pieces

\* Where the rows of a digit go: the row that holds its j-th one among those of QP.
Target(j, l) == IF j <= l THEN j ELSE Len(Q) + j - l
\* A digit: the row of a single modulus copied, or an extension of two rows or more.
Copied(l, s) ==
    Become(<< "Digit", s, s >>, Level(l) \o P, [j \in 1..(l + Len(P)) |-> rows[s]])
DigitTables(i, k) == basisextenderparameters(SubSeq(Q, i, k), Q \o P)
Extended(l, i, k) ==
    \E v \in reconstructRNS(digits(SubSeq(rows, i, k), DigitTables(i, k)), DigitTables(i, k)) :
        Become(<< "Digit", i, k >>, Level(l) \o P,
               [j \in 1..(l + Len(P)) |->
                   multSum(digits(SubSeq(rows, i, k), DigitTables(i, k)), v, Target(j, l), DigitTables(i, k))])
LEMMA DigitSteps ==
    ASSUME IInv, DecomposeAndSplit
    PROVE  \E l \in 1..Len(Q) :
              /\ moduli = Level(l) /\ Canonical(l) /\ rows \in [1..l -> 0..(R - 1)]
              /\ \/ \E s \in 1..l : Copied(l, s)
                 \/ \E i \in 1..l : \E k \in (i + 1)..l : Extended(l, i, k)
  <1>2. PICK l \in 1..Len(Q) : moduli = Level(l)
    BY Rings DEF DecomposeAndSplit
  <1>3. l \in Nat /\ rows \in [1..l -> 0..(R - 1)] /\ Len(rows) = l
    <2>1. l \in Nat /\ DOMAIN moduli = 1..l
      BY <1>2, Levels
    <2>2. QED
      BY <2>1, RowsAre
  <1> DEFINE h == Len(rows)
             st(g) == g * alpha
             index(g) == IF h - 1 >= xalpha(g) + st(g) THEN xalpha(g) - 2 ELSE (h - 1 - 1) % alpha
             group(g) == SubSeq(Q, st(g) + 1, st(g) + index(g) + 2)
             params(g) == basisextenderparameters(group(g), Q \o P)
             y(g) == digits(SubSeq(rows, st(g) + 1, st(g) + index(g) + 2), params(g))
             target(j) == IF j <= h THEN j ELSE Len(Q) + j - h
             single(g) == (st(g) + xalpha(g) > h - 1 + 1 /\ (h - 1 + 1) % alpha = 1) \/ xalpha(g) = 1
  <1>4. PICK g \in 0..(Len(Q) - 1) :
            /\ st(g) <= h - 1 /\ Canonical(h)
            /\ IF single(g)
               THEN Become(<< "Digit", st(g) + 1, st(g) + 1 >>, moduli \o P,
                           [j \in 1..(h + alpha) |-> rows[st(g) + 1]])
               ELSE \E v \in reconstructRNS(y(g), params(g)) :
                      Become(<< "Digit", st(g) + 1, st(g) + index(g) + 2 >>, moduli \o P,
                             [j \in 1..(h + alpha) |-> multSum(y(g), v, target(j), params(g))])
    BY Zenon DEF DecomposeAndSplit
  <1>9. h = l
    BY <1>3
  <1> HIDE DEF h
  <1>5. alpha = Len(P) /\ alpha \in Nat \ {0} /\ g \in Nat /\ Len(Q) \in Nat /\ st(g) \in Nat
    BY Rings DEF alpha, Basis
  <1>6. CASE single(g)
    <2> DEFINE s == st(g) + 1
    <2>1. s \in 1..l
      <3> HIDE DEF st
      <3> QED
        BY <1>3, <1>4, <1>5, <1>9
    <2>2. Copied(l, s)
      BY <1>2, <1>4, <1>5, <1>6, <1>9 DEF Copied
    <2> HIDE DEF s
    <2>3. QED
      BY <1>2, <1>3, <1>4, <1>9, <2>1, <2>2
  <1>7. CASE ~single(g)
    <2> DEFINE i == index(g)
               first == st(g) + 1
               last == st(g) + i + 2
               p == params(g)
               z == y(g)
               name == << "Digit", first, last >>
    <2>1. PICK v \in reconstructRNS(z, p) :
              Become(name, moduli \o P, [j \in 1..(h + alpha) |-> multSum(z, v, target(j), p)])
      BY <1>4, <1>7
    <2>2. i \in Nat /\ (st(g) + i) + 2 <= l
      <3> DEFINE xa == xalpha(g)
                 a == alpha
                 n == Len(Q)
                 k == IF l - 1 >= xa + g * a THEN xa - 2 ELSE (l - 2) % a
      <3>1. xa = IF (g + 1) * a <= n THEN a ELSE n % a
        BY DEF xalpha
      <3>2. (h - 1 - 1) = l - 2 /\ h - 1 + 1 = l /\ h = l
        BY <1>3, <1>9
      <3>3. g * a <= l - 1 /\ xa # 1 /\ ~(g * a + xa > l /\ l % a = 1)
        BY <1>4, <1>7, <3>2
      <3>4. i = k
        BY <3>2
      <3>5. k \in Nat /\ (g * a + k) + 2 <= l
        <4> HIDE DEF xa, a, n
        <4>1. a \in Nat \ {0} /\ n \in Nat /\ l \in 1..n /\ g \in Nat
          BY <1>5 DEF a, n
        <4>2. QED
          BY <3>1, <3>3, <4>1, GroupRange
      <3> HIDE DEF k, i, xa
      <3>6. QED
        BY <3>4, <3>5
    <2>3. p = DigitTables(first, last) /\ z = digits(SubSeq(rows, first, last), p)
      BY DEF DigitTables
    <2> HIDE DEF i
    <2>4. first \in 1..l /\ last \in (first + 1)..l
      <3> DEFINE u == st(g)
      <3>1. u \in Nat /\ (u + i) + 2 <= l /\ i \in Nat /\ l \in Nat
        BY <1>3, <1>5, <2>2
      <3>2. first = u + 1 /\ last = (u + i) + 2
        OBVIOUS
      <3> HIDE DEF u, first, last
      <3>3. QED
        BY <3>1, <3>2
    <2> HIDE DEF first, last, params, y, group, index, st, p, z
    <2>5. [j \in 1..(h + alpha) |-> multSum(z, v, target(j), p)]
             = [j \in 1..(l + Len(P)) |-> multSum(z, v, Target(j, l), p)]
      BY <1>5, <1>9, Zenon DEF Target
    <2>6. Become(name, Level(l) \o P, [j \in 1..(l + Len(P)) |-> multSum(z, v, Target(j, l), p)])
      BY <1>2, <2>1, <2>5, Zenon
    <2>7. Extended(l, first, last)
      BY <2>1, <2>3, <2>6, Zenon DEF Extended
    <2>8. QED
      BY <1>2, <1>3, <1>4, <1>9, <2>4, <2>7
  <1>8. QED
    BY <1>6, <1>7

\* The rows a digit is an extension of, and its moduli.
LEMMA DigitRows ==
    ASSUME NEW l \in 1..Len(Q), rows \in [1..l -> 0..(R - 1)], NEW i \in 1..l, NEW k \in (i + 1)..l
    PROVE  /\ SubSeq(Q, i, k) \in Sources /\ Source(SubSeq(Q, i, k)) /\ Len(SubSeq(Q, i, k)) = (k - i) + 1
           /\ SubSeq(rows, i, k) \in [1..Len(SubSeq(Q, i, k)) -> 0..(R - 1)]
           /\ \A n \in 1..((k - i) + 1) : SubSeq(rows, i, k)[n] = rows[(i + n) - 1]
  <1> DEFINE m == (k - i) + 1
             S == 0..(R - 1)
  <1>1. l \in Nat /\ i \in 1..Len(Q) /\ k \in (i + 1)..Len(Q) /\ k \in i..l /\ m \in Nat /\ m = (k - i) + 1
    BY Rings DEF Basis
  <1>2. SubSeq(Q, i, k) \in Sources /\ Len(SubSeq(Q, i, k)) = m
    BY <1>1, Consecutive
  <1> HIDE DEF S
  <1>3. rows \in [1..l -> S]
    BY DEF S
  <1> HIDE DEF m
  <1>4. Part(rows, i, k, m, S)
    BY <1>1, <1>3, Parts
  <1>5. QED
    BY <1>2, <1>4, SourcesExtend DEF Part, S, m

\* A digit: the rows of a single modulus as they are, or an extension.
LEMMA DecomposeAndSplitFits == IInv /\ DecomposeAndSplit => IInv'
  <1>1. SUFFICES ASSUME IInv, DecomposeAndSplit PROVE IInv'
    OBVIOUS
  <1>2. PICK l \in 1..Len(Q) :
              /\ moduli = Level(l) /\ Canonical(l) /\ rows \in [1..l -> 0..(R - 1)]
              /\ \/ \E s \in 1..l : Copied(l, s)
                 \/ \E i \in 1..l : \E k \in (i + 1)..l : Extended(l, i, k)
    BY <1>1, DigitSteps
  <1>3. CASE \E s \in 1..l : Copied(l, s)
    <2>1. PICK s \in 1..l : Copied(l, s)
      BY <1>3
    <2> DEFINE x == [j \in 1..(l + Len(P)) |-> rows[s]]
               name == << "Digit", s, s >>
    <2>2. rows[s] < Q[s] /\ rows[s] \in 0..(R - 1)
      <3>1. rows[s] < moduli[s] /\ moduli[s] = Q[s]
        BY <1>2, Levels DEF Canonical
      <3>2. QED
        BY <1>2, <3>1
    <2>3. Become(name, Level(l) \o P, x)
      BY <2>1 DEF Copied
    <2>4. name[1] = "Digit" /\ name[2] = name[3] /\ name[2] = s
      OBVIOUS
    <2> HIDE DEF name
    <2>5. x \in [1..(l + Len(P)) -> 0..(R - 1)] /\ \A i \in 1..(l + Len(P)) : x[i] = rows[s]
      BY <2>2
    <2> HIDE DEF x
    <2>6. QED
      BY <2>2, <2>3, <2>4, <2>5, DigitFits
  <1>4. CASE \E i \in 1..l : \E k \in (i + 1)..l : Extended(l, i, k)
    <2>1. PICK i \in 1..l : \E k \in (i + 1)..l : Extended(l, i, k)
      BY <1>4
    <2>2. PICK k \in (i + 1)..l : Extended(l, i, k)
      BY <2>1
    <2> DEFINE A == SubSeq(Q, i, k)
               B == Q \o P
               p == DigitTables(i, k)
               z == digits(SubSeq(rows, i, k), p)
               name == << "Digit", i, k >>
    <2>3. PICK v \in reconstructRNS(z, p) :
              Become(name, Level(l) \o P, [j \in 1..(l + Len(P)) |-> multSum(z, v, Target(j, l), p)])
      BY <2>2, Zenon DEF Extended
    <2>4. Source(A) /\ Basis(B) /\ Len(A) \in 1..Len(A)
      <3>1. Basis(B)
        BY RingBases, ExtendedLevel
      <3>2. Source(A) /\ Len(A) = (k - i) + 1
        BY <1>2, DigitRows
      <3>3. (k - i) + 1 \in 1..((k - i) + 1)
        BY Rings DEF Basis
      <3>4. QED
        BY <3>1, <3>2, <3>3
    <2>5. p = basisextenderparameters(A, B)
      BY DEF DigitTables
    <2> HIDE DEF p
    <2>6. Digits(z, A, Len(A))
      <3>1. SubSeq(rows, i, k) \in [1..Len(A) -> 0..(R - 1)]
        BY <1>2, DigitRows
      <3> HIDE DEF A, B
      <3>2. QED
        BY <2>4, <2>5, <3>1, DigitsRange DEF Digits
    <2> HIDE DEF A, z
    <2>7. v \in 0..Len(A)
      BY <2>3, <2>4, <2>5, <2>6, CorrectionRange
    <2> DEFINE x == [j \in 1..(l + Len(P)) |-> multSum(z, v, Target(j, l), p)]
    <2>8. ASSUME NEW j \in 1..(l + Len(P)) PROVE Near(x[j], (Level(l) \o P)[j])
      <3>1. Target(j, l) \in 1..Len(B) /\ B[Target(j, l)] = (Level(l) \o P)[j]
        BY Targets DEF Target
      <3>2. x[j] = multSum(z, v, Target(j, l), basisextenderparameters(A, B))
        BY <2>5
      <3> HIDE DEF x, B
      <3>3. Near(multSum(z, v, Target(j, l), basisextenderparameters(A, B)), B[Target(j, l)])
        BY <2>4, <2>6, <2>7, <3>1, ExtendedRow
      <3>4. QED
        BY <3>1, <3>2, <3>3
    <2>9. Become(name, Level(l) \o P, x) /\ x = [j \in 1..(l + Len(P)) |-> x[j]]
      BY <2>3
    <2> HIDE DEF x, name
    <2>10. \A j \in 1..(l + Len(P)) : x[j] \in 0..(R - 1)
      BY <2>8 DEF Near
    <2>11. x \in [1..(l + Len(P)) -> 0..(R - 1)]
      BY <2>9, <2>10
    <2>12. QED
      BY <2>8, <2>9, <2>11, DigitFits
  <1>5. QED
    BY <1>2, <1>3, <1>4

\* A plaintext of one row, up to its modulus.
LEMMA ScaleFits ==
    ASSUME NEW name \in {"Scale", "SimpleScale"}, NEW t \in T, NEW r \in 0..t,
           Become(<< name >>, << t >>, << r >>)
    PROVE  IInv'
  <1> DEFINE m == << t >>
             x == << r >>
  <1>1. m \in Bases /\ DOMAIN m = 1..1 /\ 1 \in DOMAIN m /\ m[1] = t
    BY DEF Bases
  <1>2. m[1] \in 1..(R - 1)
    BY <1>1, Reducible
  <1>3. Near(r, t)
    BY <1>1, <1>2, SmallIsNear
  <1>4. r \in 0..(R - 1)
    BY <1>3 DEF Near
  <1>5. x \in [1..1 -> 0..(R - 1)] /\ \A i \in 1..1 : i = 1 /\ x[i] = r
    BY <1>4
  <1>6. \A i \in 1..1 : Near(x[i], m[i])
    BY <1>1, <1>3, <1>5
  <1>7. 1 \in Nat /\ << name >>[1] # "Digit"
    OBVIOUS
  <1> HIDE DEF m, x
  <1>8. Become(<< name >>, m, x)
    BY DEF m, x
  <1>9. QED
    BY <1>1, <1>5, <1>6, <1>7, <1>8, Fits

\* The rows a scaling starts from.
LEMMA FullRows ==
    ASSUME IInv, moduli = Q
    PROVE  /\ \A i \in 1..Len(Q) : rows[i] \in 0..(R - 1) /\ Sound(Q[i])
           /\ DOMAIN Q = 1..Len(Q) /\ Len(Q) \in Nat /\ DOMAIN rows = 1..Len(Q)
           /\ Product(Q) \in Nat \ {0} /\ qHalf \in Int
  <1>1. DOMAIN Q = 1..Len(Q) /\ Len(Q) \in Nat /\ \A i \in 1..Len(Q) : Sound(Q[i])
    BY Rings DEF Basis
  <1>2. DOMAIN rows = 1..Len(Q) /\ \A i \in 1..Len(Q) : rows[i] \in 0..(R - 1)
    BY <1>1, RowsAre
  <1>3. Product(Q) \in Nat \ {0}
    BY BasisProduct, Rings
  <1> DEFINE q == Product(Q)
  <1>4. q \in Nat /\ qHalf = q \div 2
    BY <1>3 DEF qHalf
  <1> HIDE DEF q
  <1>5. qHalf \in Int
    BY <1>4
  <1>6. QED
    BY <1>1, <1>2, <1>3, <1>5

\* Scaling in residues ends in a Montgomery product.
LEMMA DivByQOverTRoundedFits == IInv /\ DivByQOverTRounded => IInv'
  <1>1. SUFFICES ASSUME IInv, DivByQOverTRounded PROVE IInv'
    OBVIOUS
  <1> DEFINE qInv(t) == MForm(ModExp(Product(Q) % t, t - 2, t), t, bredParams[t])
             times(t, i) ==
                 MRed(rows[i], ToMont(BRedAdd(t, Q[i], bredParams[Q[i]]), Q[i]), Q[i], mredParams[Q[i]])
             x(t) == [i \in DOMAIN Q |-> CRed(times(t, i) + (qHalf % Q[i]), Q[i])]
             z(t, y) == MRed(Wrap(t - (qHalf % t) + y[1]), t - qInv(t), t, mredParams[t])
  <1>2. PICK t \in {u \in T : Odd(u)} :
            /\ moduli = Q
            /\ \E y \in modUpExact(x(t), 1, basisextenderparameters(Q, << t >>)) :
                  Become(<< "Scale" >>, << t >>, << z(t, y) >>)
    BY <1>1, Zenon DEF DivByQOverTRounded
  <1>3. PICK y \in modUpExact(x(t), 1, basisextenderparameters(Q, << t >>)) :
            Become(<< "Scale" >>, << t >>, << z(t, y) >>)
    BY <1>2
  <1>4. Sound(t) /\ t \in T
    BY ModuliAreSound
  <1>5. t \in Nat \ {0} /\ t \in 0..(R - 1)
    BY <1>4, RAssumption DEF Sound
  <1>6. /\ \A i \in 1..Len(Q) : rows[i] \in 0..(R - 1) /\ Sound(Q[i])
        /\ DOMAIN Q = 1..Len(Q) /\ Len(Q) \in Nat /\ Product(Q) \in Nat \ {0} /\ qHalf \in Int
    BY <1>1, <1>2, FullRows
  <1>7. x(t) \in [1..Len(Q) -> 0..(R - 1)]
    <2>1. ASSUME NEW i \in 1..Len(Q)
          PROVE  CRed(times(t, i) + (qHalf % Q[i]), Q[i]) \in 0..(R - 1)
      <3> DEFINE q == Q[i]
                 f == ToMont(BRedAdd(t, q, bredParams[q]), q)
                 h == qHalf % q
      <3>1. Sound(q) /\ rows[i] \in 0..(R - 1)
        BY <1>6
      <3>2. q \in Nat \ {0} /\ q < R /\ 2 * q <= R
        BY <3>1, RAssumption DEF Sound
      <3> HIDE DEF q
      <3>3. BRedAdd(t, q, bredParams[q]) \in 0..(q - 1)
        BY <1>5, <3>1, ReducedRange
      <3>4. BRedAdd(t, q, bredParams[q]) \in 0..(R - 1)
        BY <3>2, <3>3, RAssumption
      <3>5. f \in 0..(q - 1)
        BY <3>1, <3>4, ToMontRange
      <3> HIDE DEF f
      <3>6. f \in 0..q
        BY <3>2, <3>5
      <3>7. MRed(rows[i], f, q, mredParams[q]) \in 0..(q - 1)
        BY <3>1, <3>6, TimesRange
      <3>8. h \in 0..(q - 1)
        BY <1>6, <3>2
      <3> DEFINE s == MRed(rows[i], f, q, mredParams[q])
      <3> HIDE DEF h, s
      <3>9. s \in 0..(q - 1)
        BY <3>7 DEF s
      <3>10. s + h \in 0..((2 * q) - 1)
        BY <3>2, <3>8, <3>9
      <3>11. CRed(s + h, q) \in 0..(q - 1)
        BY <3>2, <3>10, CRedRange
      <3>12. CRed(s + h, q) \in 0..(R - 1)
        BY <3>2, <3>11, RAssumption
      <3>13. QED
        BY <3>12 DEF s, h, f, q
    <2>2. x(t) = [i \in 1..Len(Q) |-> CRed(times(t, i) + (qHalf % Q[i]), Q[i])]
      BY <1>6
    <2> HIDE DEF times, x
    <2>3. QED
      BY <2>1, <2>2
  <1>8. y \in [1..1 -> 0..(R - 1)]
    <2> DEFINE B == << t >>
               w == x(t)
    <2>1. B \in Seq(Nat) /\ Len(B) = 1 /\ B[1] = t
      BY <1>5
    <2> HIDE DEF B
    <2>2. \A i \in 1..Len(B) : i = 1
      BY <2>1
    <2>3. Basis(B)
      BY <1>4, <2>1, <2>2 DEF Basis
    <2>4. Len(Q) \in 1..Len(Q) /\ Source(Q) /\ 1 \in 0..Len(B)
      BY <2>1, RingBases
    <2>5. w \in [1..Len(Q) -> 0..(R - 1)] /\ y \in modUpExact(w, 1, basisextenderparameters(Q, B))
      BY <1>3, <1>7 DEF B
    <2> HIDE DEF w, x
    <2>6. QED
      BY <2>3, <2>4, <2>5, ExtensionNear
  <1> DEFINE v == t - (qHalf % t) + y[1]
  <1>9. v \in Int
    <2>1. y[1] \in Int
      BY <1>8
    <2>2. QED
      BY <1>5, <1>6, <2>1
  <1>10. t - qInv(t) \in 0..t
    <2> DEFINE p == Product(Q)
               e == ModExp(p % t, t - 2, t)
    <2>1. p \in Nat
      BY <1>6
    <2> HIDE DEF p
    <2>2. 2 * t <= R /\ p % t \in 0..(R - 1) /\ t - 2 \in 0..(R - 1)
      BY <1>4, <1>5, <2>1, RAssumption DEF Sound
    <2>3. e \in 0..(R - 1)
      BY <1>5, <2>2, ModExpRange
    <2> HIDE DEF e
    <2>4. ToMont(e, t) \in 0..(t - 1)
      BY <1>4, <2>3, ToMontRange
    <2>5. qInv(t) = ToMont(e, t)
      BY DEF ToMont, e, p
    <2> HIDE DEF qInv
    <2>6. QED
      BY <1>5, <2>4, <2>5
  <1>11. Wrap(v) \in 0..(R - 1)
    <2> HIDE DEF v
    <2> QED
      BY <1>9, WrapRange
  <1>12. z(t, y) \in 0..t
    <2> DEFINE w == Wrap(v)
               d == t - qInv(t)
    <2>1. z(t, y) = MRed(w, d, t, mredParams[t])
      OBVIOUS
    <2> HIDE DEF w, d, z, v, qInv
    <2>2. w \in 0..(R - 1) /\ d \in 0..t
      BY <1>10, <1>11 DEF w, d
    <2>3. MRed(w, d, t, mredParams[t]) \in 0..(t - 1)
      BY <1>4, <2>2, TimesRange
    <2>4. QED
      BY <1>5, <2>1, <2>3
  <1> HIDE DEF z
  <1>13. QED
    BY <1>3, <1>4, <1>12, ScaleFits

\* The integer behind the rows is below the product.
LEMMA ReconstructedRange ==
    ASSUME IInv, moduli = Q
    PROVE  Reconstructed(rows, Q) \in 0..(Product(Q) - 1)
  <1> DEFINE p == Product(Q)
             c(i) == ((p \div Q[i]) * ModInverse((p \div Q[i]) % Q[i], Q[i])) % p
             term == [i \in 1..Len(Q) |-> (rows[i] % Q[i]) * CrtFactor[Q][i]]
  <1>1. /\ \A i \in 1..Len(Q) : rows[i] \in 0..(R - 1) /\ Sound(Q[i])
        /\ DOMAIN Q = 1..Len(Q) /\ Len(Q) \in Nat /\ DOMAIN rows = 1..Len(Q) /\ p \in Nat \ {0}
    BY FullRows
  <1>2. CrtFactor[Q] = [i \in 1..Len(Q) |-> c(i)]
    BY <1>1, RingBases DEF CrtFactor
  <1>3. ASSUME NEW i \in 1..Len(Q) PROVE term[i] \in Int
    <2> DEFINE q == Q[i]
               y == ModInverse((p \div q) % q, q)
               d == p \div q
    <2>1. q \in Nat \ {0} /\ rows[i] \in Int
      BY <1>1 DEF Sound
    <2>2. y \in 0..(q - 1)
      BY RingBases DEF Source
    <2>3. c(i) = (d * y) % p
      OBVIOUS
    <2> HIDE DEF y, q, p, c
    <2>4. d \in Int /\ y \in Int
      BY <1>1, <2>1, <2>2
    <2> HIDE DEF d
    <2>5. c(i) \in Int
      BY <1>1, <2>3, <2>4
    <2>6. term[i] = (rows[i] % q) * c(i)
      BY <1>2 DEF q
    <2> HIDE DEF term
    <2>7. rows[i] % q \in Int
      BY <2>1
    <2>8. QED
      BY <2>5, <2>6, <2>7
  <1>4. Sum(term) \in Int
    <2>1. term \in [1..Len(Q) -> Int]
      BY <1>3
    <2> HIDE DEF term
    <2>2. Len(term) = Len(Q)
      BY <1>1, <2>1, IsASequence
    <2>3. QED
      BY <1>1, <1>3, <2>2, SumIsInt
  <1>5. Reconstructed(rows, Q) = Sum(term) % p
    BY <1>1 DEF Reconstructed
  <1> DEFINE s == Sum(term)
  <1> HIDE DEF s, p
  <1>6. s % p \in 0..(p - 1)
    BY <1>1, <1>4 DEF s
  <1>7. QED
    BY <1>5, <1>6 DEF s, p

\* Scaling over the integers rounds to t at most.
LEMMA reconstructThenScaleFits == IInv /\ reconstructThenScale => IInv'
  <1>1. SUFFICES ASSUME IInv, reconstructThenScale PROVE IInv'
    OBVIOUS
  <1> DEFINE p == Product(Q)
             v(k) == (k + Reconstructed(rows, Q)) % p
             z(t, k) == (t * v(k)) \div p + (IF 2 * ((t * v(k)) % p) >= p THEN 1 ELSE 0)
  <1>2. PICK t \in T : \E k \in p1BI(t) :
            moduli = Q /\ Become(<< "SimpleScale" >>, << t >>, << z(t, k) >>)
    BY <1>1, Zenon DEF reconstructThenScale
  <1>3. PICK k \in p1BI(t) : moduli = Q /\ Become(<< "SimpleScale" >>, << t >>, << z(t, k) >>)
    BY <1>2
  <1>4. p \in Nat \ {0} /\ t \in Nat \ {0} /\ v(k) \in 0..(p - 1)
    <2>1. << t >> \in Bases /\ 1 \in DOMAIN << t >> /\ << t >>[1] = t
      BY DEF Bases
    <2>2. t \in 1..(R - 1)
      BY <2>1, Reducible
    <2> DEFINE u == Reconstructed(rows, Q)
    <2>3. u \in 0..(p - 1) /\ p \in Nat \ {0}
      BY <1>1, <1>3, ReconstructedRange, FullRows
    <2> HIDE DEF u, p
    <2>4. k \in Int
      BY <2>2, <2>3 DEF p1BI, p
    <2>5. (k + u) % p \in 0..(p - 1)
      BY <2>3, <2>4
    <2>6. QED
      BY <2>2, <2>3, <2>5 DEF u
  <1>5. z(t, k) \in 0..t
    <2> DEFINE y == v(k)
    <2>1. y \in 0..(p - 1)
      BY <1>4
    <2> HIDE DEF y, p
    <2> DEFINE a == t * y
               d == a \div p
    <2>2. a \in Nat /\ a < p * t
      <3>1. t * y >= 0 /\ t * y < t * p /\ t * p = p * t
        BY <1>4, <2>1
      <3>2. t * y \in Int
        BY <1>4, <2>1
      <3>3. QED
        BY <3>1, <3>2
    <2> HIDE DEF a
    <2>3. d \in Nat /\ d < t
      BY <1>4, <2>2, DivBelow
    <2>4. z(t, k) = d \/ z(t, k) = d + 1
      BY <2>3 DEF a, y
    <2> HIDE DEF d, z
    <2>5. QED
      BY <1>4, <2>3, <2>4
  <1> HIDE DEF z
  <1>6. QED
    BY <1>3, <1>5, ScaleFits

\* The terms of the integer part, and what reduces their sum.
LEMMA TermRange ==
    ASSUME IInv, moduli = Q, NEW t \in T, NEW i \in 1..Len(Q)
    PROVE  reducealgoMul(t, wi(t, i), rows[i]) \in Int /\ ti(t, i) \in Int
  <1>1. rows[i] \in 0..(R - 1) /\ Sound(Q[i]) /\ DOMAIN Q = 1..Len(Q)
    BY FullRows
  <1>2. t \in Nat \ {0} /\ t \in 1..(R - 1)
    <2>1. << t >> \in Bases /\ 1 \in DOMAIN << t >> /\ << t >>[1] = t
      BY DEF Bases
    <2>2. QED
      BY <2>1, Reducible
  <1> DEFINE q == Q[i]
             b == barre[i]
             w == (b * t) \div q
  <1>3. b \in 0..(q - 1)
    <2>1. ModInverse((Product(Q) \div q) % q, q) \in 0..(q - 1)
      BY RingBases DEF Source
    <2>2. b = ModInverse((Product(Q) \div q) % q, q)
      BY <1>1 DEF barre
    <2>3. QED
      BY <2>1, <2>2
  <1>4. q \in Nat \ {0}
    BY <1>1 DEF Sound
  <1>5. ti(t, i) = (b * t) % q /\ wi(t, i) = IF Odd(t) THEN ToMont(w, t) ELSE w
    BY DEF ti, wi
  <1> HIDE DEF b, q
  <1>6. b * t \in Nat /\ b * t < q * t
    <2>1. b * t >= 0 /\ b * t < q * t
      BY <1>2, <1>3, <1>4
    <2>2. b * t \in Int
      BY <1>2, <1>3, <1>4
    <2>3. QED
      BY <2>1, <2>2
  <1> DEFINE a == b * t
  <1>7. a \in Nat /\ a < q * t
    BY <1>6
  <1> HIDE DEF a
  <1>8. a \div q \in Nat /\ a \div q < t
    BY <1>2, <1>4, <1>7, DivBelow
  <1>9. w \in 0..(R - 1) /\ w < t
    BY <1>2, <1>8, RAssumption DEF a
  <1>10. ti(t, i) \in Int
    BY <1>4, <1>5, <1>7 DEF a
  <1> HIDE DEF w
  <1> DEFINE x == rows[i]
  <1>11. x \in 0..(R - 1) /\ x \in Nat
    BY <1>1
  <1> HIDE DEF x
  <1>12. CASE Odd(t)
    <2> DEFINE f == ToMont(w, t)
    <2>1. Sound(t)
      BY <1>12, ModuliAreSound
    <2>2. f \in 0..(t - 1)
      BY <1>9, <2>1, ToMontRange
    <2> HIDE DEF f
    <2>3. f \in Nat /\ 2 * t <= R /\ mredParams[t] \in Nat /\ R \in Nat \ {0}
      BY <1>2, <2>1, <2>2, RAssumption DEF Sound
    <2>4. f * x < t * R
      <3>1. f < t /\ x < R
        BY <1>11, <1>2, <2>2, <2>3
      <3>2. t \in Nat /\ R \in Nat
        BY <1>2, <2>3
      <3>3. QED
        BY <1>11, <2>3, <3>1, <3>2, ProductBelow
    <2>5. MRed(f, x, t, mredParams[t]) \in 0..(t - 1)
      BY <1>2, <1>11, <2>3, <2>4, MRedRange
    <2>6. reducealgoMul(t, wi(t, i), x) = MRed(f, x, t, mredParams[t])
      BY <1>5, <1>12 DEF reducealgoMul, f
    <2>7. reducealgoMul(t, wi(t, i), x) \in Int
      BY <1>2, <2>5, <2>6
    <2>8. QED
      BY <1>10, <2>7 DEF x
  <1>13. CASE ~Odd(t)
    <2>1. reducealgoMul(t, wi(t, i), x) = Wrap(w * x) % t
      BY <1>5, <1>13 DEF reducealgoMul
    <2>2. w * x \in Int
      BY <1>9, <1>11
    <2>3. Wrap(w * x) \in 0..(R - 1)
      BY <2>2, WrapRange
    <2> DEFINE e == Wrap(w * x)
    <2> HIDE DEF e
    <2>4. e \in Int
      BY <2>3 DEF e
    <2>5. e % t \in Int
      BY <1>2, <2>4
    <2>6. QED
      BY <1>10, <2>1, <2>5 DEF x, e
  <1>14. QED
    BY <1>12, <1>13

\* Scaling in floating point ends in a reduction.
LEMMA reconstructAndScaleFits == IInv /\ reconstructAndScale => IInv'
  <1>1. SUFFICES ASSUME IInv, reconstructAndScale PROVE IInv'
    OBVIOUS
  <1> DEFINE p == Product(Q)
             term(t) == [i \in DOMAIN Q |-> reducealgoMul(t, wi(t, i), rows[i])]
             part(t) == [i \in DOMAIN Q |-> rows[i] * ti(t, i) * (p \div Q[i])]
             a(t) == Wrap(Sum(term(t)))
             sum(t) == Sum(part(t))
             l == Slack(p)
  <1>2. PICK t \in T :
            /\ moduli = Q
            /\ \E e \in (sum(t) + qHalf - l)..(sum(t) + qHalf + l) :
                   /\ e >= 0
                   /\ Become(<< "Scale" >>, << t >>, << reducealgoAdd(t, Wrap(a(t) + (e \div p))) >>)
    BY <1>1, Zenon DEF reconstructAndScale
  <1>3. PICK e \in (sum(t) + qHalf - l)..(sum(t) + qHalf + l) :
            Become(<< "Scale" >>, << t >>, << reducealgoAdd(t, Wrap(a(t) + (e \div p))) >>)
    BY <1>2
  <1>4. /\ \A i \in 1..Len(Q) : rows[i] \in 0..(R - 1) /\ Sound(Q[i])
        /\ DOMAIN Q = 1..Len(Q) /\ Len(Q) \in Nat /\ p \in Nat \ {0} /\ qHalf \in Int /\ l \in Nat
    BY <1>1, <1>2, FullRows, WholeQ, SourcesExtend DEF Source
  <1>5. << t >> \in Bases /\ 1 \in DOMAIN << t >> /\ << t >>[1] = t
    BY DEF Bases
  <1>6. t \in 1..(R - 1) /\ 2 * t <= R /\ bredParams[t] = BRedParams(t)
    BY <1>5, Reducible
  <1>7. Sum(term(t)) \in Int
    <2> DEFINE x == term(t)
    <2>1. \A i \in 1..Len(Q) : x[i] \in Int
      BY <1>1, <1>2, <1>4, TermRange
    <2>2. x \in [1..Len(Q) -> Int]
      BY <1>4, <2>1
    <2> HIDE DEF x
    <2>3. Len(x) = Len(Q)
      BY <1>4, <2>2, IsASequence
    <2>4. Sum(x) \in Int
      BY <1>4, <2>1, <2>3, SumIsInt
    <2>5. QED
      BY <2>4 DEF x
  <1>8. sum(t) \in Int
    <2> DEFINE x == part(t)
    <2>1. ASSUME NEW i \in 1..Len(Q) PROVE x[i] \in Int
      <3> DEFINE q == Q[i]
                 r == rows[i]
                 u == ti(t, i)
                 d == p \div q
      <3>1. q \in Nat \ {0} /\ r \in Int /\ u \in Int
        BY <1>1, <1>2, <1>4, TermRange DEF Sound
      <3>2. x[i] = r * u * d
        BY <1>4
      <3> HIDE DEF x, q, r, u, p
      <3>3. d \in Int
        BY <1>4, <3>1
      <3> HIDE DEF d
      <3>4. r * u \in Int
        BY <3>1
      <3>5. (r * u) * d \in Int
        BY <3>3, <3>4
      <3>6. QED
        BY <3>2, <3>5
    <2>2. x \in [1..Len(Q) -> Int]
      BY <1>4, <2>1
    <2> HIDE DEF x
    <2>3. Len(x) = Len(Q)
      BY <1>4, <2>2, IsASequence
    <2>4. Sum(x) \in Int
      BY <1>4, <2>1, <2>3, SumIsInt
    <2>5. QED
      BY <2>4 DEF x
  <1>9. a(t) \in 0..(R - 1)
    BY <1>7, WrapRange
  <1> HIDE DEF a, sum, p, l
  <1>10. e \in Int
    BY <1>4, <1>8
  <1>11. a(t) + (e \div p) \in Int
    <2> DEFINE d == e \div p
    <2>1. d \in Int
      BY <1>4, <1>10
    <2> HIDE DEF d
    <2>2. a(t) + d \in Int
      BY <1>9, <2>1
    <2>3. QED
      BY <2>2 DEF d
  <1> DEFINE w == Wrap(a(t) + (e \div p))
  <1>12. w \in 0..(R - 1)
    BY <1>11, WrapRange
  <1>13. Become(<< "Scale" >>, << t >>, << reducealgoAdd(t, w) >>)
    BY <1>3
  <1> HIDE DEF w
  <1>14. reducealgoAdd(t, w) \in 0..t
    <2>1. BRedAdd(w, t, bredParams[t]) = w % t
      BY <1>6, <1>12, BarrettReduction
    <2>2. reducealgoAdd(t, w) = w % t
      BY <2>1 DEF reducealgoAdd
    <2>3. QED
      BY <1>6, <1>12, <2>2
  <1>15. QED
    BY <1>13, <1>14, ScaleFits

-----------------------------------------------------------------------------
(* The bounds *)

\* A step leaves the rows near their moduli.
LEMMA StepFits == IInv /\ [Next]_vars => IInv'
  <1>1. SUFFICES ASSUME IInv, [Next]_vars PROVE IInv'
    OBVIOUS
  <1>2. CASE Reduce
    BY <1>1, <1>2, ReduceFits
  <1>3. CASE ModUpSplitQP
    BY <1>1, <1>3, ModUpSplitQPFits
  <1>4. CASE ModUpSplitPQ
    BY <1>1, <1>4, ModUpSplitPQFits
  <1>5. CASE ModDownPQ
    BY <1>1, <1>5, ModDownPQFits
  <1>6. CASE ModDownNTTPQ
    BY <1>1, <1>6, ModDownNTTPQFits
  <1>7. CASE ModDownSplitQP
    BY <1>1, <1>7, ModDownSplitQPFits
  <1>8. CASE DivFloorByLastModulusMany
    BY <1>1, <1>8, DivFloorByLastModulusManyFits
  <1>9. CASE DivRoundByLastModulusMany
    BY <1>1, <1>9, DivRoundByLastModulusManyFits
  <1>10. CASE DivFloorByLastModulusNTT
    BY <1>1, <1>10, DivFloorByLastModulusNTTFits
  <1>11. CASE DivRoundByLastModulusNTT
    BY <1>1, <1>11, DivRoundByLastModulusNTTFits
  <1>12. CASE DecomposeAndSplit
    BY <1>1, <1>12, DecomposeAndSplitFits
  <1>13. CASE DivByQOverTRounded
    BY <1>1, <1>13, DivByQOverTRoundedFits
  <1>14. CASE reconstructThenScale
    BY <1>1, <1>14, reconstructThenScaleFits
  <1>15. CASE reconstructAndScale
    BY <1>1, <1>15, reconstructAndScaleFits
  <1>16. CASE UNCHANGED vars
    BY <1>1, <1>16 DEF vars, IInv, TypeOK, RowsFit, DigitBasis
  <1>17. CASE LeaveLazy
    BY <1>1, <1>17, LeaveLazyFits
  <1>18. QED
    BY <1>1, <1>2, <1>3, <1>4, <1>5, <1>6, <1>7, <1>8, <1>9, <1>10, <1>11, <1>12, <1>13,
       <1>14, <1>15, <1>16, <1>17 DEF Next

\* Whatever extensions, divisions, digits and scalings of
\* ring_basis_extension.go and ring_scaling.go follow one another, and whatever
\* the words, the moduli and the errors of the floating-point sums, every row
\* is a word near twice its modulus, which the next of them takes; only a digit
\* of one modulus may be further off.
THEOREM RowsStayNear == Spec => [](TypeOK /\ RowsFit)
  <1>1. Init => IInv
    BY InitFits
  <1>2. IInv /\ [Next]_vars => IInv'
    BY StepFits
  <1>3. IInv => TypeOK /\ RowsFit
    BY DEF IInv
  <1>4. QED
    BY <1>1, <1>2, <1>3, PTL DEF Spec

\* The type, apart: every row is a word, in one of the bases.
THEOREM RowsTyped == Spec => []TypeOK
  <1>1. TypeOK /\ RowsFit => TypeOK
    OBVIOUS
  <1>2. QED
    BY <1>1, RowsStayNear, PTL

-----------------------------------------------------------------------------
(* The integer behind the rows *)

\* The moduli of a basis, and their partial products.
Positive(x) == Len(x) \in Nat /\ \A k \in 1..Len(x) : x[k] \in Nat \ {0}
PartialProducts(f, x) ==
    /\ f[0] = 1 /\ \A k \in 0..Len(x) : f[k] \in Nat \ {0}
    /\ \A k \in 1..Len(x) : f[k] = x[k] * f[k - 1]

\* A product of positive numbers has positive partial products.
LEMMA ProductRuns ==
    ASSUME NEW x, Positive(x)
    PROVE  \E f : Product(x) = f[Len(x)] /\ PartialProducts(f, x)
  <1> DEFINE D == Nat \ {0}
  <1>1. Len(x) \in Nat /\ 1 \in D
    BY DEF Positive
  <1>2. \A k \in 1..Len(x), t \in D : (x[k] * t) \in D
    BY DEF Positive
  <1> HIDE DEF D
  <1>3. \E f : /\ Product(x) = f[Len(x)] /\ f[0] = 1 /\ \A k \in 0..Len(x) : f[k] \in D
               /\ \A k \in 1..Len(x) : f[k] = x[k] * f[k - 1]
    BY <1>1, <1>2, ProductFollows, Zenon
  <1>4. QED
    BY <1>3, Zenon DEF D, PartialProducts

Divides(a, b) == \E h \in Nat : b = a * h

\* A factor divides a product, and divisibility is transitive.
LEMMA DividesProduct ==
    ASSUME NEW a \in Nat, NEW b \in Nat, NEW c, c = a * b \/ c = b * a
    PROVE  Divides(a, c) /\ Divides(a, a)
  <1>1. a = a * 1 /\ b * a = a * b /\ 1 \in Nat
    OBVIOUS
  <1>2. QED
    BY <1>1 DEF Divides

\* What divides a divisor divides.
LEMMA DividesVia ==
    ASSUME NEW a \in Nat, NEW b \in Nat, NEW c \in Nat, Divides(a, b), Divides(b, c)
    PROVE  Divides(a, c)
  <1>1. PICK h \in Nat : b = a * h
    BY DEF Divides
  <1>2. PICK g \in Nat : c = b * g
    BY DEF Divides
  <1>3. c = a * (h * g) /\ h * g \in Nat
    BY <1>1, <1>2
  <1>4. QED
    BY <1>3 DEF Divides

\* A partial product divides the later ones.
LEMMA LaterFactors ==
    ASSUME NEW x, Positive(x), NEW f, PartialProducts(f, x), NEW j \in 0..Len(x), NEW k \in 0..j
    PROVE  Divides(f[k], f[j])
  <1> DEFINE n == Len(x)
             H == {i \in 0..n : \A l \in 0..i : Divides(f[l], f[i])}
  <1>1. n \in Nat /\ \A i \in 0..n : f[i] \in Nat
    BY DEF Positive, PartialProducts
  <1>2. 0 \in H
    <2>1. \A l \in 0..0 : l = 0
      OBVIOUS
    <2>2. 0 \in 0..n
      BY <1>1
    <2>3. Divides(f[0], f[0])
      BY <1>1, <2>2, DividesProduct
    <2>4. QED
      BY <2>1, <2>2, <2>3, Zenon
  <1>3. ASSUME NEW i \in 1..n, i - 1 \in H PROVE i \in H
    <2>1. i \in 0..n /\ i - 1 \in 0..n
      BY <1>1
    <2>2. x[i] \in Nat /\ f[i] = x[i] * f[i - 1]
      BY DEF Positive, PartialProducts
    <2>3. f[i] \in Nat /\ f[i - 1] \in Nat
      BY <1>1, <2>1, Zenon
    <2> HIDE DEF H, n
    <2>4. Divides(f[i], f[i]) /\ Divides(f[i - 1], f[i])
      BY <2>2, <2>3, DividesProduct
    <2> USE DEF H, n
    <2>5. ASSUME NEW l \in 0..i PROVE Divides(f[l], f[i])
      <3>1. CASE l = i
        BY <2>4, <3>1, Zenon
      <3>2. CASE l # i
        <4>1. l \in 0..(i - 1) /\ l \in 0..n
          BY <1>1, <3>2
        <4>2. Divides(f[l], f[i - 1])
          BY <1>3, <4>1, Zenon
        <4>3. QED
          BY <1>1, <2>3, <2>4, <4>1, <4>2, DividesVia, Zenon
      <3>3. QED
        BY <3>1, <3>2, Zenon
    <2>6. QED
      BY <2>1, <2>5, Zenon
  <1> HIDE DEF H
  <1>4. \A i \in 0..n : i \in H
    BY <1>1, <1>2, <1>3, Induction
  <1>5. QED
    BY <1>4, Zenon DEF H

\* The product of the other moduli.
Cofactor(x, i) == Product(x) \div x[i]

\* Of two products with a common factor, the other factors.
LEMMA CommonFactor ==
    ASSUME NEW a \in Nat \ {0}, NEW u \in Nat, NEW v \in Nat, NEW b \in Nat, NEW w \in Nat,
           a * w = (b * (a * u)) * v
    PROVE  Divides(b, w)
  <1>1. b * (a * u) = a * (b * u) /\ b * u \in Nat
    OBVIOUS
  <1> DEFINE p == b * u
  <1>2. p \in Nat /\ a * w = (a * p) * v
    BY <1>1
  <1>3. p * v = b * (u * v) /\ u * v \in Nat
    OBVIOUS
  <1> HIDE DEF p
  <1>4. (a * p) * v = a * (p * v) /\ p * v \in Nat
    BY <1>2
  <1> DEFINE z == p * v
  <1>5. z \in Nat /\ a * w = a * z
    BY <1>2, <1>4
  <1> HIDE DEF z
  <1>6. w = z
    BY <1>5
  <1>7. QED
    BY <1>3, <1>6 DEF z, Divides

\* The cofactor of a modulus is a multiple of each of the others.
LEMMA Cofactors ==
    ASSUME NEW x, Positive(x), NEW i \in 1..Len(x)
    PROVE  /\ Product(x) \in Nat \ {0} /\ Cofactor(x, i) \in Nat \ {0}
           /\ Product(x) = x[i] * Cofactor(x, i)
           /\ \A j \in 1..Len(x) : j # i => Divides(x[j], Cofactor(x, i))
  <1> DEFINE n == Len(x)
  <1>1. PICK f : Product(x) = f[n] /\ PartialProducts(f, x)
    BY ProductRuns, Zenon
  <1>2. /\ n \in Nat /\ n \in 0..n /\ i \in 0..n /\ i - 1 \in 0..n /\ i \in Nat /\ i \in 0..n
        /\ \A k \in 0..n : f[k] \in Nat \ {0} /\ f[k] \in Nat
        /\ \A k \in 1..n : x[k] \in Nat \ {0} /\ x[k] \in Nat /\ f[k] = x[k] * f[k - 1]
    BY <1>1 DEF Positive, PartialProducts
  <1>3. Divides(f[i], f[n])
    BY <1>1, <1>2, LaterFactors, Zenon
  <1>4. PICK h \in Nat : f[n] = f[i] * h
    BY <1>3, Zenon DEF Divides
  <1> DEFINE c == f[i - 1] * h
  <1>5. c \in Nat \ {0} /\ f[n] = x[i] * c
    <2>1. ASSUME NEW a \in Nat \ {0}, NEW b \in Nat \ {0}, NEW d \in Nat, NEW e \in Nat \ {0},
                 e = (a * b) * d
          PROVE  e = a * (b * d) /\ b * d \in Nat \ {0}
      <3>1. d # 0
        BY <2>1
      <3>2. QED
        BY <2>1, <3>1
    <2>2. f[n] = (x[i] * f[i - 1]) * h
      BY <1>2, <1>4, Zenon
    <2>3. f[n] \in Nat \ {0} /\ x[i] \in Nat \ {0} /\ f[i - 1] \in Nat \ {0}
      BY <1>2, Zenon
    <2>4. f[n] = x[i] * (f[i - 1] * h) /\ f[i - 1] * h \in Nat \ {0}
      BY <1>4, <2>1, <2>2, <2>3, Zenon
    <2>5. QED
      BY <2>4, Zenon
  <1>6. f[n] \div x[i] = c
    <2>1. 0 \in 0..(x[i] - 1) /\ x[i] * c + 0 = x[i] * c /\ c \in Int /\ x[i] \in Nat \ {0}
      BY <1>2, <1>5
    <2> HIDE DEF c
    <2>2. (x[i] * c + 0) \div x[i] = c
      BY <2>1, DivModUnique, Zenon
    <2>3. QED
      BY <1>5, <2>1, <2>2, Zenon
  <1>7. c \in Nat /\ f[i - 1] \in Nat
    BY <1>2, <1>5
  <1>8. ASSUME NEW j \in 1..n, j # i PROVE Divides(x[j], c)
    <2>1. j \in 0..n /\ j - 1 \in 0..n /\ j \in Nat
      BY <1>2
    <2>2. CASE j < i
      <3>1. j \in 0..(i - 1)
        BY <1>2, <2>1, <2>2
      <3>2. Divides(f[j], f[i - 1])
        BY <1>1, <1>2, <3>1, LaterFactors, Zenon
      <3>3. Divides(x[j], f[j])
        <4>1. f[j - 1] \in Nat
          BY <1>2, <2>1, Zenon
        <4>2. x[j] \in Nat /\ f[j] = x[j] * f[j - 1]
          BY <1>2, Zenon
        <4>3. QED
          BY <4>1, <4>2, DividesProduct
      <3>4. Divides(f[i - 1], c)
        BY <1>7, DividesProduct
      <3> HIDE DEF c
      <3>5. x[j] \in Nat /\ f[j] \in Nat
        BY <1>2, <2>1, Zenon
      <3>6. Divides(x[j], f[i - 1])
        BY <1>7, <3>2, <3>3, <3>5, DividesVia
      <3>7. QED
        BY <1>7, <3>4, <3>5, <3>6, DividesVia
    <2>3. CASE i < j
      <3>1. i \in 0..(j - 1)
        BY <1>2, <2>1, <2>3
      <3>2. Divides(f[i], f[j - 1]) /\ Divides(f[j], f[n])
        BY <1>1, <1>2, <2>1, <3>1, LaterFactors, Zenon
      <3>3. PICK g \in Nat : f[j - 1] = f[i] * g
        BY <3>2, Zenon DEF Divides
      <3>4. PICK e \in Nat : f[n] = f[j] * e
        BY <3>2, Zenon DEF Divides
      <3>5. /\ x[i] \in Nat \ {0} /\ x[j] \in Nat /\ f[i - 1] \in Nat
            /\ f[j] = x[j] * f[j - 1] /\ f[i] = x[i] * f[i - 1] /\ f[j - 1] \in Nat
        BY <1>2, <2>1, Zenon
      <3> HIDE DEF c
      <3>6. f[j - 1] = x[i] * (f[i - 1] * g) /\ f[i - 1] * g \in Nat
        <4> DEFINE a == x[i]
                   b == f[i - 1]
        <4>1. a \in Nat /\ b \in Nat /\ f[j - 1] = (a * b) * g
          BY <3>3, <3>5
        <4> HIDE DEF a, b
        <4>2. (a * b) * g = a * (b * g) /\ b * g \in Nat
          BY <4>1
        <4>3. QED
          BY <4>1, <4>2 DEF a, b
      <3>7. x[i] * c = (x[j] * (x[i] * (f[i - 1] * g))) * e
        <4>1. f[j] = x[j] * (x[i] * (f[i - 1] * g))
          <5>1. f[j] = x[j] * f[j - 1]
            BY <3>5
          <5>2. f[j - 1] = x[i] * (f[i - 1] * g)
            BY <3>6
          <5>3. QED
            BY <5>1, <5>2, Zenon
        <4>2. f[n] = x[i] * c
          BY <1>5
        <4>3. f[n] = f[j] * e
          BY <3>4
        <4>4. x[i] * c = f[j] * e
          BY <4>2, <4>3, Zenon
        <4>5. QED
          BY <4>1, <4>4, Zenon
      <3>8. QED
        <4>1. x[i] \in Nat \ {0} /\ x[j] \in Nat /\ c \in Nat /\ e \in Nat /\ f[i - 1] * g \in Nat
          BY <1>7, <3>4, <3>5, <3>6
        <4> DEFINE u == f[i - 1] * g
        <4> HIDE DEF u
        <4>2. u \in Nat /\ x[i] * c = (x[j] * (x[i] * u)) * e
          BY <3>7, <4>1 DEF u
        <4>3. QED
          BY <4>1, <4>2, CommonFactor, Zenon
    <2>4. QED
      BY <1>2, <1>8, <2>1, <2>2, <2>3
  <1> HIDE DEF c
  <1>9. Product(x) \in Nat \ {0} /\ Cofactor(x, i) = c /\ Product(x) = x[i] * c
    BY <1>1, <1>2, <1>5, <1>6, Zenon DEF Cofactor
  <1>10. QED
    BY <1>5, <1>8, <1>9, Zenon

\* Moduli whose cofactors have inverses.
InverseOf(B, i) == ModInverse(Cofactor(B, i) % B[i], B[i])
Coprime(B) ==
    /\ Positive(B) /\ DOMAIN B = 1..Len(B) /\ \A i \in 1..Len(B) : 2 <= B[i]
    /\ \A i \in 1..Len(B) : /\ InverseOf(B, i) \in 0..(B[i] - 1)
                            /\ Congruent(Cofactor(B, i) * InverseOf(B, i), 1, B[i])

Multiple(d, q) == \E g \in Int : d = q * g

\* A remainder of zero, and two equal ones.
LEMMA MultipleIs ==
    ASSUME NEW q \in Nat \ {0}, NEW d \in Int
    PROVE  d % q = 0 <=> Multiple(d, q)
  <1>1. ASSUME d % q = 0 PROVE \E g \in Int : d = q * g
    <2>1. d \div q \in Int /\ d = (q * (d \div q)) + (d % q)
      BY DivMod
    <2> DEFINE g == d \div q
    <2>2. g \in Int /\ d = (q * g) + 0
      BY <1>1, <2>1
    <2> HIDE DEF g
    <2>3. QED
      BY <2>2
  <1>2. ASSUME NEW g \in Int, d = q * g PROVE d % q = 0
    <2>1. 0 \in 0..(q - 1) /\ d = (q * g) + 0
      BY <1>2
    <2>2. QED
      BY <2>1, DivModUnique, Zenon
  <1>3. QED
    BY <1>1, <1>2 DEF Multiple

\* Congruent numbers differ by a multiple.
LEMMA CongruentBy ==
    ASSUME NEW q \in Nat \ {0}, NEW a \in Int, NEW b \in Int
    PROVE  Congruent(a, b, q) <=> Multiple(a - b, q)
  <1>1. a - b \in Int /\ a % q \in 0..(q - 1) /\ b % q \in 0..(q - 1)
    OBVIOUS
  <1>2. ((a % q) - (b % q)) % q = (a - b) % q
    BY ModDiff, Zenon
  <1>3. ASSUME a % q = b % q PROVE (a - b) % q = 0
    <2>1. (a % q) - (b % q) = 0 /\ 0 % q = 0
      BY <1>1, <1>3
    <2>2. QED
      BY <1>2, <2>1
  <1>4. ASSUME Multiple(a - b, q) PROVE a % q = b % q
    <2>1. PICK g \in Int : a - b = q * g
      BY <1>4, Zenon DEF Multiple
    <2>2. a = b + (g * q)
      BY <2>1
    <2>3. (b + (g * q)) % q = b % q
      BY ModPlus, Zenon
    <2>4. QED
      BY <2>2, <2>3, Zenon
  <1>5. QED
    BY <1>1, <1>3, <1>4, MultipleIs, Zenon DEF Congruent

\* What b and p divide, when p has an inverse modulo b.
LEMMA BothDivide ==
    ASSUME NEW d \in Int, NEW p \in Int, NEW b \in Nat \ {0}, Multiple(d, p), Multiple(d, b),
           NEW h \in Int, NEW y \in Int, Congruent((p * h) * y, 1, b)
    PROVE  Multiple(d, b * p)
  <1>1. PICK g \in Int : d = p * g
    BY Zenon DEF Multiple
  <1>2. PICK e \in Int : d = b * e
    BY Zenon DEF Multiple
  <1>3. PICK w \in Int : ((p * h) * y) - 1 = b * w
    <2>1. (p * h) * y \in Int /\ 1 \in Int
      OBVIOUS
    <2>2. Multiple(((p * h) * y) - 1, b)
      BY <2>1, CongruentBy, Zenon
    <2>3. QED
      BY <2>2, Zenon DEF Multiple
  <1> DEFINE v == (e * (h * y)) - (g * w)
  <1>4. v \in Int
    OBVIOUS
  <1>5. g = b * v
    <2> DEFINE s == g * ((p * h) * y)
               t == b * (e * (h * y))
               u == b * (g * w)
    <2>1. g * ((p * h) * y) = g + (b * (g * w))
      <3> DEFINE z == (p * h) * y
      <3>1. z \in Int /\ z = 1 + (b * w)
        BY <1>3
      <3> HIDE DEF z
      <3>2. g * z = g + (b * (g * w))
        BY <3>1
      <3>3. QED
        BY <3>2 DEF z
    <2>2. g * ((p * h) * y) = (p * g) * (h * y)
      BY Z3
    <2>3. (b * e) * (h * y) = b * (e * (h * y))
      BY Z3
    <2>4. b * v = (b * (e * (h * y))) - (b * (g * w))
      BY Z3
    <2>5. s = g + u /\ s = t /\ b * v = t - u
      BY <1>1, <1>2, <2>1, <2>2, <2>3, <2>4, Zenon
    <2>6. s \in Int /\ t \in Int /\ u \in Int
      OBVIOUS
    <2> HIDE DEF s, t, u, v
    <2>7. QED
      BY <2>5, <2>6
  <1> HIDE DEF v
  <1>6. d = (b * p) * v
    BY <1>1, <1>4, <1>5
  <1>7. QED
    BY <1>4, <1>6 DEF Multiple

\* What every modulus divides, their product divides.
LEMMA ProductDivides ==
    ASSUME NEW B, Coprime(B), NEW d \in Int, \A i \in 1..Len(B) : d % B[i] = 0
    PROVE  d % Product(B) = 0
  <1> DEFINE n == Len(B)
  <1>1. Positive(B) /\ n \in Nat
    BY DEF Coprime, Positive
  <1>2. PICK f : Product(B) = f[n] /\ PartialProducts(f, B)
    BY <1>1, ProductRuns, Zenon
  <1> DEFINE D == {k \in 0..n : Multiple(d, f[k])}
  <1>3. /\ \A k \in 0..n : f[k] \in Nat \ {0}
        /\ \A k \in 1..n : B[k] \in Nat \ {0} /\ f[k] = B[k] * f[k - 1]
        /\ f[0] = 1
    BY <1>1, <1>2 DEF Positive, PartialProducts
  <1>4. 0 \in D
    <2>1. 0 \in 0..n /\ d = 1 * d
      BY <1>1
    <2>2. Multiple(d, 1)
      BY <2>1 DEF Multiple
    <2>3. QED
      BY <1>3, <2>1, <2>2, Zenon
  <1>5. ASSUME NEW k \in 1..n, k - 1 \in D PROVE k \in D
    <2>1. k \in 0..n /\ k - 1 \in 0..n /\ n \in 0..n /\ k \in 0..n
      BY <1>1
    <2>2. Multiple(d, f[k - 1])
      BY <1>5, Zenon
    <2>3. /\ f[k - 1] \in Nat /\ f[k - 1] \in Int /\ B[k] \in Nat \ {0} /\ B[k] \in Int
          /\ f[k] = B[k] * f[k - 1]
      BY <1>3, <2>1
    <2>4. Multiple(d, B[k])
      BY <2>3, MultipleIs, Zenon
    <2>5. Divides(f[k - 1], Cofactor(B, k))
      <3>1. Divides(f[k], f[n])
        BY <1>1, <1>2, <2>1, LaterFactors, Zenon
      <3>2. PICK h \in Nat : f[n] = f[k] * h
        BY <3>1, Zenon DEF Divides
      <3>3. Cofactor(B, k) \in Nat \ {0} /\ Product(B) = B[k] * Cofactor(B, k)
        BY <1>1, Cofactors, Zenon
      <3> DEFINE c == Cofactor(B, k)
      <3>4. c \in Nat /\ 1 \in Nat /\ B[k] * c = (B[k] * f[k - 1]) * h
        BY <1>2, <2>3, <3>2, <3>3
      <3> HIDE DEF c
      <3>5. B[k] * c = (f[k - 1] * (B[k] * 1)) * h
        BY <2>3, <3>2, <3>4
      <3>6. Divides(f[k - 1], c)
        BY <2>3, <3>4, <3>5, CommonFactor, Zenon
      <3>7. QED
        BY <3>6 DEF c
    <2>6. PICK h \in Nat : Cofactor(B, k) = f[k - 1] * h
      BY <2>5, Zenon DEF Divides
    <2>7. PICK y \in Int : Congruent(Cofactor(B, k) * y, 1, B[k])
      <3>1. InverseOf(B, k) \in Int
        BY DEF Coprime
      <3>2. Congruent(Cofactor(B, k) * InverseOf(B, k), 1, B[k])
        BY Zenon DEF Coprime
      <3>3. QED
        BY <3>1, <3>2, Zenon
    <2>8. h \in Int /\ Congruent((f[k - 1] * h) * y, 1, B[k])
      BY <2>6, <2>7
    <2>9. Multiple(d, B[k] * f[k - 1])
      BY <2>2, <2>3, <2>4, <2>8, BothDivide, Zenon
    <2>10. QED
      BY <2>1, <2>3, <2>9, Zenon
  <1> HIDE DEF D
  <1>6. \A k \in 0..n : k \in D
    BY <1>1, <1>4, <1>5, Induction
  <1>7. n \in 0..n
    BY <1>1
  <1>8. Multiple(d, f[n])
    BY <1>6, <1>7, Zenon DEF D
  <1>9. f[n] \in Nat \ {0}
    BY <1>3, <1>7, Zenon
  <1>10. QED
    BY <1>2, <1>8, <1>9, MultipleIs

\* Partial sums of x.
PartialRuns(f, x) ==
    /\ f[0] = 0 /\ \A k \in 0..Len(x) : f[k] \in Int
    /\ \A k \in 1..Len(x) : f[k] = x[k] + f[k - 1]
IntRow(x, n) == n \in Nat /\ Len(x) = n /\ \A k \in 1..n : x[k] \in Int
LEMMA SumRuns ==
    ASSUME NEW n, NEW x, IntRow(x, n)
    PROVE  \E f : Sum(x) = f[n] /\ PartialRuns(f, x)
  <1> DEFINE D == Int
  <1>1. Len(x) = n /\ n \in Nat /\ 0 \in D
    BY DEF IntRow
  <1>2. \A k \in 1..n, t \in D : (x[k] + t) \in D
    BY DEF IntRow
  <1> HIDE DEF D
  <1>3. \E f : /\ Sum(x) = f[Len(x)] /\ f[0] = 0 /\ \A k \in 0..Len(x) : f[k] \in D
               /\ \A k \in 1..Len(x) : f[k] = x[k] + f[k - 1]
    BY <1>1, <1>2, SumFollows
  <1>4. QED
    BY <1>1, <1>3, Zenon DEF D, PartialRuns

\* A sum of multiples is a multiple of the sum, modulo q.
LEMMA SumTimes ==
    ASSUME NEW q \in Nat \ {0}, NEW n, NEW c \in Int, NEW x, NEW y, IntRow(x, n), IntRow(y, n),
           \A k \in 1..n : Congruent(x[k], c * y[k], q)
    PROVE  Congruent(Sum(x), c * Sum(y), q)
  <1>1. PICK f : Sum(x) = f[n] /\ PartialRuns(f, x)
    BY SumRuns, Zenon
  <1>2. PICK g : Sum(y) = g[n] /\ PartialRuns(g, y)
    BY SumRuns, Zenon
  <1>3. /\ n \in Nat /\ f[0] = 0 /\ g[0] = 0 /\ \A k \in 0..n : f[k] \in Int /\ g[k] \in Int
        /\ \A k \in 1..n : f[k] = x[k] + f[k - 1] /\ g[k] = y[k] + g[k - 1]
        /\ \A k \in 1..n : x[k] \in Int /\ y[k] \in Int
    BY <1>1, <1>2 DEF PartialRuns, IntRow
  <1> DEFINE H == {k \in 0..n : Congruent(f[k], c * g[k], q)}
  <1>4. 0 \in H
    <2>1. 0 \in 0..n /\ f[0] = c * g[0]
      BY <1>3
    <2>2. QED
      BY <2>1 DEF Congruent
  <1>5. ASSUME NEW k \in 1..n, k - 1 \in H PROVE k \in H
    <2>1. k \in 0..n /\ k - 1 \in 0..n
      BY <1>3
    <2> DEFINE a == x[k]
               b == f[k - 1]
               d == y[k]
               e == g[k - 1]
    <2>2. a \in Int /\ b \in Int /\ d \in Int /\ e \in Int /\ f[k] = a + b /\ g[k] = d + e
      BY <1>3, <2>1
    <2>3. Congruent(a, c * d, q) /\ Congruent(b, c * e, q)
      BY <1>5
    <2> HIDE DEF a, b, d, e
    <2>4. c * d \in Int /\ c * e \in Int /\ c * (d + e) = (c * d) + (c * e)
      BY <2>2
    <2>5. Congruent(a + b, (c * d) + (c * e), q)
      BY <2>2, <2>3, <2>4, CongruentSum, Zenon
    <2>6. Congruent(f[k], c * g[k], q)
      BY <2>2, <2>4, <2>5, Zenon
    <2>7. QED
      BY <2>1, <2>6
  <1> HIDE DEF H
  <1>6. \A k \in 0..n : k \in H
    BY <1>3, <1>4, <1>5, Induction
  <1>7. n \in 0..n
    BY <1>3
  <1>8. QED
    BY <1>1, <1>2, <1>6, <1>7, Zenon DEF H

\* A sum with one term that is not zero modulo q.
LEMMA SumOfOne ==
    ASSUME NEW q \in Nat \ {0}, NEW n, NEW x, IntRow(x, n), NEW i \in 1..n,
           \A k \in 1..n : k # i => Congruent(x[k], 0, q)
    PROVE  Congruent(Sum(x), x[i], q)
  <1>1. PICK f : Sum(x) = f[n] /\ PartialRuns(f, x)
    BY SumRuns, Zenon
  <1>2. /\ n \in Nat /\ f[0] = 0 /\ \A k \in 0..n : f[k] \in Int
        /\ \A k \in 1..n : f[k] = x[k] + f[k - 1] /\ x[k] \in Int
    BY <1>1 DEF PartialRuns, IntRow
  <1> DEFINE upto(k) == IF k < i THEN 0 ELSE x[i]
             H == {k \in 0..n : Congruent(f[k], upto(k), q)}
  <1>3. 0 \in H
    <2>1. 0 \in 0..n /\ f[0] = upto(0)
      BY <1>2
    <2>2. QED
      BY <2>1 DEF Congruent
  <1>4. ASSUME NEW k \in 1..n, k - 1 \in H PROVE k \in H
    <2>1. k \in 0..n /\ k - 1 \in 0..n /\ 0 \in Int /\ 0 + 0 = 0
      BY <1>2
    <2> DEFINE a == x[k]
               b == f[k - 1]
    <2>2. a \in Int /\ b \in Int /\ f[k] = a + b /\ Congruent(b, upto(k - 1), q)
      BY <1>2, <1>4, <2>1
    <2>3. CASE k < i
      <3>1. Congruent(a, 0, q) /\ upto(k - 1) = 0 /\ upto(k) = 0
        BY <1>2, <2>3
      <3>2. Congruent(b, 0, q)
        BY <2>2, <3>1, Zenon
      <3> HIDE DEF a, b, upto
      <3>3. Congruent(a + b, 0 + 0, q)
        BY <2>1, <2>2, <3>1, <3>2, CongruentSum, Zenon
      <3>4. QED
        BY <2>1, <2>2, <3>1, <3>3
    <2>4. CASE k = i
      <3>1. a = x[i] /\ upto(k - 1) = 0 /\ upto(k) = x[i]
        BY <1>2, <2>4
      <3>2. Congruent(b, 0, q)
        BY <2>2, <3>1, Zenon
      <3> HIDE DEF a, b, upto
      <3>3. Congruent(a, a, q)
        BY DEF Congruent
      <3>4. Congruent(a + b, a + 0, q) /\ a + 0 = a
        BY <2>1, <2>2, <3>2, <3>3, CongruentSum
      <3>5. QED
        BY <2>1, <2>2, <3>1, <3>4
    <2>5. CASE k > i
      <3>1. Congruent(a, 0, q) /\ upto(k - 1) = x[i] /\ upto(k) = x[i] /\ x[i] \in Int
        BY <1>2, <2>5
      <3>2. Congruent(b, x[i], q)
        BY <2>2, <3>1, Zenon
      <3> HIDE DEF a, b, upto
      <3>3. Congruent(a + b, 0 + x[i], q)
        BY <2>1, <2>2, <3>1, <3>2, CongruentSum, Zenon
      <3>4. 0 + x[i] = x[i]
        BY <3>1
      <3>5. QED
        BY <2>1, <2>2, <3>1, <3>3, <3>4, Zenon
    <2>6. QED
      BY <1>2, <2>1, <2>3, <2>4, <2>5
  <1> HIDE DEF H
  <1>5. \A k \in 0..n : k \in H
    BY <1>2, <1>3, <1>4, Induction
  <1>6. n \in 0..n /\ upto(n) = x[i]
    BY <1>2
  <1> HIDE DEF upto
  <1>7. QED
    BY <1>1, <1>5, <1>6, Zenon DEF H

\* What is congruent modulo p is congruent modulo a divisor of p.
LEMMA CongruentDown ==
    ASSUME NEW q \in Nat \ {0}, NEW p \in Nat \ {0}, Divides(q, p), NEW a \in Int, NEW b \in Int,
           Congruent(a, b, p)
    PROVE  Congruent(a, b, q)
  <1>1. PICK h \in Nat : p = q * h
    BY Zenon DEF Divides
  <1>2. PICK g \in Int : a - b = p * g
    BY CongruentBy DEF Multiple
  <1>3. a - b = q * (h * g) /\ h * g \in Int
    BY <1>1, <1>2
  <1>4. QED
    BY <1>3, CongruentBy DEF Multiple

\* The rows x stand for the integer e modulo the moduli of B.
StandsFor(x, B, e) ==
    /\ e \in Int /\ DOMAIN x = 1..Len(B) /\ \A i \in 1..Len(B) : x[i] \in Int
    /\ \A i \in 1..Len(B) : Congruent(x[i], e, B[i])

\* A term of the reconstruction: a row times the factor of its modulus.
Term(x, B) == [i \in DOMAIN x |-> (x[i] % B[i]) * CrtFactor[B][i]]

\* The factor of a modulus is 1 modulo it and 0 modulo the others.
LEMMA CrtFactorIs ==
    ASSUME NEW B \in Bases, Coprime(B), NEW i \in 1..Len(B)
    PROVE  /\ CrtFactor[B][i] \in Nat
           /\ Congruent(CrtFactor[B][i], 1, B[i])
           /\ \A j \in 1..Len(B) : j # i => Congruent(CrtFactor[B][i], 0, B[j])
  <1> DEFINE p == Product(B)
             c == Cofactor(B, i)
             y == InverseOf(B, i)
             f == CrtFactor[B][i]
  <1>1. Positive(B) /\ DOMAIN B = 1..Len(B)
    BY Zenon DEF Coprime
  <1>2. /\ p \in Nat \ {0} /\ c \in Nat \ {0} /\ p = B[i] * c
        /\ \A j \in 1..Len(B) : j # i => Divides(B[j], c)
    BY <1>1, Cofactors, Zenon
  <1>3. \A j \in 1..Len(B) : B[j] \in Nat \ {0} /\ B[j] \in Nat
    BY <1>1 DEF Positive
  <1>4. y \in Int /\ Congruent(c * y, 1, B[i])
    BY <1>3 DEF Coprime
  <1>5. f = (c * y) % p
    BY <1>1, Zenon DEF CrtFactor, Cofactor, InverseOf
  <1> HIDE DEF f
  <1> DEFINE z == c * y
  <1>6. z \in Int
    BY <1>2, <1>4
  <1>7. f \in 0..(p - 1) /\ Congruent(f, z, p) /\ f \in Nat /\ f \in Int
    <2>1. z % p \in 0..(p - 1) /\ z % p \in Nat
      BY <1>2, <1>6
    <2>2. Congruent(z % p, z, p)
      BY <1>2, <1>6, CongruentIs, Zenon
    <2>3. QED
      BY <1>5, <2>1, <2>2
  <1>8. \A j \in 1..Len(B) : Divides(B[j], p)
    <2>1. ASSUME NEW j \in 1..Len(B) PROVE Divides(B[j], p)
      <3>1. p = B[j] * Cofactor(B, j) /\ Cofactor(B, j) \in Nat
        BY <1>1, Cofactors
      <3>2. QED
        BY <1>3, <3>1 DEF Divides
    <2>2. QED
      BY <2>1
  <1>9. \A j \in 1..Len(B) : Congruent(f, z, B[j])
    <2> HIDE DEF p, z
    <2>1. QED
      BY <1>2, <1>3, <1>6, <1>7, <1>8, CongruentDown, Zenon
  <1>10. Congruent(f, 1, B[i])
    BY <1>4, <1>9, CongruentVia, Zenon
  <1>11. ASSUME NEW j \in 1..Len(B), j # i PROVE Congruent(f, 0, B[j])
    <2>1. PICK h \in Nat : c = B[j] * h
      BY <1>2, <1>11, Zenon DEF Divides
    <2> HIDE DEF c, y
    <2>2. z - 0 = B[j] * (h * y) /\ h * y \in Int
      BY <1>3, <1>4, <2>1
    <2>3. Multiple(z - 0, B[j]) /\ 0 \in Int
      BY <2>2 DEF Multiple
    <2> HIDE DEF z
    <2>4. Congruent(z, 0, B[j])
      BY <1>3, <1>6, <2>3, CongruentBy, Zenon
    <2>5. QED
      BY <1>9, <2>4, CongruentVia, Zenon
  <1>12. QED
    BY <1>7, <1>10, <1>11, Zenon DEF f

\* The reconstructed integer has the rows as residues.
LEMMA ReconstructedHas ==
    ASSUME NEW B \in Bases, Coprime(B), NEW x, DOMAIN x = 1..Len(B), \A k \in 1..Len(B) : x[k] \in Int
    PROVE  /\ Reconstructed(x, B) \in 0..(Product(B) - 1)
           /\ \A i \in 1..Len(B) : Congruent(Reconstructed(x, B), x[i], B[i])
  <1> DEFINE n == Len(B)
             p == Product(B)
             s == Term(x, B)
             v == Reconstructed(x, B)
  <1>1. Positive(B) /\ n \in Nat /\ \A j \in 1..n : B[j] \in Nat \ {0} /\ B[j] \in Nat
    BY DEF Coprime, Positive
  <1>2. \A i \in 1..n : s[i] = (x[i] % B[i]) * CrtFactor[B][i]
    BY Zenon DEF Term
  <1>3. v = Sum(s) % p
    BY Zenon DEF Term, Reconstructed
  <1>4. IntRow(s, n)
    <2>1. ASSUME NEW k \in 1..n PROVE s[k] \in Int
      <3>1. x[k] % B[k] \in Int
        BY <1>1
      <3>2. CrtFactor[B][k] \in Int
        BY CrtFactorIs
      <3>3. QED
        BY <1>2, <3>1, <3>2
    <2>2. s \in [1..n -> Int]
      BY <2>1 DEF Term
    <2>3. Len(s) = n
      BY <1>1, <2>2, IsASequence
    <2>4. QED
      BY <1>1, <2>1, <2>3 DEF IntRow
  <1> HIDE DEF s, v
  <1>5. p \in Nat \ {0} /\ \A j \in 1..n : Divides(B[j], p)
    <2>1. ASSUME NEW j \in 1..n PROVE Divides(B[j], p)
      <3>1. p = B[j] * Cofactor(B, j) /\ Cofactor(B, j) \in Nat
        BY <1>1, Cofactors
      <3>2. QED
        BY <1>1, <3>1 DEF Divides
    <2>2. p \in Nat \ {0}
      BY <1>1, ProductRuns DEF PartialProducts
    <2>3. QED
      BY <2>1, <2>2
  <1>6. Sum(s) \in Int /\ v \in 0..(p - 1) /\ v \in Int
    <2>1. Sum(s) \in Int
      BY <1>4, SumIsInt DEF IntRow
    <2>2. QED
      BY <1>3, <1>5, <2>1
  <1>7. Congruent(v, Sum(s), p)
    BY <1>3, <1>5, <1>6, CongruentIs
  <1>8. ASSUME NEW i \in 1..n PROVE Congruent(v, x[i], B[i])
    <2>1. Congruent(v, Sum(s), B[i])
      BY <1>1, <1>5, <1>6, <1>7, CongruentDown, Zenon
    <2>2. ASSUME NEW k \in 1..n, k # i PROVE Congruent(s[k], 0, B[i])
      <3> DEFINE a == x[k] % B[k]
                 c == CrtFactor[B][k]
      <3>1. a \in Int /\ c \in Int /\ s[k] = a * c /\ Congruent(c, 0, B[i]) /\ 0 \in Int
        BY <1>1, <1>2, <2>2, CrtFactorIs
      <3>2. Congruent(a, a, B[i])
        BY DEF Congruent
      <3> HIDE DEF a, c
      <3>3. Congruent(a * c, a * 0, B[i])
        BY <1>1, <3>1, <3>2, CongruentProduct, Zenon
      <3>4. a * 0 = 0
        BY <3>1
      <3>5. QED
        BY <3>1, <3>3, <3>4, Zenon
    <2>3. Congruent(Sum(s), s[i], B[i])
      BY <1>1, <1>4, <2>2, SumOfOne, Zenon
    <2>4. Congruent(s[i], x[i], B[i])
      <3> DEFINE a == x[i] % B[i]
                 c == CrtFactor[B][i]
      <3>1. a \in Int /\ c \in Int /\ s[i] = a * c /\ Congruent(c, 1, B[i]) /\ 1 \in Int
        BY <1>1, <1>2, CrtFactorIs
      <3>2. Congruent(a, x[i], B[i])
        BY <1>1, CongruentIs
      <3> HIDE DEF a, c
      <3>3. Congruent(a * c, x[i] * 1, B[i])
        BY <1>1, <3>1, <3>2, CongruentProduct, Zenon
      <3>4. x[i] * 1 = x[i]
        OBVIOUS
      <3>5. QED
        BY <3>1, <3>3, <3>4, Zenon
    <2>5. QED
      BY <2>1, <2>3, <2>4, CongruentVia, Zenon
  <1>9. QED
    BY <1>6, <1>8, Zenon DEF v

\* Two integers with the same residues by every modulus have the same residue
\* by their product.
THEOREM ResiduesDetermine ==
    ASSUME NEW B, Coprime(B), NEW a \in Int, NEW b \in Int,
           \A i \in 1..Len(B) : Congruent(a, b, B[i])
    PROVE  Congruent(a, b, Product(B))
  <1> DEFINE d == a - b
  <1>1. d \in Int /\ Positive(B) /\ \A i \in 1..Len(B) : B[i] \in Nat \ {0}
    BY DEF Coprime, Positive
  <1>2. ASSUME NEW i \in 1..Len(B) PROVE d % B[i] = 0
    <2>1. Multiple(d, B[i])
      BY <1>1, CongruentBy, Zenon
    <2>2. QED
      BY <1>1, <2>1, MultipleIs, Zenon
  <1>3. d % Product(B) = 0
    BY <1>1, <1>2, ProductDivides, Zenon
  <1>4. Product(B) \in Nat \ {0}
    BY <1>1, ProductRuns DEF PartialProducts, Positive
  <1>5. Multiple(d, Product(B))
    BY <1>1, <1>3, <1>4, MultipleIs, Zenon
  <1>6. QED
    BY <1>4, <1>5, CongruentBy, Zenon

\* What rows reconstruct is the integer they stand for, up to the product.
LEMMA ValueIs ==
    ASSUME NEW B \in Bases, Coprime(B), NEW x, NEW e, StandsFor(x, B, e)
    PROVE  Reconstructed(x, B) = e % Product(B)
  <1> DEFINE v == Reconstructed(x, B)
             p == Product(B)
  <1>1. /\ e \in Int /\ DOMAIN x = 1..Len(B) /\ \A i \in 1..Len(B) : x[i] \in Int
        /\ \A i \in 1..Len(B) : Congruent(x[i], e, B[i])
    BY Zenon DEF StandsFor
  <1>2. v \in 0..(p - 1) /\ \A i \in 1..Len(B) : Congruent(v, x[i], B[i])
    BY <1>1, ReconstructedHas, Zenon
  <1>3. p \in Nat \ {0}
    BY ProductRuns DEF Coprime, PartialProducts, Positive
  <1>4. v \in Int
    BY <1>2, <1>3
  <1>5. \A i \in 1..Len(B) : Congruent(v, e, B[i])
    BY <1>1, <1>2, CongruentVia, Zenon
  <1>6. Congruent(v, e, p)
    BY <1>1, <1>4, <1>5, ResiduesDetermine, Zenon
  <1>7. v % p = v
    BY <1>2, <1>3, <1>4, ModSmall
  <1>8. QED
    BY <1>6, <1>7, Zenon DEF Congruent

\* An inverse that exists is found.
HasInverse(c, q) == \E y \in 0..(q - 1) : ((c % q) * y) % q = 1 % q
LEMMA InverseFound ==
    ASSUME NEW q \in Nat \ {0}, NEW c \in Nat, HasInverse(c, q)
    PROVE  /\ ModInverse(c % q, q) \in 0..(q - 1)
           /\ Congruent(c * ModInverse(c % q, q), 1, q)
  <1> DEFINE x == c % q
             y == ModInverse(x, q)
  <1>1. \E z \in 0..(q - 1) : (x * z) % q = 1 % q
    BY Zenon DEF HasInverse
  <1>2. y = CHOOSE z \in 0..(q - 1) : (x * z) % q = 1 % q
    BY Zenon DEF ModInverse
  <1> HIDE DEF x, y
  <1>3. y \in 0..(q - 1) /\ (x * y) % q = 1 % q
    BY <1>1, <1>2, Zenon
  <1>4. y \in Int /\ c \in Int
    BY <1>3
  <1>5. ((c % q) * y) % q = (c * y) % q
    BY <1>4, ModProd, Zenon
  <1>6. Congruent(c * y, 1, q)
    BY <1>3, <1>5, Zenon DEF Congruent, x
  <1>7. QED
    BY <1>3, <1>6, Zenon DEF x, y

\* The bases have inverses, and so do the moduli of Q with a plaintext modulus.
LEMMA CoprimeWhen ==
    ASSUME NEW A \in Bases \cup Sources \cup {Q \o << t >> : t \in {u \in T : Odd(u)}},
           Positive(A), DOMAIN A = 1..Len(A), \A i \in 1..Len(A) : 2 <= A[i]
    PROVE  Coprime(A)
  <1>1. ASSUME NEW i \in 1..Len(A)
        PROVE  /\ InverseOf(A, i) \in 0..(A[i] - 1)
               /\ Congruent(Cofactor(A, i) * InverseOf(A, i), 1, A[i])
    <2>1. HasInverse(Cofactor(A, i), A[i])
      BY Inverses DEF Cofactor, HasInverse
    <2>2. A[i] \in Nat \ {0}
      BY DEF Positive
    <2>3. Cofactor(A, i) \in Nat \ {0}
      BY Cofactors, Zenon
    <2>4. Cofactor(A, i) \in Nat
      BY <2>3, Zenon
    <2>5. QED
      BY <2>1, <2>2, <2>4, InverseFound, Zenon DEF InverseOf
  <1>2. QED
    BY <1>1, Zenon DEF Coprime

\* A basis of sound moduli is one the Chinese remainders hold for.
LEMMA BasisCoprime ==
    ASSUME NEW A \in Bases \cup Sources, Basis(A)
    PROVE  Coprime(A) /\ Positive(A)
  <1>1. Positive(A) /\ DOMAIN A = 1..Len(A) /\ \A i \in 1..Len(A) : 2 <= A[i]
    BY DEF Basis, Sound, Positive
  <1>2. QED
    BY <1>1, CoprimeWhen

\* A basis of one modulus.
LEMMA SingleModulus ==
    ASSUME NEW q
    PROVE  /\ Len(<< q >>) = 1 /\ DOMAIN << q >> = 1..1 /\ << q >>[1] = q
           /\ \A i \in 1..1 : i = 1
           /\ q \in Nat \ {0} => Positive(<< q >>) /\ Product(<< q >>) = q
  <1> DEFINE x == << q >>
  <1>1. Len(x) = 1 /\ DOMAIN x = 1..1 /\ x[1] = q /\ \A i \in 1..1 : i = 1
    OBVIOUS
  <1>2. ASSUME q \in Nat \ {0} PROVE Positive(x) /\ Product(x) = q
    <2> HIDE DEF x
    <2>1. Positive(x)
      BY <1>1, <1>2 DEF Positive
    <2>2. PICK f : Product(x) = f[1] /\ PartialProducts(f, x)
      BY <1>1, <2>1, ProductRuns
    <2>3. f[0] = 1 /\ f[1] = x[1] * f[1 - 1] /\ 1 - 1 = 0 /\ q * 1 = q
      BY <1>1, <1>2, <2>2 DEF PartialProducts
    <2>4. QED
      BY <1>1, <2>1, <2>2, <2>3
  <1>3. QED
    BY <1>1, <1>2

\* A plaintext modulus leaves room in a word, and has its tables.
LEMMA PlainModulus ==
    ASSUME NEW t \in T
    PROVE  t \in Nat \ {0} /\ 2 <= t /\ 2 * t <= R /\ t < R /\ bredParams[t] = BRedParams(t)
  <1>1. << t >> \in Bases
    BY DEF Bases
  <1>2. t \in 1..(R - 1) /\ 2 * t <= R /\ bredParams[t] = BRedParams(t)
    BY <1>1, Reducible, SingleModulus
  <1>3. 2 <= t
    <2>1. CASE Odd(t)
      BY <2>1, ModuliAreSound DEF Sound
    <2>2. CASE ~Odd(t)
      <3>1. t # 1
        BY <2>2 DEF Odd
      <3>2. QED
        BY <1>2, <3>1, RAssumption
    <2>3. QED
      BY <2>1, <2>2
  <1>4. QED
    BY <1>2, <1>3, RAssumption

\* Every basis of the module is one.
LEMMA BasesAreCoprime ==
    ASSUME NEW A \in Bases
    PROVE  Coprime(A) /\ Positive(A)
  <1>1. CASE Basis(A)
    BY <1>1, BasisCoprime
  <1>2. CASE ~Basis(A)
    <2>1. PICK t \in T : A = << t >>
      <3>1. \A l \in DOMAIN Q : Basis(Level(l)) /\ Basis(Level(l) \o P)
        BY Levels, ExtendedLevel, Rings
      <3>2. QED
        BY <1>2, <3>1, Rings DEF Bases
    <2>2. t \in Nat \ {0} /\ 2 <= t
      BY PlainModulus
    <2>3. Positive(A) /\ DOMAIN A = 1..Len(A) /\ \A i \in 1..Len(A) : 2 <= A[i]
      BY <2>1, <2>2, SingleModulus
    <2>4. QED
      BY <2>3, CoprimeWhen
  <1>3. QED
    BY <1>1, <1>2

\* So is every basis an extension starts from.
LEMMA SourcesAreCoprime ==
    ASSUME NEW A \in Sources
    PROVE  Coprime(A) /\ Positive(A)
  BY BasisCoprime, SourcesExtend DEF Source

\* z is x followed by y.
IsJoin(z, x, y) ==
    /\ Positive(x) /\ Positive(y) /\ Positive(z) /\ Len(z) = Len(x) + Len(y)
    /\ \A i \in 1..Len(x) : z[i] = x[i]
    /\ \A j \in 1..Len(y) : z[Len(x) + j] = y[j]

\* The product of a joined sequence.
LEMMA JoinedProduct ==
    ASSUME NEW x, NEW y, NEW z, IsJoin(z, x, y)
    PROVE  Product(z) = Product(x) * Product(y)
  <1> DEFINE a == Len(x)
             b == Len(y)
  <1>1. Positive(x) /\ Positive(y) /\ Positive(z) /\ Len(z) = a + b /\ a \in Nat /\ b \in Nat
    BY DEF IsJoin, Positive
  <1>2. PICK f : Product(z) = f[Len(z)] /\ PartialProducts(f, z)
    BY <1>1, ProductRuns, Zenon
  <1>3. PICK g : Product(x) = g[a] /\ PartialProducts(g, x)
    BY <1>1, ProductRuns, Zenon
  <1>4. PICK h : Product(y) = h[b] /\ PartialProducts(h, y)
    BY <1>1, ProductRuns, Zenon
  <1>5. /\ f[0] = 1 /\ g[0] = 1 /\ h[0] = 1
        /\ \A k \in 1..(a + b) : f[k] = z[k] * f[k - 1]
        /\ \A k \in 1..a : g[k] = x[k] * g[k - 1] /\ z[k] = x[k]
        /\ \A k \in 1..b : h[k] = y[k] * h[k - 1] /\ z[a + k] = y[k] /\ y[k] \in Nat
        /\ \A k \in 0..b : h[k] \in Nat
        /\ \A k \in 0..a : g[k] \in Nat
    BY <1>1, <1>2, <1>3, <1>4 DEF PartialProducts, IsJoin, Positive
  <1> DEFINE G == {k \in 0..a : f[k] = g[k]}
             H == {k \in 0..b : f[a + k] = g[a] * h[k]}
  <1>6. \A k \in 0..a : k \in G
    <2>1. 0 \in G
      BY <1>1, <1>5
    <2>2. ASSUME NEW k \in 1..a, k - 1 \in G PROVE k \in G
      <3>1. k \in 0..a /\ k \in 1..(a + b) /\ f[k - 1] = g[k - 1]
        BY <1>1, <2>2
      <3>2. f[k] = g[k]
        BY <1>5, <3>1
      <3>3. QED
        BY <3>1, <3>2
    <2> HIDE DEF G
    <2>3. QED
      BY <1>1, <2>1, <2>2, Induction
  <1>7. \A k \in 0..b : k \in H
    <2>1. 0 \in H
      <3>1. a \in 0..a /\ a + 0 = a /\ 0 \in 0..b
        BY <1>1
      <3>2. f[a] = g[a] /\ g[a] * 1 = g[a]
        BY <1>5, <1>6, <3>1
      <3>3. QED
        BY <1>5, <3>1, <3>2
    <2>2. ASSUME NEW k \in 1..b, k - 1 \in H PROVE k \in H
      <3>1. k \in 0..b /\ k - 1 \in 0..b /\ a + k \in 1..(a + b) /\ (a + k) - 1 = a + (k - 1) /\ a \in 0..a
        BY <1>1
      <3>2. f[a + (k - 1)] = g[a] * h[k - 1]
        BY <2>2
      <3>3. f[a + k] = y[k] * (g[a] * h[k - 1])
        BY <1>5, <3>1, <3>2
      <3> DEFINE u == y[k]
                 v == h[k - 1]
                 w == g[a]
      <3>4. u \in Nat /\ v \in Nat /\ w \in Nat /\ h[k] = u * v /\ f[a + k] = u * (w * v)
        BY <1>5, <3>1, <3>3
      <3> HIDE DEF u, v, w
      <3>5. u * (w * v) = w * (u * v)
        BY <3>4
      <3>6. f[a + k] = w * h[k]
        BY <3>4, <3>5, Zenon
      <3>7. QED
        BY <3>1, <3>6 DEF w
    <2> HIDE DEF H
    <2>3. QED
      BY <1>1, <2>1, <2>2, Induction
  <1>8. b \in 0..b
    BY <1>1
  <1>9. f[a + b] = g[a] * h[b]
    BY <1>7, <1>8, Zenon
  <1>10. QED
    BY <1>1, <1>2, <1>3, <1>4, <1>9, Zenon

\* What divides a cofactor is not zero modulo its modulus.
LEMMA NotZero ==
    ASSUME NEW B, Coprime(B), NEW i \in 1..Len(B), NEW p \in Nat, Divides(p, Cofactor(B, i))
    PROVE  p % B[i] \in 1..(B[i] - 1)
  <1> DEFINE q == B[i]
  <1>1. q \in Nat \ {0} /\ 2 <= q
    BY DEF Coprime, Positive
  <1>2. InverseOf(B, i) \in Int
    BY <1>1 DEF Coprime
  <1>3. Congruent(Cofactor(B, i) * InverseOf(B, i), 1, q)
    BY Zenon DEF Coprime
  <1>4. PICK h \in Nat : Cofactor(B, i) = p * h
    BY Zenon DEF Divides
  <1>5. p % q \in 0..(q - 1)
    BY <1>1
  <1>6. ASSUME p % q = 0 PROVE FALSE
    <2> DEFINE y == InverseOf(B, i)
    <2> HIDE DEF y
    <2>1. Congruent(p, 0, q) /\ 0 \in Int /\ p \in Int /\ h * y \in Int /\ y \in Int
      <3>1. 0 % q = 0
        BY <1>1
      <3>2. QED
        BY <1>2, <1>6, <3>1 DEF Congruent, y
    <2>2. Congruent(h * y, h * y, q)
      BY DEF Congruent
    <2>3. Congruent(p * (h * y), 0 * (h * y), q)
      BY <1>1, <2>1, <2>2, CongruentProduct, Zenon
    <2>4. 0 * (h * y) = 0 /\ (p * h) * y = p * (h * y)
      BY <2>1
    <2>5. Congruent((p * h) * y, 1, q)
      BY <1>3, <1>4, Zenon DEF y
    <2>6. 0 % q = 1 % q
      BY <2>3, <2>4, <2>5 DEF Congruent
    <2>7. 0 % q = 0 /\ 1 % q = 1
      BY <1>1
    <2>8. QED
      BY <2>6, <2>7
  <1> HIDE DEF q
  <1>7. p % q \in 1..(q - 1)
    BY <1>1, <1>5, <1>6
  <1>8. QED
    BY <1>7 DEF q

\* No modulus of one part divides the product of the other.
LEMMA JoinNotZero ==
    ASSUME NEW x, NEW y, NEW z, IsJoin(z, x, y), Coprime(z)
    PROVE  /\ \A i \in 1..Len(x) : Product(y) % x[i] \in 1..(x[i] - 1)
           /\ \A j \in 1..Len(y) : Product(x) % y[j] \in 1..(y[j] - 1)
  <1>1. /\ Positive(x) /\ Positive(y) /\ Positive(z) /\ Len(z) = Len(x) + Len(y)
        /\ Len(x) \in Nat /\ Len(y) \in Nat
        /\ Product(x) \in Nat \ {0} /\ Product(y) \in Nat \ {0}
    <2>1. Positive(x) /\ Positive(y) /\ Positive(z) /\ Len(z) = Len(x) + Len(y)
      BY DEF IsJoin
    <2>2. Len(x) \in Nat /\ Len(y) \in Nat
      BY <2>1 DEF Positive
    <2>3. \A w : Positive(w) => Product(w) \in Nat \ {0}
      BY ProductRuns DEF Positive, PartialProducts
    <2>4. QED
      BY <2>1, <2>2, <2>3
  <1>2. Product(z) = Product(x) * Product(y)
    BY JoinedProduct, Zenon
  <1>3. ASSUME NEW i \in 1..Len(x) PROVE Product(y) % x[i] \in 1..(x[i] - 1)
    <2>1. i \in 1..Len(z) /\ z[i] = x[i]
      BY <1>1 DEF IsJoin
    <2> DEFINE a == x[i]
               u == Cofactor(x, i)
               w == Cofactor(z, i)
               b == Product(y)
    <2>2. /\ Product(x) = a * u /\ u \in Nat \ {0} /\ Product(z) = a * w /\ w \in Nat \ {0}
          /\ a \in Nat \ {0} /\ b \in Nat \ {0}
      <3>1. Product(x) = x[i] * Cofactor(x, i) /\ Cofactor(x, i) \in Nat \ {0}
        BY <1>1, Cofactors, Zenon
      <3>2. Product(z) = z[i] * Cofactor(z, i) /\ Cofactor(z, i) \in Nat \ {0}
        BY <1>1, <2>1, Cofactors, Zenon
      <3>3. x[i] \in Nat \ {0}
        BY <1>1 DEF Positive
      <3>4. QED
        BY <1>1, <2>1, <3>1, <3>2, <3>3, Zenon
    <2>3. a * w = (a * u) * b
      BY <1>2, <2>2, Zenon
    <2> HIDE DEF a, u, w, b
    <2>4. a * w = (b * (a * u)) * 1 /\ u \in Nat /\ w \in Nat /\ b \in Nat /\ 1 \in Nat
      <3> DEFINE v == a * u
      <3>1. v \in Nat
        BY <2>2
      <3>2. a * w = v * b
        BY <2>3, Zenon
      <3> HIDE DEF v
      <3>3. a * w = (b * v) * 1
        BY <2>2, <3>1, <3>2
      <3>4. QED
        BY <2>2, <3>3 DEF v
    <2>5. Divides(b, w)
      BY <2>2, <2>4, CommonFactor, Zenon
    <2>6. b % z[i] \in 1..(z[i] - 1)
      BY <2>1, <2>4, <2>5, NotZero, Zenon DEF w
    <2>7. QED
      BY <2>1, <2>6 DEF b
  <1>4. ASSUME NEW j \in 1..Len(y) PROVE Product(x) % y[j] \in 1..(y[j] - 1)
    <2> DEFINE i == Len(x) + j
    <2>1. i \in 1..Len(z) /\ z[i] = y[j]
      BY <1>1 DEF IsJoin
    <2> HIDE DEF i
    <2> DEFINE a == y[j]
               u == Cofactor(y, j)
               w == Cofactor(z, i)
               b == Product(x)
    <2>2. /\ Product(y) = a * u /\ u \in Nat \ {0} /\ Product(z) = a * w /\ w \in Nat \ {0}
          /\ a \in Nat \ {0} /\ b \in Nat \ {0}
      <3>1. Product(y) = y[j] * Cofactor(y, j) /\ Cofactor(y, j) \in Nat \ {0}
        BY <1>1, Cofactors, Zenon
      <3>2. Product(z) = z[i] * Cofactor(z, i) /\ Cofactor(z, i) \in Nat \ {0}
        BY <1>1, <2>1, Cofactors, Zenon
      <3>3. y[j] \in Nat \ {0}
        BY <1>1 DEF Positive
      <3>4. QED
        BY <1>1, <2>1, <3>1, <3>2, <3>3, Zenon
    <2>3. a * w = b * (a * u)
      BY <1>2, <2>2, Zenon
    <2> HIDE DEF a, u, w, b
    <2>4. a * w = (b * (a * u)) * 1 /\ u \in Nat /\ w \in Nat /\ b \in Nat /\ 1 \in Nat
      BY <2>2, <2>3
    <2>5. Divides(b, w)
      BY <2>2, <2>4, CommonFactor, Zenon
    <2>6. b % z[i] \in 1..(z[i] - 1)
      BY <2>1, <2>4, <2>5, NotZero, Zenon DEF w
    <2>7. QED
      BY <2>1, <2>6 DEF b
  <1>5. QED
    BY <1>3, <1>4, Zenon

-----------------------------------------------------------------------------
(* Inverses by exponentiation, and division *)

\* The radix cancels.
LEMMA RadixCancels ==
    ASSUME NEW q, Sound(q), NEW a \in Int, NEW b \in Int, Congruent(a * R, b * R, q)
    PROVE  Congruent(a, b, q)
  <1>1. /\ q \in Nat \ {0} /\ 2 <= q /\ 2 <= R /\ R \in Int
        /\ mredParams[q] \in Nat /\ (q * mredParams[q]) % R = 1 % R
    BY RAssumption DEF Sound
  <1>2. PICK v \in 0..(q - 1) : (v * R) % q = 1
    BY <1>1, RadixInverse
  <1>3. v \in Int /\ 1 \in Int /\ v * R \in Int /\ a * R \in Int /\ b * R \in Int
    BY <1>1
  <1>4. Congruent(v * R, 1, q)
    BY <1>1, <1>2 DEF Congruent
  <1>5. Congruent((a * R) * v, (b * R) * v, q)
    <2>1. Congruent(v, v, q)
      BY DEF Congruent
    <2>2. QED
      BY <1>1, <1>3, <2>1, CongruentProduct, Zenon
  <1>6. ASSUME NEW z \in Int PROVE Congruent((z * R) * v, z, q)
    <2>1. Congruent(z, z, q)
      BY DEF Congruent
    <2>2. Congruent(z * (v * R), z * 1, q)
      BY <1>1, <1>3, <1>4, <2>1, CongruentProduct, Zenon
    <2>3. z * (v * R) = (z * R) * v /\ z * 1 = z
      BY <1>1, <1>3
    <2>4. QED
      BY <2>2, <2>3, Zenon
  <1>7. Congruent((a * R) * v, a, q) /\ Congruent((b * R) * v, b, q)
    BY <1>6, Zenon
  <1>8. Congruent(a, (a * R) * v, q)
    BY <1>7, Zenon DEF Congruent
  <1>9. Congruent(a, (b * R) * v, q)
    BY <1>5, <1>8, CongruentVia, Zenon
  <1>10. QED
    BY <1>7, <1>9, CongruentVia, Zenon

\* A Montgomery product takes the radix away.
LEMMA MRedIs ==
    ASSUME NEW q, Sound(q), NEW x \in Nat, NEW y \in Nat, x * y < q * R,
           NEW z \in Int, Congruent(x * y, z * R, q)
    PROVE  /\ MRed(x, y, q, mredParams[q]) \in 0..(q - 1)
           /\ Congruent(MRed(x, y, q, mredParams[q]), z, q)
  <1> DEFINE i == mredParams[q]
             r == MRed(x, y, q, i)
  <1>1. q \in Nat \ {0} /\ 2 * q <= R /\ R \in Int /\ i \in Nat /\ (q * i) % R = 1 % R
    BY RAssumption DEF Sound
  <1> HIDE DEF i
  <1>2. r \in 0..(q - 1) /\ (r * R) % q = (x * y) % q
    BY <1>1, MontgomeryProduct
  <1> HIDE DEF r
  <1>3. r \in Int
    BY <1>2
  <1>4. Congruent(r * R, z * R, q)
    BY <1>2, Zenon DEF Congruent
  <1>5. Congruent(r, z, q)
    BY <1>3, <1>4, RadixCancels, Zenon
  <1>6. QED
    BY <1>2, <1>5 DEF r, i

\* x in Montgomery form stands for z.
InMontgomery(x, z, q) == x \in 0..(q - 1) /\ Congruent(x, z * R, q)
LEMMA MontgomeryIs ==
    ASSUME NEW q, Sound(q), NEW x \in 0..(R - 1), NEW z \in Int, Congruent(x, z, q)
    PROVE  InMontgomery(ToMont(x, q), z, q)
  <1>1. q \in Nat \ {0} /\ 2 * q <= R /\ R \in Int /\ bredParams[q] = BRedParams(q) /\ x \in Int
    BY RAssumption DEF Sound
  <1>2. ToMont(x, q) \in 0..(q - 1) /\ ToMont(x, q) = (x * R) % q
    BY <1>1, ToMontgomery DEF ToMont
  <1>3. Congruent(R, R, q)
    BY DEF Congruent
  <1>4. Congruent(x * R, z * R, q)
    BY <1>1, <1>3, CongruentProduct, Zenon
  <1>5. Congruent((x * R) % q, x * R, q)
    <2>1. x * R \in Int
      BY <1>1
    <2>2. QED
      BY <1>1, <2>1, CongruentIs, Zenon
  <1>6. Congruent((x * R) % q, z * R, q)
    BY <1>4, <1>5, CongruentVia, Zenon
  <1>7. QED
    BY <1>2, <1>6, Zenon DEF InMontgomery
\* A product with a number in Montgomery form.
LEMMA TimesMont ==
    ASSUME NEW q, Sound(q), NEW x \in 0..(R - 1), NEW y, NEW z \in Int, InMontgomery(y, z, q)
    PROVE  /\ MRed(x, y, q, mredParams[q]) \in 0..(q - 1)
           /\ Congruent(MRed(x, y, q, mredParams[q]), x * z, q)
  <1>1. q \in Nat \ {0} /\ R \in Nat /\ x \in Nat /\ y \in Nat /\ x < R /\ y < q /\ y \in 0..(q - 1)
    BY RAssumption DEF Sound, InMontgomery
  <1>2. x * y < R * q /\ R * q = q * R /\ x * z \in Int
    BY <1>1, ProductBelow
  <1>3. x * y < q * R
    BY <1>2
  <1>4. Congruent(y, z * R, q)
    BY Zenon DEF InMontgomery
  <1>5. x \in Int /\ y \in Int /\ z * R \in Int /\ Congruent(x, x, q)
    BY <1>1 DEF Congruent
  <1>6. Congruent(x * y, x * (z * R), q)
    BY <1>1, <1>4, <1>5, CongruentProduct, Zenon
  <1>7. x * (z * R) = (x * z) * R
    BY <1>1
  <1>8. Congruent(x * y, (x * z) * R, q)
    BY <1>6, <1>7, Zenon
  <1>9. QED
    BY <1>1, <1>2, <1>3, <1>8, MRedIs, Zenon

\* The inverse of d modulo q, by its power q - 2.
Inverts(y, d, q) == y \in Int /\ Congruent(d * y, 1, q)
LEMMA PowerInverts ==
    ASSUME NEW q \in Moduli \cup {t \in T : Odd(t)}, NEW x \in 0..(R - 1), NEW d \in Nat,
           Congruent(x, d, q), d % q \in 1..(q - 1)
    PROVE  \E y : Inverts(y, d, q) /\ InMontgomery(ToMont(ModExp(x, q - 2, q), q), y, q)
  <1> DEFINE e == ModExp(x, q - 2, q)
             c == x % q
             y == Pow(c, q - 2, q)
  <1>1. Sound(q) /\ q \in Nat \ {0} /\ 2 <= q /\ 2 * q <= R /\ q - 2 \in 0..(R - 1) /\ q - 2 \in Nat
    <2>1. Sound(q)
      BY ModuliAreSound
    <2>2. QED
      BY <2>1, RAssumption DEF Sound
  <1>2. c = d % q /\ c \in 1..(q - 1) /\ c \in Int
    <2>1. c = d % q
      BY DEF Congruent
    <2>2. QED
      BY <1>1, <2>1
  <1>3. e \in 0..q /\ e % q = y
    BY <1>1, Exponentiation
  <1>4. (y * c) % q = 1
    <2>1. \A z \in 1..(q - 1) : (Pow(z, q - 2, q) * z) % q = 1
      BY Fermat, Zenon
    <2>2. QED
      BY <1>2, <2>1, Zenon
  <1> HIDE DEF c, e
  <1>5. y \in 0..(q - 1)
    BY <1>1, <1>2, PowSteps
  <1> HIDE DEF y
  <1>6. y \in Int /\ e \in 0..(R - 1) /\ e \in Int /\ d \in Int
    BY <1>1, <1>3, <1>5, RAssumption
  <1>7. Congruent(e, y, q)
    <2>1. y % q = y
      BY <1>1, <1>5
    <2>2. QED
      BY <1>3, <2>1 DEF Congruent
  <1>8. InMontgomery(ToMont(e, q), y, q)
    BY <1>1, <1>6, <1>7, MontgomeryIs, Zenon
  <1>9. Congruent(d * y, 1, q)
    <2>1. ((d % q) * y) % q = (d * y) % q
      BY <1>1, <1>6, ModProd, Zenon
    <2>2. (d % q) * y = y * c /\ 1 % q = 1
      BY <1>1, <1>2, <1>6
    <2>3. QED
      BY <1>4, <2>1, <2>2, Zenon DEF Congruent
  <1>10. QED
    BY <1>6, <1>8, <1>9 DEF e, Inverts

\* A Montgomery product by the negated inverse of d divides -s by -d.
LEMMA DividedIs ==
    ASSUME NEW q, Sound(q), NEW w \in 0..(R - 1), NEW s \in Int, Congruent(w, -s, q), NEW d \in Nat, NEW v,
           Inverts(v, d, q), NEW inv, InMontgomery(inv, v, q),
           NEW e \in Int, Congruent(s, d * e, q)
    PROVE  /\ MRed(w, q - inv, q, mredParams[q]) \in 0..(q - 1)
           /\ Congruent(MRed(w, q - inv, q, mredParams[q]), e, q)
  <1> DEFINE u == q - inv
  <1>1. q \in Nat \ {0} /\ R \in Nat /\ 8 * q < R /\ inv \in 0..(q - 1) /\ v \in Int /\ d \in Int
    BY RAssumption DEF Sound, InMontgomery, Inverts
  <1>2. w \in Nat /\ u \in Nat /\ u <= q /\ w < R /\ w \in Int /\ u \in Int /\ -s \in Int
    BY <1>1
  <1>3. Congruent(u, -(v * R), q)
    <2>1. v * R \in Int
      BY <1>1
    <2>2. Congruent(inv, v * R, q)
      BY DEF InMontgomery
    <2>3. Congruent(q, 0, q)
      BY <1>1 DEF Congruent
    <2>4. q \in Int /\ 0 \in Int /\ inv \in Int
      BY <1>1
    <2>5. Congruent(q - inv, 0 - (v * R), q)
      BY <1>1, <2>1, <2>2, <2>3, <2>4, CongruentSum, Zenon
    <2>6. 0 - (v * R) = -(v * R)
      BY <2>1
    <2>7. QED
      BY <2>5, <2>6
  <1>4. /\ v * R \in Int /\ -(v * R) \in Int /\ d * e \in Int /\ d * v \in Int
        /\ (-s) * (-(v * R)) = (s * v) * R /\ s * v \in Int
    <2>1. v * R \in Int /\ d * e \in Int /\ d * v \in Int
      BY <1>1
    <2> DEFINE r == v * R
    <2>2. r \in Int
      BY <2>1
    <2> HIDE DEF r
    <2>3. (-s) * (-r) = s * r /\ -r \in Int
      BY <2>2
    <2>4. s * (v * R) = (s * v) * R /\ s * v \in Int
      BY <1>1
    <2>5. QED
      BY <2>1, <2>3, <2>4 DEF r
  <1> HIDE DEF u
  <1>5. Congruent(w * u, (s * v) * R, q)
    <2>1. Congruent(w * u, (-s) * (-(v * R)), q)
      BY <1>1, <1>2, <1>3, <1>4, CongruentProduct, Zenon
    <2>2. QED
      BY <1>4, <2>1, Zenon
  <1>6. Congruent(s * v, e, q)
    <2>1. Congruent(v, v, q) /\ Congruent(e, e, q) /\ 1 \in Int
      BY DEF Congruent
    <2>2. Congruent(s * v, (d * e) * v, q)
      BY <1>1, <1>4, <2>1, CongruentProduct, Zenon
    <2>3. Congruent(d * v, 1, q)
      BY DEF Inverts
    <2>4. Congruent(e * (d * v), e * 1, q)
      BY <1>1, <1>4, <2>1, <2>3, CongruentProduct, Zenon
    <2>5. (d * e) * v = e * (d * v) /\ e * 1 = e
      BY <1>1
    <2>6. Congruent(s * v, e * (d * v), q)
      BY <2>2, <2>5, Zenon
    <2>7. Congruent(s * v, e * 1, q)
      BY <2>4, <2>6, CongruentVia, Zenon
    <2>8. QED
      BY <2>5, <2>7, Zenon
  <1>7. w * u < q * R
    <2>1. CASE u = 0
      BY <1>1, <1>2, <2>1
    <2>2. CASE u # 0
      <3>1. w * u < R * u
        BY <1>1, <1>2, <2>2
      <3>2. R * u <= R * q
        BY <1>1, <1>2
      <3>3. w * u \in Int /\ R * u \in Int /\ R * q \in Int /\ R * q = q * R
        BY <1>1, <1>2
      <3>4. QED
        BY <3>1, <3>2, <3>3
    <2>3. QED
      BY <2>1, <2>2
  <1> DEFINE z == s * v
  <1>8. z \in Int /\ Congruent(w * u, z * R, q) /\ Congruent(z, e, q)
    BY <1>4, <1>5, <1>6
  <1> HIDE DEF z
  <1>9. /\ MRed(w, u, q, mredParams[q]) \in 0..(q - 1)
        /\ Congruent(MRed(w, u, q, mredParams[q]), z, q)
    BY <1>1, <1>2, <1>7, <1>8, MRedIs, Zenon
  <1>10. QED
    BY <1>8, <1>9, CongruentVia, Zenon DEF u

\* What a division leaves in a row: the difference to the remainder divided by d.
LEMMA QuotientIs ==
    ASSUME NEW q, Sound(q), NEW x \in 0..((2 * q) - 1), NEW y \in 0..(6 * q), NEW d \in Nat, NEW v,
           Inverts(v, d, q), NEW inv, InMontgomery(inv, v, q),
           NEW e \in Int, Congruent(x - y, d * e, q)
    PROVE  /\ quotient(y, x, q, inv) \in 0..(q - 1)
           /\ Congruent(quotient(y, x, q, inv), e, q)
  <1> DEFINE w == (y + (2 * q)) - x
             s == x - y
  <1>1. q \in Nat \ {0} /\ R \in Nat /\ 8 * q < R
    BY RAssumption DEF Sound
  <1>2. w \in 0..(R - 1) /\ s \in Int /\ w \in Int /\ -s \in Int
    BY <1>1
  <1>3. Wrap(y + 2 * q - x) = w
    <2>1. y + 2 * q - x = w /\ w \in Int
      BY <1>1
    <2>2. QED
      BY <1>2, <2>1, WrapRange
  <1>4. quotient(y, x, q, inv) = MRed(w, q - inv, q, mredParams[q])
    BY <1>3, Zenon DEF quotient
  <1>5. Congruent(w, -s, q)
    <2>1. w - (-s) = q * 2 /\ 2 \in Int
      BY <1>1
    <2>2. Multiple(w - (-s), q)
      BY <2>1 DEF Multiple
    <2> HIDE DEF w, s
    <2>3. QED
      BY <1>1, <1>2, <2>2, CongruentBy, Zenon
  <1>6. Congruent(s, d * e, q)
    OBVIOUS
  <1> HIDE DEF w, s
  <1>7. QED
    BY <1>2, <1>4, <1>5, <1>6, DividedIs

-----------------------------------------------------------------------------
(* Extensions of the basis *)

\* The table of multiples holds -v * product of A modulo b.
LEMMA MultiplesAre ==
    ASSUME NEW A, Product(A) \in Nat, Len(A) \in Nat, NEW b \in Nat \ {0}
    PROVE  \A v \in 0..Len(A) : /\ Multiples(A, b)[v] \in 0..(b - 1)
                                /\ Congruent(Multiples(A, b)[v], -(v * Product(A)), b)
  <1> DEFINE n == Len(A)
             a == Product(A)
             mul == Multiples(A, b)
             H == {v \in 0..n : Congruent(mul[v], -(v * a), b)}
  <1>1. /\ \A v \in 0..n : mul[v] \in 0..(b - 1)
        /\ mul[0] = 0 /\ \A v \in 1..n : mul[v] = CRed(mul[v - 1] + (b - (a % b)), b)
    BY MultiplesRun, Zenon
  <1>2. n \in Nat /\ a \in Int /\ b \in Int
    OBVIOUS
  <1> HIDE DEF mul, n, a
  <1>3. 0 \in H
    <2>1. -(0 * a) = 0 /\ 0 \in 0..n
      BY <1>2
    <2>2. QED
      BY <1>1, <2>1 DEF Congruent
  <1>4. ASSUME NEW v \in 1..n, v - 1 \in H PROVE v \in H
    <2> DEFINE t == mul[v - 1]
               p == a % b
    <2>1. v - 1 \in 0..n /\ v \in 0..n /\ v \in Int
      BY <1>2
    <2>2. t \in 0..(b - 1) /\ t \in Int /\ p \in 0..(b - 1) /\ p \in Int
      BY <1>1, <1>2, <2>1
    <2>3. Congruent(t, -((v - 1) * a), b)
      BY <1>4
    <2>4. Congruent(p, a, b)
      BY <1>2, CongruentIs, Zenon
    <2>5. Congruent(b, 0, b)
      BY DEF Congruent
    <2> HIDE DEF t, p
    <2>6. /\ 0 \in Int /\ -((v - 1) * a) \in Int /\ b - p \in Int /\ 0 - a \in Int
          /\ -((v - 1) * a) + (0 - a) = -(v * a)
      BY <1>2, <2>1, <2>2
    <2>7. Congruent(b - p, 0 - a, b)
      BY <1>2, <2>2, <2>4, <2>5, <2>6, CongruentSum, Zenon
    <2>8. Congruent(t + (b - p), -((v - 1) * a) + (0 - a), b)
      BY <1>2, <2>2, <2>3, <2>6, <2>7, CongruentSum, Zenon
    <2>9. Congruent(CRed(t + (b - p), b), t + (b - p), b)
      <3>1. t + (b - p) \in 0..((2 * b) - 1)
        BY <2>2
      <3>2. QED
        BY <3>1, CRedRange, Zenon DEF Congruent
    <2>10. mul[v] = CRed(t + (b - p), b)
      BY <1>1 DEF t, p
    <2>11. Congruent(mul[v], -(v * a), b)
      BY <2>6, <2>8, <2>9, <2>10, CongruentVia, Zenon
    <2>12. QED
      BY <2>1, <2>11
  <1> HIDE DEF H
  <1>5. \A v \in 0..n : v \in H
    BY <1>2, <1>3, <1>4, Induction, Zenon
  <1>6. QED
    BY <1>1, <1>5, Zenon DEF H, mul, n, a

\* The digits of x: its rows times the inverses of their cofactors.
LEMMA DigitsAre ==
    ASSUME NEW A, Source(A), Coprime(A), NEW B, NEW x \in [1..Len(A) -> 0..(R - 1)], NEW i \in 1..Len(A)
    PROVE  Congruent(digits(x, basisextenderparameters(A, B))[i], x[i] * InverseOf(A, i), A[i])
  <1> DEFINE params == basisextenderparameters(A, B)
             z == InverseOf(A, i)
             q == A[i]
  <1>1. /\ DOMAIN A = 1..Len(A) /\ DOMAIN x = 1..Len(A) /\ params.from = A
        /\ params.qibMont = [k \in DOMAIN A |-> ToMont(InverseOf(A, k), A[k])]
    BY DEF basisextenderparameters, Source, Basis, InverseOf, Cofactor
  <1>2. Sound(q) /\ z \in 0..(q - 1) /\ x[i] \in 0..(R - 1)
    BY DEF Source, Basis, Coprime
  <1>3. params.qibMont[i] = ToMont(z, q)
    BY <1>1
  <1>4. digits(x, params)[i] = MRed(x[i], params.qibMont[i], q, mredParams[q])
    BY <1>1 DEF digits
  <1> HIDE DEF params, z, q
  <1>5. z \in Int /\ z \in 0..(R - 1) /\ Congruent(z, z, q)
    BY <1>2, RAssumption DEF Sound, Congruent
  <1>6. InMontgomery(ToMont(z, q), z, q)
    BY <1>2, <1>5, MontgomeryIs, Zenon
  <1>7. Congruent(MRed(x[i], ToMont(z, q), q, mredParams[q]), x[i] * z, q)
    BY <1>2, <1>5, <1>6, TimesMont, Zenon
  <1>8. QED
    BY <1>3, <1>4, <1>7, Zenon DEF params, z, q

\* The integer behind digits: their sum, each times its cofactor.
Spread(y, A) == Sum([i \in 1..Len(A) |-> y[i] * Cofactor(A, i)])
LEMMA SpreadRow ==
    ASSUME NEW A, Positive(A), NEW y, \A i \in 1..Len(A) : y[i] \in Nat
    PROVE  IntRow([i \in 1..Len(A) |-> y[i] * Cofactor(A, i)], Len(A))
  <1> DEFINE n == Len(A)
             s == [i \in 1..n |-> y[i] * Cofactor(A, i)]
  <1>1. n \in Nat
    BY DEF Positive
  <1>2. \A i \in 1..n : s[i] \in Int
    <2>1. ASSUME NEW i \in 1..n PROVE y[i] * Cofactor(A, i) \in Int
      <3>1. Cofactor(A, i) \in Int /\ y[i] \in Int
        BY Cofactors
      <3>2. QED
        BY <3>1
    <2>2. QED
      BY <2>1
  <1>3. s \in [1..n -> Int]
    BY <1>2
  <1>4. Len(s) = n
    <2> HIDE DEF s
    <2>1. QED
      BY <1>1, <1>3, IsASequence
  <1>5. QED
    BY <1>1, <1>2, <1>4 DEF IntRow

\* The digits spread over the cofactors are the number the rows stand for.
LEMMA SpreadIs ==
    ASSUME NEW A, Coprime(A), NEW y, \A i \in 1..Len(A) : y[i] \in Nat, NEW e \in Int,
           \A i \in 1..Len(A) : Congruent(y[i], e * InverseOf(A, i), A[i])
    PROVE  Spread(y, A) \in Int /\ Congruent(Spread(y, A), e, Product(A))
  <1> DEFINE n == Len(A)
             s == [i \in 1..n |-> y[i] * Cofactor(A, i)]
  <1>1. Positive(A) /\ n \in Nat /\ \A i \in 1..n : A[i] \in Nat \ {0} /\ A[i] \in Nat
    BY DEF Coprime, Positive
  <1>2. Spread(y, A) = Sum(s)
    BY DEF Spread
  <1>3. IntRow(s, n) /\ \A i \in 1..n : s[i] = y[i] * Cofactor(A, i)
    BY <1>1, SpreadRow
  <1> HIDE DEF s
  <1>4. Sum(s) \in Int
    BY <1>3, SumIsInt DEF IntRow
  <1>5. ASSUME NEW i \in 1..n PROVE Congruent(Sum(s), e, A[i])
    <2> DEFINE q == A[i]
               c == Cofactor(A, i)
               v == InverseOf(A, i)
    <2>1. /\ c \in Int /\ v \in Int /\ y[i] \in Int /\ q \in Nat \ {0} /\ e * v \in Int
          /\ Congruent(c * v, 1, q) /\ Congruent(y[i], e * v, q) /\ c * v \in Int
      <3>1. c \in Int
        BY <1>1, Cofactors
      <3>2. v \in 0..(q - 1) /\ Congruent(c * v, 1, q)
        BY DEF Coprime
      <3> HIDE DEF c, v
      <3>3. v \in Int
        BY <1>1, <3>2
      <3>4. QED
        BY <1>1, <3>1, <3>2, <3>3 DEF v
    <2>2. ASSUME NEW k \in 1..n, k # i PROVE Congruent(s[k], 0, q)
      <3> DEFINE d == Cofactor(A, k)
      <3>1. Divides(q, d) /\ d \in Nat
        BY <1>1, <2>2, Cofactors
      <3>2. PICK h \in Nat : d = q * h
        BY <3>1, Zenon DEF Divides
      <3>3. y[k] \in Nat /\ s[k] = y[k] * d
        BY <1>3
      <3> DEFINE z == y[k]
                 r == s[k]
      <3> HIDE DEF d, z, r
      <3>4. r = z * (q * h) /\ z \in Int /\ q \in Int /\ h \in Int
        BY <2>1, <3>2, <3>3 DEF z, r
      <3>5. r - 0 = q * (z * h) /\ z * h \in Int /\ r \in Int /\ 0 \in Int
        BY ONLY <3>4
      <3>6. Multiple(r - 0, q)
        BY <3>5, Zenon DEF Multiple
      <3>7. QED
        BY <2>1, <3>5, <3>6, CongruentBy, Zenon DEF r
    <2> HIDE DEF q, c, v
    <2>3. Congruent(Sum(s), s[i], q)
      BY <1>3, <2>1, <2>2, SumOfOne, Zenon
    <2>4. Congruent(y[i] * c, (e * v) * c, q)
      <3>1. Congruent(c, c, q)
        BY DEF Congruent
      <3>2. QED
        BY <2>1, <3>1, CongruentProduct, Zenon
    <2>5. Congruent(e * (c * v), e * 1, q)
      <3>1. Congruent(e, e, q) /\ 1 \in Int
        BY DEF Congruent
      <3>2. QED
        BY <2>1, <3>1, CongruentProduct, Zenon
    <2>6. (e * v) * c = e * (c * v) /\ e * 1 = e
      BY <2>1
    <2>7. s[i] = y[i] * c
      BY <1>3 DEF c
    <2>8. Congruent(s[i], e * (c * v), q)
      BY <2>4, <2>6, <2>7, Zenon
    <2>9. Congruent(s[i], e, q)
      BY <2>5, <2>6, <2>8, CongruentVia, Zenon
    <2>10. QED
      BY <2>3, <2>9, CongruentVia, Zenon DEF q
  <1>6. Congruent(Sum(s), e, Product(A))
    BY <1>4, <1>5, ResiduesDetermine, Zenon
  <1>7. QED
    BY <1>2, <1>4, <1>6, Zenon

\* An integer read Slack off falls in the same multiple of a or in the next one.
LEMMA FloorNear ==
    ASSUME NEW a \in Nat \ {0}, Slack(a) \in Nat, Slack(a) < a, NEW s \in Int,
           NEW e \in (s - Slack(a))..(s + Slack(a))
    PROVE  \E c \in Integers!Misread(s % a, a) : e \div a = (s \div a) - c
  <1> DEFINE k == s \div a
             x == s % a
             h == e \div a
             r == e % a
             d == h - k
             l == Slack(a)
  <1>1. l \in Nat /\ l < a /\ a \in Int /\ e \in Int /\ e - s <= l /\ s - e <= l
    OBVIOUS
  <1>11. Integers!Misread(x, a) = {0} \cup {c \in {1} : x < l} \cup {c \in {-1} : x >= a - l}
    BY Zenon DEF Integers!Misread, Integers!Slack, Slack
  <1>2. k \in Int /\ x \in 0..(a - 1) /\ s = (a * k) + x
    BY DivMod, Zenon
  <1>3. h \in Int /\ r \in 0..(a - 1) /\ e = (a * h) + r
    BY <1>1, DivMod, Zenon
  <1> HIDE DEF k, x, h, r, l
  <1>4. d \in Int /\ e - s = ((a * d) + r) - x /\ h = k - (-d) /\ a * d \in Int
    BY <1>1, <1>2, <1>3
  <1> HIDE DEF d
  <1>5. CASE d >= 2
    <2>1. a * d >= a * 2
      BY <1>1, <1>4, <1>5
    <2> DEFINE f == a * d
    <2>2. f \in Int /\ f >= 2 * a /\ e - s = (f + r) - x
      BY <1>4, <2>1
    <2> HIDE DEF f
    <2>3. QED
      BY <1>1, <1>2, <1>3, <2>2
  <1>6. CASE d <= -2
    <2>1. a * d <= a * (-2)
      BY <1>1, <1>4, <1>6
    <2> DEFINE f == a * d
    <2>2. f \in Int /\ f <= (-2) * a /\ e - s = (f + r) - x
      BY <1>1, <1>4, <2>1
    <2> HIDE DEF f
    <2>3. QED
      BY <1>1, <1>2, <1>3, <2>2
  <1>7. CASE d = 1
    <2>1. e - s = (a + r) - x
      BY <1>1, <1>4, <1>7
    <2>2. x >= a - l
      BY <1>1, <1>2, <1>3, <2>1
    <2>3. -1 \in Integers!Misread(x, a)
      BY <1>11, <2>2
    <2>4. h = k - (-1)
      BY <1>4, <1>7
    <2>5. QED
      BY <2>3, <2>4 DEF h, k, x
  <1>8. CASE d = -1
    <2>1. e - s = (r - a) - x
      BY <1>1, <1>2, <1>3, <1>4, <1>8
    <2>2. x < l
      BY <1>1, <1>2, <1>3, <2>1
    <2>3. 1 \in Integers!Misread(x, a)
      BY <1>11, <2>2
    <2>4. h = k - 1
      BY <1>2, <1>3, <1>4, <1>8
    <2>5. QED
      BY <2>3, <2>4 DEF h, k, x
  <1>9. CASE d = 0
    <2>1. 0 \in Integers!Misread(x, a)
      BY <1>11
    <2>2. h = k - 0
      BY <1>2, <1>3, <1>4, <1>9
    <2>3. QED
      BY <2>1, <2>2 DEF h, k, x
  <1>10. QED
    BY <1>4, <1>5, <1>6, <1>7, <1>8, <1>9

\* The integer part of the sum of the digits over their moduli, misread at most once.
LEMMA CorrectionIs ==
    ASSUME NEW A, Source(A), NEW B, NEW y, Digits(y, A, Len(A)), Spread(y, A) \in Int,
           NEW v \in reconstructRNS(y, basisextenderparameters(A, B))
    PROVE  \E c \in Integers!Misread(Spread(y, A) % Product(A), Product(A)) :
               v = (Spread(y, A) \div Product(A)) - c
  <1> DEFINE a == Product(A)
             s == Spread(y, A)
             l == Slack(a)
  <1>1. a \in Nat \ {0} /\ l \in Nat /\ l < a /\ a \in Int
    BY DEF Source
  <1>2. reconstructRNS(y, basisextenderparameters(A, B))
        = IF s = 0 THEN {0} ELSE {e \div a : e \in {d \in (s - l)..(s + l) : d >= 0}}
    <2>1. DOMAIN y = 1..Len(A)
      BY DEF Digits
    <2>2. basisextenderparameters(A, B).from = A
      BY DEF basisextenderparameters
    <2>3. s = Sum([i \in 1..Len(A) |-> y[i] * (a \div A[i])])
      BY DEF Spread, Cofactor
    <2> HIDE DEF s
    <2>4. QED
      BY <2>1, <2>2, <2>3 DEF reconstructRNS
  <1> HIDE DEF s, a, l
  <1>3. CASE s = 0
    <2>1. v = 0
      BY <1>2, <1>3
    <2>2. 0 \in Integers!Misread(s % a, a)
      BY DEF Integers!Misread
    <2>3. s \div a = 0
      BY <1>1, <1>3
    <2>4. v = (s \div a) - 0
      BY <2>1, <2>3
    <2>5. QED
      BY <2>2, <2>4 DEF s, a
  <1>4. CASE s # 0
    <2>1. PICK e \in (s - l)..(s + l) : v = e \div a
      BY <1>2, <1>4
    <2>2. s \in Int
      BY DEF s
    <2>3. \E c \in Integers!Misread(s % a, a) : e \div a = (s \div a) - c
      BY <1>1, <2>1, <2>2, FloorNear, Zenon DEF l
    <2>4. QED
      BY <2>1, <2>3 DEF s, a
  <1>5. QED
    BY <1>3, <1>4

\* The high half of a sum of words in Montgomery form, less that of the multiple of b
\* with the same low half.
Folded(s, b) == Hi(s) - Hi(Wrap(Lo(s) * mredParams[b]) * b)
LEMMA FoldedIs ==
    ASSUME NEW b, Sound(b), NEW s \in Nat, s < (2 * b) * R, NEW z \in Int, Congruent(s, z * R, b)
    PROVE  /\ Folded(s, b) + b \in 0..((3 * b) - 1) /\ Folded(s, b) \in Int
           /\ Congruent(Folded(s, b), z, b)
  <1> DEFINE i == mredParams[b]
             l == Lo(s)
             h == Hi(s)
             w == Wrap(l * i)
             g == Hi(w * b)
  <1>1. b \in Nat \ {0} /\ R \in Nat \ {0} /\ 1 % R = 1 /\ i \in Int /\ (b * i) % R = 1 /\ b \in Int /\ b * i \in Int
    <2>1. b \in Nat \ {0} /\ R \in Nat \ {0} /\ 8 * b < R /\ i \in 0..(R - 1) /\ (b * i) % R = 1 % R
      BY RAssumption DEF Sound
    <2> HIDE DEF i
    <2>2. i \in Int /\ 1 % R = 1
      BY <2>1
    <2>3. QED
      BY <2>1, <2>2
  <1> HIDE DEF i
  <1>2. l \in 0..(R - 1) /\ l \in Int /\ h \in Int /\ s = (R * h) + l
    <2>1. s \in Int
      OBVIOUS
    <2>2. s \div R \in Int /\ s % R \in 0..(R - 1) /\ s = (R * (s \div R)) + (s % R)
      BY <1>1, <2>1, DivMod, Zenon
    <2>3. QED
      BY <1>1, <2>2 DEF Hi, Lo
  <1>3. h \in 0..((2 * b) - 1)
    <2>1. 2 * b \in Nat
      BY <1>1
    <2>2. QED
      BY <2>1, HiBelow, Zenon
  <1> HIDE DEF l, h
  <1>4. w \in 0..(R - 1) /\ w \in Int /\ w = (l * i) % R
    <2>1. l * i \in Int
      BY <1>1, <1>2
    <2>2. w \in 0..(R - 1)
      BY <2>1, WrapRange, Zenon
    <2>3. QED
      BY <2>2 DEF Wrap
  <1> HIDE DEF w
  <1>5. (w * b) % R = l
    <2>1. l * i \in Int /\ (l * i) * b = l * (b * i) /\ l * (b * i) \in Int
      BY <1>1, <1>2
    <2>2. (w * b) % R = ((l * i) * b) % R
      BY <1>1, <1>4, <2>1, ModProd, Zenon
    <2>3. ((l % R) * ((b * i) % R)) % R = (l * (b * i)) % R
      BY <1>1, <1>2, ModProd, Zenon
    <2>4. l % R = l
      BY <1>1, <1>2, ModSmall, Zenon
    <2>5. (l % R) * ((b * i) % R) = l
      BY <1>1, <1>2, <2>4
    <2>6. QED
      BY <2>1, <2>2, <2>3, <2>4, <2>5, Zenon
  <1>6. g \in 0..(b - 1) /\ g \in Int /\ w * b = (R * g) + l
    <2>1. g \in 0..(b - 1)
      BY <1>4, HighHalf, Zenon
    <2>2. w * b \in Int
      BY <1>1, <1>4
    <2>3. w * b = (R * ((w * b) \div R)) + ((w * b) % R)
      BY <1>1, <2>2, DivMod, Zenon
    <2>4. g = (w * b) \div R
      BY DEF Hi
    <2>5. w * b = (R * g) + l
      BY <1>5, <2>3, <2>4, Zenon
    <2> HIDE DEF g
    <2>6. QED
      BY <1>1, <2>1, <2>5
  <1> HIDE DEF g
  <1>7. (h - g) * R = s - (w * b) /\ h - g \in Int /\ w * b \in Int /\ z * R \in Int /\ (h - g) * R \in Int
    BY <1>1, <1>2, <1>4, <1>6
  <1>8. Congruent((h - g) * R, z * R, b)
    <2>1. Congruent(w * b, 0, b)
      <3>1. (w * b) - 0 = b * w /\ 0 \in Int
        BY <1>1, <1>4
      <3>2. Multiple((w * b) - 0, b)
        BY <1>4, <3>1, Zenon DEF Multiple
      <3>3. QED
        BY <1>1, <1>7, <3>1, <3>2, CongruentBy, Zenon
    <2>2. s \in Int /\ 0 \in Int /\ (z * R) - 0 = z * R
      BY <1>7
    <2>3. Congruent(s - (w * b), (z * R) - 0, b)
      BY <1>1, <1>7, <2>1, <2>2, CongruentSum, Zenon
    <2>4. QED
      BY <1>7, <2>2, <2>3, Zenon
  <1>9. Congruent(h - g, z, b)
    BY <1>7, <1>8, RadixCancels, Zenon
  <1>10. (h - g) + b \in 0..((3 * b) - 1)
    BY <1>1, <1>3, <1>6
  <1>11. Folded(s, b) = h - g
    BY DEF Folded, h, g, w, l, i
  <1>12. QED
    BY <1>7, <1>9, <1>10, <1>11, Zenon

\* A row of an extension: the integer behind the digits less v times the product, in a
\* word below four times the target.
LEMMA ExtendedIs ==
    ASSUME ModuliFit, NEW A, Source(A), Coprime(A), NEW B, Basis(B), NEW y, Digits(y, A, Len(A)),
           NEW v \in 0..Len(A), NEW j \in 1..Len(B)
    PROVE  /\ multSum(y, v, j, basisextenderparameters(A, B)) \in 0..((4 * B[j]) - 1)
           /\ Congruent(multSum(y, v, j, basisextenderparameters(A, B)),
                        Spread(y, A) - (v * Product(A)), B[j])
  <1> DEFINE params == basisextenderparameters(A, B)
             b == B[j]
             a == Product(A)
             m == Len(A)
             s == Spread(y, A)
             term == [i \in 1..m |-> y[i] * params.qispjMont[j][i]]
             sum == Sum(term)
             t == params.qpjInv[j][v]
  <1>1. /\ Sound(b) /\ b \in Nat \ {0} /\ b \in Nat /\ m \in Nat /\ m \in 1..m
        /\ a \in Nat \ {0} /\ a \in Nat /\ R \in Nat \ {0} /\ 8 * b < R /\ R \in Int
    BY RAssumption DEF Source, Basis, Digits, Sound
  <1>2. /\ DOMAIN A = 1..m /\ DOMAIN B = 1..Len(B) /\ DOMAIN y = 1..m
        /\ params.to = B
        /\ params.qispjMont = [k \in DOMAIN B |-> [i \in DOMAIN A |-> ToMont(Cofactor(A, i) % B[k], B[k])]]
        /\ params.qpjInv = [k \in DOMAIN B |-> Multiples(A, B[k])]
    BY DEF basisextenderparameters, Source, Basis, Digits, Cofactor
  <1>3. multSum(y, v, j, params) = Wrap(Folded(sum, b) + b + t)
    <2>1. b = params.to[j] /\ sum = Sum([i \in DOMAIN y |-> y[i] * params.qispjMont[j][i]])
      BY <1>2
    <2> HIDE DEF params, b
    <2>2. QED
      BY <2>1 DEF multSum, Folded
  <1>4. t \in 0..(b - 1) /\ Congruent(t, -(v * a), b)
    <2>1. t = Multiples(A, b)[v]
      BY <1>2
    <2> HIDE DEF t, params, b
    <2>2. QED
      BY <1>1, <2>1, MultiplesAre, Zenon DEF a
  <1>5. Positive(A) /\ \A i \in 1..m : y[i] \in Nat /\ y[i] \in 0..(A[i] - 1)
    BY DEF Coprime, Digits
  <1>6. ASSUME NEW i \in 1..m
        PROVE  InMontgomery(params.qispjMont[j][i], Cofactor(A, i), b)
    <2>1. params.qispjMont[j][i] = ToMont(Cofactor(A, i) % b, b)
      BY <1>2
    <2> DEFINE c == Cofactor(A, i)
    <2>2. c \in Nat \ {0}
      BY <1>5, Cofactors, Zenon
    <2> HIDE DEF c, b, params
    <2>3. c \in Int /\ c % b \in 0..(R - 1)
      BY <1>1, <2>2
    <2>4. Congruent(c % b, c, b)
      BY <1>1, <2>3, CongruentIs, Zenon
    <2>5. InMontgomery(ToMont(c % b, b), c, b)
      BY <1>1, <2>3, <2>4, MontgomeryIs, Zenon
    <2>6. QED
      BY <2>1, <2>5, Zenon DEF c
  <1> HIDE DEF params, t, b, a
  <1> DEFINE z == [i \in 1..m |-> y[i] * Cofactor(A, i)]
  <1>7. IntRow(z, m) /\ s = Sum(z)
    BY <1>5, SpreadRow, Zenon DEF Spread
  <1>8. \A i \in 1..m : params.qispjMont[j][i] \in 0..(b - 1)
    BY <1>6 DEF InMontgomery
  <1>9. IntRow(term, m)
    <2>1. \A i \in 1..m : term[i] \in Int
      BY <1>1, <1>5, <1>8
    <2>2. term \in [1..m -> Int]
      BY <2>1
    <2>3. Len(term) = m
      <3> HIDE DEF term
      <3>1. QED
        BY <1>1, <2>2, IsASequence
    <2>4. QED
      BY <1>1, <2>1, <2>3 DEF IntRow
  <1>10. \A i \in 1..m : Congruent(term[i], R * z[i], b)
    <2>1. ASSUME NEW i \in 1..m PROVE Congruent(term[i], R * z[i], b)
      <3> DEFINE c == Cofactor(A, i)
                 f == params.qispjMont[j][i]
                 u == y[i]
      <3>1. term[i] = u * f /\ z[i] = u * c
        OBVIOUS
      <3>2. c \in Int
        BY <1>5, Cofactors
      <3>3. u \in Int /\ f \in Int
        BY <1>1, <1>5, <1>8
      <3>4. Congruent(f, c * R, b)
        BY <1>6, Zenon DEF InMontgomery
      <3> HIDE DEF c, f, u, term, z
      <3>5. c * R \in Int /\ Congruent(u, u, b) /\ u * (c * R) = R * (u * c)
        BY <1>1, <3>2, <3>3 DEF Congruent
      <3>6. Congruent(u * f, u * (c * R), b)
        BY <1>1, <3>3, <3>4, <3>5, CongruentProduct, Zenon
      <3>7. QED
        BY <3>1, <3>5, <3>6, Zenon
    <2>2. QED
      BY <2>1
  <1> HIDE DEF z
  <1>11. s \in Int /\ Congruent(sum, s * R, b)
    <2>1. Congruent(Sum(term), R * Sum(z), b)
      <3> HIDE DEF term
      <3>1. QED
        BY <1>1, <1>7, <1>9, <1>10, SumTimes, Zenon
    <2>2. Sum(z) \in Int
      BY <1>7, SumIsInt DEF IntRow
    <2> HIDE DEF s, sum
    <2>3. s \in Int /\ R * Sum(z) = s * R
      BY <1>1, <1>7, <2>2
    <2>4. QED
      BY <2>1, <2>3, Zenon DEF sum
  <1>12. sum \in Nat /\ sum < (2 * b) * R
    <2>1. PICK q \in Moduli : \A i \in 1..m : A[i] <= q
      BY <1>1, Largest
    <2>2. q \in Nat \ {0}
      BY ModuliAreSound DEF Sound
    <2> DEFINE c == (q - 1) * (b - 1)
    <2>3. c \in Nat
      BY <1>1, <2>2
    <2>4. \A i \in 1..m : term[i] \in 0..c
      <3>1. ASSUME NEW i \in 1..m PROVE term[i] \in 0..c
        <4> DEFINE x == y[i]
                   f == params.qispjMont[j][i]
        <4>1. A[i] \in Nat
          BY DEF Source, Basis, Sound
        <4>2. x \in 0..(q - 1) /\ f \in 0..(b - 1) /\ term[i] = x * f
          BY <1>5, <1>8, <2>1, <2>2, <4>1
        <4> HIDE DEF x, f, term, c
        <4>3. x * f <= (q - 1) * f /\ (q - 1) * f <= (q - 1) * (b - 1) /\ x * f >= 0
          BY <1>1, <2>2, <4>2
        <4>4. x * f \in Int /\ (q - 1) * f \in Int
          BY <1>1, <2>2, <4>2
        <4>5. QED
          BY <2>3, <4>2, <4>3, <4>4 DEF c
      <3>2. QED
        BY <3>1
    <2> HIDE DEF c, term
    <2>5. sum \in 0..(m * c)
      BY <1>1, <1>9, <2>3, <2>4, SumAtMost DEF IntRow
    <2>6. m * q <= 2 * R
      <3>1. PICK n \in {Len(Q), Len(P)} : m <= n
        BY DEF Source
      <3>2. n \in Nat /\ n * q <= 2 * R
        BY <2>1, <3>1, Rings DEF Basis, ModuliFit
      <3>3. m * q <= n * q
        BY <1>1, <2>2, <3>1, <3>2
      <3> DEFINE f == m * q
                 g == n * q
      <3>4. f \in Int /\ g \in Int /\ f <= g /\ g <= 2 * R
        BY <1>1, <2>2, <3>2, <3>3
      <3> HIDE DEF f, g
      <3>5. f <= 2 * R
        BY <1>1, <3>4
      <3>6. QED
        BY <3>5 DEF f
    <2>7. m * c < (2 * b) * R
      <3>1. m * c = (m * (q - 1)) * (b - 1)
        BY <1>1, <2>2 DEF c
      <3> DEFINE f == m * (q - 1)
      <3>2. f \in Nat /\ f = (m * q) - m
        BY <1>1, <2>2
      <3> DEFINE g == m * q
      <3>3. g \in Int
        BY <1>1, <2>2
      <3>4. f < 2 * R
        <4>1. f = g - m /\ g <= 2 * R
          BY <2>6, <3>2
        <4> HIDE DEF f, g
        <4>2. QED
          BY <1>1, <3>3, <4>1
      <3> HIDE DEF f, g
      <3>5. f * (b - 1) <= (2 * R) * (b - 1)
        BY <1>1, <3>2, <3>4
      <3>6. (2 * R) * (b - 1) = ((2 * b) * R) - (2 * R)
        BY <1>1
      <3> DEFINE u == f * (b - 1)
                 w == (2 * b) * R
      <3>7. u \in Int /\ w \in Int /\ u <= w - (2 * R)
        BY <1>1, <3>2, <3>5, <3>6
      <3>8. m * c = u
        BY <3>1 DEF f
      <3> HIDE DEF u, w
      <3>9. m * c < w
        BY <1>1, <3>7, <3>8
      <3>10. QED
        BY <3>9 DEF w
    <2> HIDE DEF sum
    <2> DEFINE u == m * c
               w == (2 * b) * R
    <2>8. u \in Int /\ w \in Int /\ u < w /\ sum \in 0..u
      BY <1>1, <2>3, <2>5, <2>7
    <2> HIDE DEF u, w
    <2>9. sum \in Nat /\ sum < w
      BY <2>8
    <2>10. QED
      BY <2>9 DEF w
  <1> DEFINE h == Folded(sum, b)
  <1>13. h + b \in 0..((3 * b) - 1) /\ h \in Int /\ Congruent(h, s, b)
    <2> HIDE DEF sum, s
    <2>1. QED
      BY <1>1, <1>11, <1>12, FoldedIs, Zenon
  <1> HIDE DEF h
  <1> DEFINE e == h + b + t
  <1>14. e \in 0..((4 * b) - 1) /\ e \in 0..(R - 1) /\ e \in Int
    BY <1>1, <1>4, <1>13
  <1>15. Wrap(e) = e
    BY <1>14, WrapRange, Zenon
  <1>16. Congruent(e, s - (v * a), b)
    <2>1. t \in Int /\ v * a \in Int /\ -(v * a) \in Int /\ 0 \in Int /\ b \in Int /\ h + b \in Int /\ s + 0 \in Int
      BY <1>1, <1>4, <1>11, <1>13
    <2>2. Congruent(b, 0, b)
      BY <1>1 DEF Congruent
    <2>3. Congruent(h + b, s + 0, b)
      BY <1>1, <1>11, <1>13, <2>1, <2>2, CongruentSum, Zenon
    <2>4. Congruent((h + b) + t, (s + 0) + (-(v * a)), b)
      BY <1>1, <1>4, <2>1, <2>3, CongruentSum, Zenon
    <2> HIDE DEF s
    <2>5. (s + 0) + (-(v * a)) = s - (v * a) /\ e = (h + b) + t
      BY <1>11, <2>1
    <2>6. QED
      BY <2>4, <2>5, Zenon
  <1>17. multSum(y, v, j, params) = e
    BY <1>3, <1>15 DEF h
  <1>18. QED
    BY <1>14, <1>16, <1>17, Zenon DEF params, b, a

\* An extension of rows that stand for E: every word it writes stands for E modulo the
\* product of the source, misread by at most one multiple of it.
THEOREM ExtensionIs ==
    ASSUME ModuliFit, NEW A, Source(A), Coprime(A), NEW B, Basis(B), NEW x \in [1..Len(A) -> 0..(R - 1)],
           NEW E, StandsFor(x, A, E), Len(A) > 0,
           NEW v \in reconstructRNS(digits(x, basisextenderparameters(A, B)), basisextenderparameters(A, B))
    PROVE  \E c \in Integers!Misread(E % Product(A), Product(A)) : \A j \in 1..Len(B) :
               LET r == multSum(digits(x, basisextenderparameters(A, B)), v, j, basisextenderparameters(A, B))
               IN  r \in 0..((4 * B[j]) - 1) /\ Congruent(r, (E % Product(A)) + (c * Product(A)), B[j])
  <1> DEFINE params == basisextenderparameters(A, B)
             y == digits(x, params)
             a == Product(A)
             s == Spread(y, A)
             m == Len(A)
             k == s \div a
  <1>1. m \in Nat /\ m \in 1..m /\ a \in Nat \ {0} /\ a \in Int /\ E \in Int
    BY DEF Source, Basis, StandsFor
  <1>2. Digits(y, A, m) /\ \A i \in 1..m : y[i] \in Nat
    <2>1. y \in [1..m -> Nat] /\ \A i \in 1..m : y[i] \in 0..(A[i] - 1)
      BY <1>1, DigitsRange
    <2> HIDE DEF y, m
    <2>2. QED
      BY <1>1, <2>1 DEF Digits, m
  <1>3. ASSUME NEW i \in 1..m PROVE Congruent(y[i], E * InverseOf(A, i), A[i])
    <2> DEFINE q == A[i]
               z == InverseOf(A, i)
    <2>1. Congruent(y[i], x[i] * z, q)
      BY <1>1, DigitsAre, Zenon
    <2>2. x[i] \in Int /\ Congruent(x[i], E, q)
      BY Zenon DEF StandsFor
    <2>3. q \in Nat \ {0} /\ z \in Int
      BY DEF Coprime, Positive
    <2>4. Congruent(z, z, q)
      BY DEF Congruent
    <2> HIDE DEF q, z, y
    <2>5. Congruent(x[i] * z, E * z, q)
      BY <1>1, <2>2, <2>3, <2>4, CongruentProduct, Zenon
    <2>6. QED
      BY <2>1, <2>5, CongruentVia, Zenon DEF q, z
  <1> HIDE DEF y, params
  <1>4. s \in Int /\ Congruent(s, E, a)
    BY <1>1, <1>2, <1>3, SpreadIs, Zenon
  <1>5. v \in reconstructRNS(y, params)
    BY DEF y, params
  <1>6. PICK c \in Integers!Misread(s % a, a) : v = k - c
    <2>1. v \in reconstructRNS(y, basisextenderparameters(A, B)) /\ Digits(y, A, Len(A))
      BY <1>2, <1>5, Zenon DEF params
    <2>2. Spread(y, A) \in Int
      BY <1>4
    <2>3. \E c \in Integers!Misread(Spread(y, A) % Product(A), Product(A)) :
              v = (Spread(y, A) \div Product(A)) - c
      BY <2>1, <2>2, CorrectionIs
    <2>4. QED
      BY <2>3
  <1>7. v \in 0..m
    BY <1>2, <1>5, CorrectionRange, Zenon DEF params
  <1>8. s % a = E % a
    BY <1>4, Zenon DEF Congruent
  <1>9. s - (v * a) = (E % a) + (c * a)
    <2>1. k \in Int /\ s = (a * k) + (s % a) /\ s % a \in 0..(a - 1)
      BY <1>1, <1>4, DivMod, Zenon
    <2>2. c \in {0, 1, -1}
      BY DEF Integers!Misread
    <2>3. s % a \in Int
      BY <1>1, <2>1
    <2> DEFINE r == s % a
    <2>4. r \in Int /\ s = (a * k) + r
      BY <2>1, <2>3
    <2> HIDE DEF s, k, a, r
    <2>5. s - ((k - c) * a) = r + (c * a)
      BY <1>1, <2>1, <2>2, <2>4
    <2>6. QED
      BY <1>6, <1>8, <2>5 DEF r
  <1>10. ASSUME NEW j \in 1..Len(B)
         PROVE  /\ multSum(y, v, j, params) \in 0..((4 * B[j]) - 1)
                /\ Congruent(multSum(y, v, j, params), (E % a) + (c * a), B[j])
    <2>1. /\ multSum(y, v, j, params) \in 0..((4 * B[j]) - 1)
          /\ Congruent(multSum(y, v, j, params), s - (v * a), B[j])
      <3> HIDE DEF s
      <3>1. QED
        BY <1>2, <1>7, ExtendedIs, Zenon DEF params, s
    <2>2. QED
      BY <1>9, <2>1, Zenon
  <1>11. c \in Integers!Misread(E % a, a)
    BY <1>8, Zenon
  <1>12. QED
    BY <1>10, <1>11, Zenon DEF y, params

-----------------------------------------------------------------------------
(* The integer behind the rows, step by step *)

\* The integer the rows stand for.
Value == Reconstructed(rows, moduli)
LEMMA ProductsAgree == \A s : Integers!Product(s) = Product(s)
  BY DEF Integers!Product, Product

\* The integer behind the rows of a state.
LEMMA ValueHere ==
    ASSUME IInv
    PROVE  /\ moduli \in Bases /\ Coprime(moduli) /\ Positive(moduli) /\ DOMAIN moduli = 1..Len(moduli)
           /\ rows \in [1..Len(moduli) -> 0..(R - 1)] /\ Len(rows) = Len(moduli)
           /\ \A i \in 1..Len(moduli) : rows[i] \in 0..(R - 1) /\ rows[i] \in Int
           /\ StandsFor(rows, moduli, Value)
           /\ Product(moduli) \in Nat \ {0} /\ Product(moduli) \in Int
           /\ Value \in 0..(Product(moduli) - 1) /\ Value \in Int
           /\ Value % Product(moduli) = Value
  <1> DEFINE n == Len(moduli)
             p == Product(moduli)
  <1>1. moduli \in Bases /\ Coprime(moduli) /\ Positive(moduli) /\ DOMAIN moduli = 1..n /\ n \in Nat
    <2>1. moduli \in Bases
      BY SMTT(30) DEF IInv, TypeOK
    <2>2. QED
      BY <2>1, BasesAreCoprime DEF Coprime, Positive
  <1>2. rows \in [1..n -> 0..(R - 1)] /\ Len(rows) = n /\ DOMAIN rows = 1..n
    BY <1>1, RowsAre
  <1>3. \A i \in 1..n : rows[i] \in 0..(R - 1) /\ rows[i] \in Int
    BY <1>2, RAssumption
  <1>4. Value \in 0..(p - 1) /\ \A i \in 1..n : Congruent(Value, rows[i], moduli[i])
    BY <1>1, <1>2, <1>3, ReconstructedHas, Zenon DEF Value
  <1>5. p \in Nat \ {0}
    BY <1>1, ProductRuns DEF PartialProducts, Positive
  <1>6. Value \in Int /\ p \in Int
    BY <1>4, <1>5
  <1>7. Value % p = Value
    BY <1>4, <1>5, <1>6, ModSmall, Zenon
  <1>8. \A i \in 1..n : Congruent(rows[i], Value, moduli[i])
    BY <1>4, Zenon DEF Congruent
  <1>9. StandsFor(rows, moduli, Value)
    BY <1>2, <1>3, <1>6, <1>8 DEF StandsFor
  <1>10. QED
    BY <1>1, <1>2, <1>3, <1>4, <1>5, <1>6, <1>7, <1>9

\* The rows a step leaves give the next integer.
LEMMA MovesTo ==
    ASSUME NEW name, NEW to \in Bases, NEW x, NEW e, StandsFor(x, to, e), Become(name, to, x)
    PROVE  Value' = e % Product(to) /\ moduli' = to /\ op' = name
  <1>1. Reconstructed(x, to) = e % Product(to)
    BY BasesAreCoprime, ValueIs, Zenon
  <1>2. rows' = x /\ moduli' = to /\ op' = name
    BY DEF Become
  <1>3. QED
    BY <1>1, <1>2 DEF Value
\* The value as module Scaling has it.
LEMMA ValueMoves ==
    ASSUME NEW to \in Bases, moduli' = to,
           \/ Integers!Convert(to) \/ Integers!ModDown(to) \/ Integers!DivFloor(to)
           \/ Integers!DivFloorNTT(to) \/ Integers!DivRound(to)
           \/ \E i, j \in DOMAIN moduli : i <= j /\ Integers!Digit(i, j, to)
           \/ \E t \in {to[1]} : to = << t >> /\ (Integers!Scale(t) \/ Integers!SimpleScale(t))
    PROVE  Integers!Next
  BY DEF Integers!Next

\* The same residues in canonical form: the same integer.
LEMMA ReduceKeeps == IInv /\ Reduce => UNCHANGED << Value, moduli, op >>
  <1>1. SUFFICES ASSUME IInv, Reduce PROVE UNCHANGED << Value, moduli, op >>
    OBVIOUS
  <1> DEFINE n == Len(moduli)
  <1>2. moduli' = moduli /\ op' = op /\ rows' = [i \in DOMAIN rows |-> BRedAdd(rows[i], moduli[i], bredParams[moduli[i]])]
    BY <1>1 DEF Reduce
  <1>3. /\ moduli \in Bases /\ DOMAIN moduli = 1..n /\ DOMAIN rows = 1..n
        /\ \A i \in 1..n : rows[i] \in 0..(R - 1) /\ rows[i] \in Int
        /\ StandsFor(rows, moduli, Value) /\ Value % Product(moduli) = Value
    BY <1>1, ValueHere DEF StandsFor
  <1>4. ASSUME NEW i \in 1..n PROVE rows'[i] \in Int /\ Congruent(rows'[i], Value, moduli[i])
    <2> DEFINE m == moduli[i]
               x == rows[i]
    <2>1. m \in 1..(R - 1) /\ m \in Nat \ {0} /\ 2 * m <= R /\ bredParams[m] = BRedParams(m)
          /\ x \in 0..(R - 1) /\ x \in Int
      BY <1>3, Reducible
    <2>2. rows'[i] = BRedAdd(x, m, bredParams[m])
      BY <1>2, <1>3
    <2>3. Congruent(x, Value, m)
      BY <1>3, Zenon DEF StandsFor
    <2> HIDE DEF m, x
    <2>4. rows'[i] = x % m
      BY <2>1, <2>2, BarrettReduction
    <2>5. x % m \in Int
      BY <2>1
    <2>6. Congruent(x % m, x, m)
      BY <2>1, CongruentIs, Zenon
    <2>7. QED
      BY <2>3, <2>4, <2>5, <2>6, CongruentVia, Zenon DEF m
  <1>5. StandsFor(rows', moduli, Value)
    BY <1>2, <1>3, <1>4 DEF StandsFor
  <1>6. Become(op, moduli, rows')
    BY <1>2 DEF Become
  <1>7. Value' = Value % Product(moduli)
    BY <1>3, <1>5, <1>6, MovesTo
  <1>8. QED
    BY <1>2, <1>3, <1>7

\* Leaving rows lazily reduced leaves the integer alone.
LEMMA LeaveLazyKeeps == IInv /\ LeaveLazy => UNCHANGED << Value, moduli, op >>
  <1>1. SUFFICES ASSUME IInv, LeaveLazy PROVE UNCHANGED << Value, moduli, op >>
    OBVIOUS
  <1> DEFINE n == Len(moduli)
             S == [i \in DOMAIN rows |-> {y \in 0..(2 * moduli[i] - 1) : y % moduli[i] = rows[i]}]
  <1>2. moduli' = moduli /\ op' = op /\ rows' \in OneOfEach(S) /\ \A i \in 1..Len(rows) : rows[i] < moduli[i]
    BY <1>1 DEF LeaveLazy, Canonical
  <1>3. /\ moduli \in Bases /\ DOMAIN moduli = 1..n /\ DOMAIN rows = 1..n /\ Len(rows) = n
        /\ \A i \in 1..n : rows[i] \in 0..(R - 1) /\ rows[i] \in Int
        /\ StandsFor(rows, moduli, Value) /\ Value % Product(moduli) = Value
    <2>1. /\ moduli \in Bases /\ DOMAIN moduli = 1..n /\ rows \in [1..n -> 0..(R - 1)] /\ Len(rows) = n
          /\ \A i \in 1..n : rows[i] \in 0..(R - 1) /\ rows[i] \in Int
          /\ StandsFor(rows, moduli, Value) /\ Value % Product(moduli) = Value
      BY <1>1, ValueHere
    <2>2. DOMAIN rows = 1..n
      BY <2>1
    <2>3. QED
      BY <2>1, <2>2
  <1>4. DOMAIN rows' = 1..n /\ \A i \in 1..n : rows'[i] \in Int /\ rows'[i] % moduli[i] = rows[i]
    BY <1>2, <1>3 DEF OneOfEach
  <1>5. ASSUME NEW i \in 1..n PROVE rows'[i] \in Int /\ Congruent(rows'[i], Value, moduli[i])
    <2>1. moduli[i] \in Nat \ {0}
      BY <1>3, Reducible
    <2>2. Congruent(rows[i], Value, moduli[i]) /\ rows[i] < moduli[i]
      BY <1>2, <1>3 DEF StandsFor
    <2> DEFINE m == moduli[i]
               x == rows[i]
               y == rows'[i]
    <2>3. m \in Nat \ {0} /\ x \in Nat /\ x < m /\ y \in Int /\ y % m = x /\ Congruent(x, Value, m)
      BY <1>3, <1>4, <2>1, <2>2
    <2> HIDE DEF m, x, y
    <2>4. Congruent(y % m, y, m)
      BY <2>3, CongruentIs, Zenon
    <2>5. Congruent(y, Value, m)
      BY <2>3, <2>4 DEF Congruent
    <2>6. QED
      BY <2>3, <2>5 DEF m, y
  <1>6. StandsFor(rows', moduli, Value)
    BY <1>3, <1>4, <1>5 DEF StandsFor
  <1>7. Become(op, moduli, rows')
    BY <1>2 DEF Become
  <1>8. Value' = Value % Product(moduli)
    BY <1>3, <1>6, <1>7, MovesTo
  <1>9. QED
    BY <1>2, <1>3, <1>8

\* The theorem of an extension, for all of its rows.
LEMMA ExtensionMoves ==
    ASSUME ModuliFit, NEW A \in Sources, NEW B, Basis(B), NEW x \in [1..Len(A) -> 0..(R - 1)],
           NEW E, StandsFor(x, A, E), NEW n \in 0..Len(B), NEW z \in modUpExact(x, n, basisextenderparameters(A, B))
    PROVE  /\ DOMAIN z = 1..n
           /\ \E c \in Integers!Misread(E % Product(A), Product(A)) : \A j \in 1..n :
                 z[j] \in 0..((4 * B[j]) - 1) /\ Congruent(z[j], (E % Product(A)) + (c * Product(A)), B[j])
  <1> DEFINE params == basisextenderparameters(A, B)
             y == digits(x, params)
  <1>1. Source(A) /\ Coprime(A) /\ Len(A) > 0
    <2>1. Source(A) /\ Coprime(A)
      BY SourcesExtend, SourcesAreCoprime
    <2>2. CASE A = P
      BY <2>1, <2>2, Rings
    <2>3. CASE A # P
      <3>1. PICK i \in DOMAIN Q : A \in {SubSeq(Q, i, j) : j \in (i + 1)..Len(Q)}
        BY <2>3 DEF Sources
      <3>2. PICK j \in (i + 1)..Len(Q) : A = SubSeq(Q, i, j)
        BY <3>1
      <3>3. i \in 1..Len(Q) /\ Len(Q) \in Nat
        BY Rings DEF Basis
      <3>4. Len(A) = (j - i) + 1
        BY <3>2, <3>3, Consecutive
      <3>5. QED
        BY <2>1, <3>3, <3>4
    <2>4. QED
      BY <2>1, <2>2, <2>3
  <1>2. PICK v \in reconstructRNS(y, params) : z = [j \in 1..n |-> multSum(y, v, j, params)]
    BY DEF modUpExact
  <1>3. \E c \in Integers!Misread(E % Product(A), Product(A)) : \A j \in 1..Len(B) :
               LET r == multSum(y, v, j, params)
               IN  r \in 0..((4 * B[j]) - 1) /\ Congruent(r, (E % Product(A)) + (c * Product(A)), B[j])
    <2>1. v \in reconstructRNS(digits(x, basisextenderparameters(A, B)), basisextenderparameters(A, B))
      BY <1>2 DEF y, params
    <2>2. QED
      BY <1>1, <2>1, ExtensionIs, Zenon DEF y, params
  <1>4. \A j \in 1..n : j \in 1..Len(B)
    BY DEF Basis
  <1> HIDE DEF y, params
  <1>5. QED
    BY <1>2, <1>3, <1>4

\* What the word-size steps take for granted, and the level an extension is right at: the
\* tables of ModUpSplitQP are for all the moduli.
FullyExtended == ModuliFit /\ ExtendedLevels \subseteq {Len(Q)}

\* New rows that stand for the value, or for a multiple of the product off it: an extension.
LEMMA ConvertMoves ==
    ASSUME NEW to \in Bases, NEW x, NEW c \in Integers!Misread(Value, Product(moduli)),
           StandsFor(x, to, Value + (c * Product(moduli))), Become(<< "Convert" >>, to, x)
    PROVE  Integers!Next
  <1>1. Value' = (Value + (c * Product(moduli))) % Product(to) /\ moduli' = to /\ op' = << "Convert" >>
    BY MovesTo, Zenon
  <1>2. Integers!Convert(to)
    <2>1. Integers!M = Product(moduli) /\ Integers!Product(to) = Product(to)
      BY ProductsAgree DEF Integers!M
    <2>2. QED
      BY <1>1, <2>1, Zenon DEF Integers!Convert, Value
  <1>3. QED
    BY <1>1, <1>2, ValueMoves, Zenon

\* From P to Q.
LEMMA ModUpSplitPQMoves == FullyExtended /\ IInv /\ ModUpSplitPQ => Integers!Next
  <1>1. SUFFICES ASSUME FullyExtended, IInv, ModUpSplitPQ PROVE Integers!Next
    OBVIOUS
  <1>2. PICK z \in modUpExact(rows, Len(Q), basisextenderparameters(P, Q)) : Become(<< "Convert" >>, Q, z)
    BY <1>1 DEF ModUpSplitPQ, paramsPQ
  <1>3. /\ moduli = P /\ P \in Sources /\ Basis(Q) /\ Len(Q) \in 0..Len(Q) /\ Q \in Bases /\ ModuliFit
        /\ DOMAIN Q = 1..Len(Q) /\ \A i \in 1..Len(Q) : Q[i] \in Nat
    BY <1>1, Rings, RingBases DEF ModUpSplitPQ, Sources, FullyExtended, Basis, Sound
  <1> DEFINE m == Product(P)
  <1>4. /\ rows \in [1..Len(P) -> 0..(R - 1)] /\ StandsFor(rows, P, Value)
        /\ Value % m = Value /\ Value \in Int /\ m \in Int
    BY <1>1, <1>3, ValueHere
  <1>5. /\ DOMAIN z = 1..Len(Q)
        /\ \E c \in Integers!Misread(Value % m, m) : \A j \in 1..Len(Q) :
              z[j] \in 0..((4 * Q[j]) - 1) /\ Congruent(z[j], (Value % m) + (c * m), Q[j])
    <2>1. ModuliFit /\ P \in Sources /\ Basis(Q) /\ Len(Q) \in 0..Len(Q)
      BY <1>3
    <2>2. rows \in [1..Len(P) -> 0..(R - 1)] /\ StandsFor(rows, P, Value)
      BY <1>4
    <2>3. z \in modUpExact(rows, Len(Q), basisextenderparameters(P, Q))
      BY <1>2
    <2> HIDE DEF m
    <2>4. QED
      BY ONLY <2>1, <2>2, <2>3, ExtensionMoves DEF m
  <1>6. PICK c \in Integers!Misread(Value, m) : \A j \in 1..Len(Q) :
              z[j] \in 0..((4 * Q[j]) - 1) /\ Congruent(z[j], Value + (c * m), Q[j])
    BY <1>4, <1>5, Zenon
  <1>7. StandsFor(z, Q, Value + (c * m))
    <2>1. c \in Int
      BY DEF Integers!Misread
    <2>2. \A j \in 1..Len(Q) : z[j] \in Int
      BY <1>3, <1>6
    <2>3. Value + (c * m) \in Int
      BY <1>4, <2>1
    <2>4. QED
      BY <1>5, <1>6, <2>2, <2>3, Zenon DEF StandsFor
  <1>8. QED
    BY <1>2, <1>3, <1>6, <1>7, ConvertMoves, Zenon

\* The rows that stay stand for the value, whatever multiple of their product it is off.
LEMMA StillStands ==
    ASSUME NEW q \in Nat \ {0}, NEW p \in Nat, Divides(q, p), NEW r \in Int, NEW e \in Int, NEW c \in Int,
           Congruent(r, e, q)
    PROVE  Congruent(r, e + (c * p), q)
  <1>1. PICK h \in Nat : p = q * h
    BY Zenon DEF Divides
  <1>2. (e + (c * p)) - e = q * (c * h) /\ c * h \in Int /\ e + (c * p) \in Int
    BY <1>1
  <1>3. Multiple((e + (c * p)) - e, q)
    BY <1>2, Zenon DEF Multiple
  <1>4. Congruent(e + (c * p), e, q)
    BY <1>2, <1>3, CongruentBy, Zenon
  <1>5. QED
    BY <1>4, Zenon DEF Congruent
\* Every modulus divides the product.
LEMMA DividesAll ==
    ASSUME NEW B, Positive(B), NEW i \in 1..Len(B)
    PROVE  Divides(B[i], Product(B)) /\ B[i] \in Nat \ {0} /\ Product(B) \in Nat
  <1>1. Product(B) = B[i] * Cofactor(B, i) /\ Cofactor(B, i) \in Nat /\ Product(B) \in Nat
    BY Cofactors
  <1>2. B[i] \in Nat \ {0}
    BY DEF Positive
  <1>3. QED
    BY <1>1, <1>2 DEF Divides
\* Rows of Q and rows of P, one after the other.
LEMMA SideBySide ==
    ASSUME NEW l \in 1..Len(Q), NEW x \in [1..l -> 0..(R - 1)], NEW z \in [1..Len(P) -> 0..(R - 1)], NEW e \in Int,
           \A i \in 1..l : Congruent(x[i], e, Q[i]), \A j \in 1..Len(P) : Congruent(z[j], e, P[j])
    PROVE  StandsFor(x \o z, Level(l) \o P, e)
  <1> DEFINE n == Len(P)
             m == Level(l) \o P
             w == x \o z
             S == 0..(R - 1)
  <1>1. /\ Len(m) = l + n /\ l \in Nat /\ n \in Nat /\ S \subseteq Int
        /\ \A i \in 1..l : m[i] = Q[i]
        /\ \A j \in 1..n : m[l + j] = P[j]
    <2>1. S \subseteq Int
      OBVIOUS
    <2>2. l \in Nat /\ n \in Nat
      BY Rings DEF Basis
    <2>3. QED
      BY <2>1, <2>2, ExtendedLevel
  <1> HIDE DEF m, n, S
  <1>2. x \in [1..l -> S] /\ z \in [1..n -> S]
    BY DEF S, n
  <1>3. Joins(x, l, z, n, S)
    BY <1>1, <1>2, Joined
  <1>4. /\ w \in [1..(l + n) -> S]
        /\ \A i \in 1..l : w[i] = x[i]
        /\ \A j \in 1..n : w[l + j] = z[j]
    BY <1>3 DEF Joins
  <1> HIDE DEF w
  <1>5. ASSUME NEW k \in 1..(l + n) PROVE Congruent(w[k], e, m[k])
    <2>1. CASE k <= l
      <3>1. k \in 1..l
        BY <1>1, <2>1
      <3>2. QED
        BY <1>1, <1>4, <3>1, Zenon
    <2>2. CASE ~(k <= l)
      <3>1. k - l \in 1..n /\ k = l + (k - l)
        BY <1>1, <2>2
      <3>2. PICK j \in 1..n : k = l + j
        BY <3>1
      <3>3. Congruent(z[j], e, P[j])
        BY DEF n
      <3>4. QED
        BY <1>1, <1>4, <3>2, <3>3, Zenon
    <2>3. QED
      BY <2>1, <2>2
  <1>6. DOMAIN w = 1..(l + n) /\ \A k \in 1..(l + n) : w[k] \in Int
    BY <1>1, <1>4
  <1>7. StandsFor(w, m, e)
    BY <1>1, <1>5, <1>6 DEF StandsFor
  <1>8. QED
    BY <1>7 DEF w, m

\* From all of Q to Q and P: the rows of Q stay, for any misreading.
LEMMA ModUpSplitQPMoves == FullyExtended /\ IInv /\ ModUpSplitQP => Integers!Next
  <1>1. SUFFICES ASSUME FullyExtended, IInv, ModUpSplitQP PROVE Integers!Next
    OBVIOUS
  <1>2. moduli = Q /\ ModuliFit
    <2>1. PICK l \in ExtendedLevels : moduli = Level(l)
      BY <1>1 DEF ModUpSplitQP
    <2>2. QED
      BY <1>1, <2>1, RingBases DEF FullyExtended
  <1>3. PICK p \in modUpExact(rows, Len(P), basisextenderparameters(Q, P)) :
            Become(<< "Convert" >>, Q \o P, rows \o p)
    BY <1>1, <1>2 DEF ModUpSplitQP, paramsQP
  <1>4. /\ Q \in Sources /\ Basis(P) /\ Len(P) \in 0..Len(P) /\ Q \o P \in Bases
        /\ Q = Level(Len(Q)) /\ Len(Q) \in 1..Len(Q) /\ Source(Q)
        /\ \A j \in 1..Len(P) : P[j] \in Nat \ {0}
    BY Rings, RingBases, WholeQ, ExtendedLevel, SMTT(30) DEF Basis, Sound
  <1> DEFINE m == Product(Q)
  <1>5. /\ rows \in [1..Len(Q) -> 0..(R - 1)] /\ StandsFor(rows, Q, Value) /\ Positive(Q)
        /\ Value % m = Value /\ Value \in Int /\ m \in Int
    BY <1>1, <1>2, ValueHere
  <1>6. /\ DOMAIN p = 1..Len(P)
        /\ \E c \in Integers!Misread(Value % m, m) : \A j \in 1..Len(P) :
              p[j] \in 0..((4 * P[j]) - 1) /\ Congruent(p[j], (Value % m) + (c * m), P[j])
    BY <1>2, <1>3, <1>4, <1>5, ExtensionMoves
  <1>7. PICK c \in Integers!Misread(Value, m) : \A j \in 1..Len(P) :
              p[j] \in 0..((4 * P[j]) - 1) /\ Congruent(p[j], Value + (c * m), P[j])
    BY <1>5, <1>6, Zenon
  <1>8. c \in Int /\ Value + (c * m) \in Int
    <2>1. c \in Int
      BY DEF Integers!Misread
    <2>2. QED
      BY <1>5, <2>1
  <1>9. p \in [1..Len(P) -> 0..(R - 1)]
    <2>1. Len(Q) \in 1..Len(Q)
      BY <1>4
    <2>2. QED
      BY <1>3, <1>4, <1>5, <2>1, ExtensionNear, Zenon
  <1>10. \A i \in 1..Len(Q) : Congruent(rows[i], Value + (c * m), Q[i])
    <2>1. ASSUME NEW i \in 1..Len(Q) PROVE Congruent(rows[i], Value + (c * m), Q[i])
      <3>1. Divides(Q[i], m) /\ Q[i] \in Nat \ {0} /\ m \in Nat
        BY <1>5, DividesAll, Zenon
      <3>2. rows[i] \in Int /\ Congruent(rows[i], Value, Q[i])
        BY <1>5, Zenon DEF StandsFor
      <3> HIDE DEF m
      <3>3. QED
        BY <1>5, <1>8, <3>1, <3>2, StillStands, Zenon
    <2>2. QED
      BY <2>1
  <1>11. StandsFor(rows \o p, Q \o P, Value + (c * m))
    <2>1. StandsFor(rows \o p, Level(Len(Q)) \o P, Value + (c * m))
      <3> HIDE DEF m
      <3>1. QED
        BY <1>4, <1>5, <1>7, <1>8, <1>9, <1>10, SideBySide, Zenon
    <2>2. QED
      BY <1>4, <2>1, Zenon
  <1>12. QED
    BY <1>2, <1>3, <1>4, <1>7, <1>11, ConvertMoves, Zenon

\* inv stands for the inverse of d, and y for the remainder of the row x divided by d.
Divisor(inv, d, q) == \E v : Inverts(v, d, q) /\ InMontgomery(inv, v, q)
Remainder(y, x, d, e, q) == y \in 0..(6 * q) /\ Congruent(x - y, d * e, q)
LEMMA RowDivides ==
    ASSUME NEW q, Sound(q), NEW x \in 0..((2 * q) - 1), NEW d \in Nat, NEW e \in Int, NEW inv, Divisor(inv, d, q),
           NEW y, Remainder(y, x, d, e, q)
    PROVE  quotient(y, x, q, inv) \in 0..(q - 1) /\ Congruent(quotient(y, x, q, inv), e, q)
  BY QuotientIs, Zenon DEF Divisor, Remainder
Splits(v, r, d, e) == v - r = d * e

\* A number less its remainder, misread or not, is a multiple of the divisor.
LEMMA SplitsMisread ==
    ASSUME NEW v \in Int, NEW d \in Nat \ {0}, NEW c \in Int
    PROVE  /\ Splits(v, (v % d) + (c * d), d, (v \div d) - c)
           /\ (v \div d) - c \in Int /\ (v % d) + (c * d) \in Int
  <1> DEFINE k == v \div d
             x == v % d
  <1>1. k \in Int /\ x \in 0..(d - 1) /\ v = (d * k) + x
    BY DivMod, Zenon
  <1> HIDE DEF k, x
  <1>2. v - (x + (c * d)) = d * (k - c) /\ k - c \in Int /\ x + (c * d) \in Int
    BY <1>1
  <1>3. QED
    BY <1>2 DEF Splits, k, x

\* A remainder by a modulus, from one of the whole number.
LEMMA RemainderIs ==
    ASSUME NEW q \in Nat \ {0}, NEW x \in Int, NEW y \in 0..(6 * q), NEW v \in Int, NEW r \in Int,
           NEW d \in Nat, NEW e \in Int, Splits(v, r, d, e), Congruent(x, v, q), Congruent(y, r, q)
    PROVE  Remainder(y, x, d, e, q)
  <1>1. y \in Int
    OBVIOUS
  <1>2. Congruent(x - y, v - r, q)
    BY <1>1, CongruentSum, Zenon
  <1>3. QED
    BY <1>2, Zenon DEF Remainder, Splits
\* The inverse of the product that goes, in the tables of ModDown.
LEMMA DownDivides ==
    ASSUME NEW keep, NEW drop, NEW i \in DOMAIN keep, keep[i] \in Moduli, Product(drop) \in Nat,
           Product(drop) % keep[i] \in 1..(keep[i] - 1)
    PROVE  Divisor(genModDownParams(keep, drop)[i], Product(drop), keep[i])
  <1> DEFINE q == keep[i]
             d == Product(drop)
             x == d % q
  <1>1. Sound(q) /\ q \in Nat \ {0} /\ q <= R /\ q \in Moduli \cup {t \in T : Odd(t)}
    <2>1. Sound(q)
      BY ModuliAreSound
    <2>2. QED
      BY <2>1, RAssumption DEF Sound
  <1>2. genModDownParams(keep, drop)[i] = ToMont(ModExp(x, q - 2, q), q)
    BY DEF genModDownParams
  <1>3. d \in Nat /\ d \in Int /\ d % q \in 1..(q - 1)
    OBVIOUS
  <1> HIDE DEF d, q
  <1>4. x \in 0..(R - 1) /\ x \in Int
    BY <1>1, <1>3, RAssumption
  <1>5. Congruent(x, d, q)
    BY <1>1, <1>3, CongruentIs, Zenon
  <1> HIDE DEF x
  <1>6. \E v : Inverts(v, d, q) /\ InMontgomery(ToMont(ModExp(x, q - 2, q), q), v, q)
    BY <1>1, <1>3, <1>4, <1>5, PowerInverts, Zenon
  <1>7. QED
    BY <1>2, <1>6, Zenon DEF Divisor, d, q

\* A product of moduli is not zero.
LEMMA PositiveProduct ==
    ASSUME NEW x, Positive(x)
    PROVE  Product(x) \in Nat \ {0}
  BY ProductIsPositive DEF Positive
\* A level of Q with P after it.
LEMMA LevelAndP ==
    ASSUME NEW l \in 1..Len(Q)
    PROVE  /\ Coprime(Level(l) \o P) /\ IsJoin(Level(l) \o P, Level(l), P)
           /\ Product(Level(l) \o P) = Product(Level(l)) * Product(P)
           /\ Product(P) \in Nat \ {0} /\ Product(Level(l)) \in Nat \ {0}
           /\ \A i \in 1..l : Product(P) % Q[i] \in 1..(Q[i] - 1)
           /\ \A j \in 1..Len(P) : Product(Level(l)) % P[j] \in 1..(P[j] - 1)
  <1> DEFINE m == Level(l) \o P
             b == Level(l)
  <1>1. /\ m \in Bases /\ b \in Bases /\ P \in Bases /\ Len(b) = l /\ Len(m) = l + Len(P)
        /\ \A i \in 1..l : b[i] = Q[i] /\ m[i] = Q[i]
        /\ \A j \in 1..Len(P) : m[l + j] = P[j]
    BY Levels, ExtendedLevel, RingBases
  <1>2. Coprime(m) /\ Positive(m) /\ Positive(b) /\ Positive(P)
    BY <1>1, BasesAreCoprime
  <1>3. IsJoin(m, b, P)
    BY <1>1, <1>2 DEF IsJoin
  <1>4. Product(m) = Product(b) * Product(P)
    BY <1>3, JoinedProduct, Zenon
  <1>5. Product(P) \in Nat \ {0} /\ Product(b) \in Nat \ {0}
    BY <1>2, PositiveProduct, Zenon
  <1>6. /\ \A i \in 1..Len(b) : Product(P) % b[i] \in 1..(b[i] - 1)
        /\ \A j \in 1..Len(P) : Product(b) % P[j] \in 1..(P[j] - 1)
    BY <1>2, <1>3, JoinNotZero, Zenon
  <1>7. QED
    BY <1>1, <1>2, <1>3, <1>4, <1>5, <1>6

\* What Quotients leaves stands for e when every y it may take does for the remainder.
LEMMA QuotientsStand ==
    ASSUME NEW name, NEW to \in Bases, Basis(to), NEW ys, NEW inv, NEW d \in Nat, NEW e \in Int,
           \A i \in 1..Len(to) : /\ rows[i] \in Nat /\ moduli[i] = to[i] /\ Divisor(inv[i], d, to[i])
                                 /\ \A y \in ys[i] : Remainder(y, rows[i], d, e, to[i]),
           Quotients(name, ys, inv, to)
    PROVE  \E x : StandsFor(x, to, e) /\ Become(name, to, x)
  <1> DEFINE S == [i \in DOMAIN to |-> {quotient(y, rows[i], to[i], inv[i]) : y \in ys[i]}]
             n == Len(to)
  <1>1. PICK x \in OneOfEach(S) : Become(name, to, x)
    BY DEF Quotients
  <1>2. DOMAIN to = 1..n /\ n \in Nat /\ \A i \in 1..n : Sound(to[i]) /\ to[i] \in Nat /\ rows[i] < 2 * to[i]
    <2>1. \A i \in 1..n : rows[i] < 2 * moduli[i] /\ moduli[i] = to[i]
      BY DEF Quotients, Lazy
    <2>2. DOMAIN to = 1..n /\ n \in Nat /\ \A i \in 1..n : Sound(to[i]) /\ to[i] \in Nat
      BY DEF Basis, Sound
    <2> HIDE DEF S
    <2>3. QED
      BY <2>1, <2>2
  <1>3. DOMAIN x = 1..n /\ \A i \in 1..n : x[i] \in {quotient(y, rows[i], to[i], inv[i]) : y \in ys[i]}
    BY <1>1, <1>2 DEF OneOfEach
  <1>4. ASSUME NEW i \in 1..n PROVE x[i] \in Int /\ Congruent(x[i], e, to[i])
    <2>1. PICK y \in ys[i] : x[i] = quotient(y, rows[i], to[i], inv[i])
      BY <1>3
    <2>2. rows[i] \in 0..((2 * to[i]) - 1) /\ Sound(to[i]) /\ Divisor(inv[i], d, to[i])
      BY <1>2
    <2>3. Remainder(y, rows[i], d, e, to[i])
      OBVIOUS
    <2>4. /\ quotient(y, rows[i], to[i], inv[i]) \in 0..(to[i] - 1)
          /\ Congruent(quotient(y, rows[i], to[i], inv[i]), e, to[i])
      BY <2>2, <2>3, RowDivides, Zenon
    <2>5. x[i] \in 0..(to[i] - 1) /\ Congruent(x[i], e, to[i])
      BY <2>1, <2>4, Zenon
    <2>6. QED
      BY <1>2, <2>5
  <1>5. StandsFor(x, to, e)
    BY <1>3, <1>4 DEF StandsFor
  <1>6. QED
    BY <1>1, <1>5

\* Rows that stand for a quotient by d, when d times the product that stays is the product.
Leaves(d, to) == d \in Nat \ {0} /\ Product(to) \in Nat \ {0} /\ Product(moduli) = Product(to) * d
LEMMA LeavesIs ==
    ASSUME NEW to \in Bases, NEW d, Leaves(d, to)
    PROVE  /\ Integers!M \div Integers!Product(to) = d /\ Integers!M % Integers!Product(to) = 0
           /\ Integers!Product(to) = Product(to)
  <1>1. Integers!M = Product(moduli) /\ Integers!Product(to) = Product(to)
    BY ProductsAgree DEF Integers!M
  <1>2. ((Product(to) * d) + 0) \div Product(to) = d /\ ((Product(to) * d) + 0) % Product(to) = 0
    <2>1. 0 \in 0..(Product(to) - 1) /\ Product(to) \in Nat \ {0} /\ d \in Int
      BY DEF Leaves
    <2> DEFINE p == Product(to)
    <2> HIDE DEF p
    <2>2. QED
      BY <2>1, DivModUnique DEF p
  <1>3. (Product(to) * d) + 0 = Product(to) * d
    BY DEF Leaves
  <1>4. QED
    BY <1>1, <1>2, <1>3 DEF Leaves

\* ModDown, with its remainder misread.
LEMMA ModDownMoves ==
    ASSUME NEW to \in Bases, NEW x, NEW d, Leaves(d, to), NEW c \in Integers!Misread(Value % d, d),
           StandsFor(x, to, (Value \div d) - c), Become(<< "ModDown" >>, to, x)
    PROVE  Integers!Next
  <1>1. Value' = ((Value \div d) - c) % Product(to) /\ moduli' = to /\ op' = << "ModDown" >>
    BY MovesTo, Zenon
  <1>2. Integers!ModDown(to)
    BY <1>1, LeavesIs DEF Integers!ModDown, Integers!Divide, Value
  <1>3. QED
    BY <1>1, <1>2, ValueMoves, Zenon

\* An exact division.
LEMMA DivFloorMoves ==
    ASSUME NEW to \in Bases, NEW x, NEW d, Leaves(d, to), Value \div d \in Int,
           StandsFor(x, to, Value \div d), Become(<< "DivFloor" >>, to, x)
    PROVE  Integers!Next
  <1>1. Value' = (Value \div d) % Product(to) /\ moduli' = to /\ op' = << "DivFloor" >>
    BY MovesTo, Zenon
  <1>2. (Value \div d) - 0 = Value \div d
    OBVIOUS
  <1>3. Integers!DivFloor(to)
    BY <1>1, <1>2, LeavesIs DEF Integers!DivFloor, Integers!Divide, Value
  <1>4. QED
    BY <1>1, <1>3, ValueMoves, Zenon

\* A division whose remainder may be one divisor too large.
LEMMA DivFloorNTTMoves ==
    ASSUME NEW to \in Bases, NEW x, NEW d, Leaves(d, to), NEW c \in {0, 1},
           StandsFor(x, to, (Value \div d) - c), Become(<< "DivFloorNTT" >>, to, x)
    PROVE  Integers!Next
  <1>1. Value' = ((Value \div d) - c) % Product(to) /\ moduli' = to /\ op' = << "DivFloorNTT" >>
    BY MovesTo, Zenon
  <1>2. Integers!DivFloorNTT(to)
    BY <1>1, LeavesIs DEF Integers!DivFloorNTT, Integers!Divide, Value
  <1>3. QED
    BY <1>1, <1>2, ValueMoves, Zenon

\* Rows of P that stand for the value, extended to a level of Q: the remainders of ModDown.
LEMMA ModDownRemainders ==
    ASSUME FullyExtended, IInv, NEW l \in 1..Len(Q), moduli = Level(l) \o P,
           NEW x \in [1..Len(P) -> 0..(R - 1)], \A j \in 1..Len(P) : Congruent(x[j], Value, P[j]),
           NEW y \in modUpExact(x, l, paramsPQ)
    PROVE  \E c \in Integers!Misread(Value % Product(P), Product(P)) : \A i \in 1..l :
               /\ y[i] \in 0..((4 * Q[i]) - 1)
               /\ Congruent(y[i], (Value % Product(P)) + (c * Product(P)), Q[i])
  <1>1. P \in Sources /\ Basis(Q) /\ ModuliFit /\ DOMAIN x = 1..Len(P) /\ \A j \in 1..Len(P) : x[j] \in Int
    BY Rings, RAssumption DEF Sources, FullyExtended
  <1>2. l \in 0..Len(Q) /\ Value \in Int
    BY Rings, ValueHere DEF Basis
  <1>3. StandsFor(x, P, Value)
    BY <1>1, <1>2 DEF StandsFor
  <1>4. y \in modUpExact(x, l, basisextenderparameters(P, Q))
    BY DEF paramsPQ
  <1>5. QED
    BY ONLY <1>1, <1>2, <1>3, <1>4, ExtensionMoves
\* The rows of Q and the rows of P.
LEMMA RowsByRing ==
    ASSUME IInv, NEW l \in 1..Len(Q), moduli = Level(l) \o P
    PROVE  /\ Value \in Int
           /\ \A i \in 1..l : /\ rows[i] \in 0..(R - 1) /\ rows[i] \in Nat /\ moduli[i] = Q[i]
                              /\ Congruent(rows[i], Value, Q[i])
           /\ \A j \in 1..Len(P) : /\ rows[l + j] \in 0..(R - 1) /\ moduli[l + j] = P[j]
                                   /\ Congruent(rows[l + j], Value, P[j])
  <1>1. /\ Len(moduli) = l + Len(P) /\ l \in Nat /\ Len(P) \in Nat /\ Len(Q) \in Nat
        /\ \A i \in 1..l : moduli[i] = Q[i]
        /\ \A j \in 1..Len(P) : moduli[l + j] = P[j]
    <2>1. l \in Nat /\ Len(P) \in Nat /\ Len(Q) \in Nat
      BY Rings DEF Basis
    <2>2. QED
      BY <2>1, ExtendedLevel
  <1>2. /\ Value \in Int /\ \A k \in 1..Len(moduli) : rows[k] \in 0..(R - 1)
        /\ \A k \in 1..Len(moduli) : Congruent(rows[k], Value, moduli[k])
    BY ValueHere DEF StandsFor
  <1>3. \A i \in 1..l : i \in 1..Len(moduli)
    BY <1>1
  <1>4. \A j \in 1..Len(P) : l + j \in 1..Len(moduli)
    BY <1>1
  <1>5. \A k \in 1..Len(moduli) : rows[k] \in Nat
    BY <1>2, RAssumption
  <1>6. QED
    BY <1>1, <1>2, <1>3, <1>4, <1>5, Zenon
\* Quotients by P: whatever stands for the remainder and is below six times a modulus.
LEMMA ModDownQuotients ==
    ASSUME IInv, NEW l \in 1..Len(Q), moduli = Level(l) \o P, NEW ys,
           NEW c \in Integers!Misread(Value % Product(P), Product(P)),
           \A i \in 1..l : \A u \in ys[i] :
               u \in 0..(6 * Q[i]) /\ Congruent(u, (Value % Product(P)) + (c * Product(P)), Q[i]),
           Quotients(<< "ModDown" >>, ys, modDownParamsPQ, Level(l))
    PROVE  Integers!Next
  <1> DEFINE d == Product(P)
             r == (Value % d) + (c * d)
             e == (Value \div d) - c
  <1>1. DOMAIN Q = 1..Len(Q)
    BY Rings
  <1>2. /\ Level(l) \in Bases /\ Basis(Level(l)) /\ Len(Level(l)) = l /\ \A i \in 1..l : Level(l)[i] = Q[i]
        /\ d \in Nat \ {0} /\ d \in Nat /\ Leaves(d, Level(l))
        /\ \A i \in 1..l : d % Q[i] \in 1..(Q[i] - 1)
    BY Levels, LevelAndP DEF Leaves
  <1>3. /\ Value \in Int
        /\ \A i \in 1..l : rows[i] \in Nat /\ moduli[i] = Q[i] /\ Congruent(rows[i], Value, Q[i])
    BY RowsByRing, Zenon
  <1>4. Splits(Value, r, d, e) /\ e \in Int /\ r \in Int
    <2>1. c \in Int
      BY DEF Integers!Misread
    <2> HIDE DEF d
    <2>2. QED
      BY <1>2, <1>3, <2>1, SplitsMisread
  <1>5. \A i \in 1..l : \A u \in ys[i] : u \in 0..(6 * Q[i]) /\ Congruent(u, r, Q[i])
    OBVIOUS
  <1> HIDE DEF r, e
  <1>6. ASSUME NEW i \in 1..l
        PROVE  /\ Divisor(modDownParamsPQ[i], d, Q[i])
               /\ \A u \in ys[i] : Remainder(u, rows[i], d, e, Q[i])
    <2>1. i \in DOMAIN Q /\ Q[i] \in Moduli /\ Sound(Q[i])
      BY <1>1, Rings DEF Basis
    <2>2. Divisor(genModDownParams(Q, P)[i], d, Q[i])
      BY <1>2, <2>1, DownDivides, Zenon
    <2> DEFINE q == Q[i]
    <2>3. q \in Nat \ {0} /\ rows[i] \in Int /\ Congruent(rows[i], Value, q)
      <3>1. rows[i] \in Nat
        BY <1>3
      <3>2. QED
        BY <1>3, <2>1, <3>1 DEF Sound
    <2>4. \A u \in ys[i] : u \in 0..(6 * q) /\ Congruent(u, r, q)
      BY <1>5
    <2> HIDE DEF q, d
    <2>5. \A u \in ys[i] : Remainder(u, rows[i], d, e, q)
      BY <1>2, <1>3, <1>4, <2>3, <2>4, RemainderIs, Zenon
    <2>6. QED
      BY <2>2, <2>5 DEF q, d, modDownParamsPQ
  <1> HIDE DEF d
  <1>7. \A i \in 1..Len(Level(l)) :
             /\ rows[i] \in Nat /\ moduli[i] = Level(l)[i] /\ Divisor(modDownParamsPQ[i], d, Level(l)[i])
             /\ \A u \in ys[i] : Remainder(u, rows[i], d, e, Level(l)[i])
    BY <1>2, <1>3, <1>6
  <1>8. PICK x : StandsFor(x, Level(l), e) /\ Become(<< "ModDown" >>, Level(l), x)
    BY <1>2, <1>4, <1>7, QuotientsStand, Zenon
  <1>9. c \in Integers!Misread(Value % d, d)
    BY DEF d
  <1>10. QED
    BY <1>2, <1>8, <1>9, ModDownMoves, Zenon DEF e

\* What an extension and a lazy transform leave is a remainder a division takes.
LEMMA SixTimes ==
    ASSUME NEW q \in Nat
    PROVE  \A u : (u \in 0..((4 * q) - 1) \/ u \in 0..((6 * q) - 1)) => u \in 0..(6 * q)
  OBVIOUS

\* ModDown by P of a polynomial of any number of rows of Q.
LEMMA ModDownPQMoves == FullyExtended /\ IInv /\ ModDownPQ => Integers!Next
  <1>1. SUFFICES ASSUME FullyExtended, IInv, ModDownPQ PROVE Integers!Next
    OBVIOUS
  <1> DEFINE n == Len(P)
             d == Product(P)
             z == LastRows(n)
  <1>2. DOMAIN Q = 1..Len(Q) /\ \A i \in 1..Len(Q) : Q[i] \in Nat
    BY Rings DEF Basis, Sound
  <1>3. PICK l \in 1..Len(Q) :
            /\ moduli = Level(l) \o P
            /\ \E y \in modUpExact(z, l, paramsPQ) :
                   Quotients(<< "ModDown" >>, [i \in 1..l |-> {y[i]}], modDownParamsPQ, Level(l))
    BY <1>1, <1>2 DEF ModDownPQ
  <1>4. PICK y \in modUpExact(z, l, paramsPQ) :
            Quotients(<< "ModDown" >>, [i \in 1..l |-> {y[i]}], modDownParamsPQ, Level(l))
    BY <1>3
  <1>5. /\ z \in [1..n -> 0..(R - 1)] /\ \A j \in 1..n : z[j] = rows[l + j]
    BY <1>1, <1>3, Halves
  <1>6. \A j \in 1..n : Congruent(rows[l + j], Value, P[j])
    BY <1>1, <1>3, RowsByRing, Zenon
  <1>7. \A j \in 1..n : Congruent(z[j], Value, P[j])
    BY <1>5, <1>6
  <1> HIDE DEF z
  <1>8. PICK c \in Integers!Misread(Value % d, d) : \A i \in 1..l :
            y[i] \in 0..((4 * Q[i]) - 1) /\ Congruent(y[i], (Value % d) + (c * d), Q[i])
    BY <1>1, <1>3, <1>4, <1>5, <1>7, ModDownRemainders
  <1> DEFINE ys == [i \in 1..l |-> {y[i]}]
  <1>9. ASSUME NEW i \in 1..l, NEW u \in ys[i]
        PROVE  u \in 0..(6 * Q[i]) /\ Congruent(u, (Value % d) + (c * d), Q[i])
    <2>1. u = y[i] /\ i \in 1..Len(Q)
      BY <1>2
    <2>2. QED
      BY <1>2, <1>8, <2>1, SixTimes
  <1>10. Quotients(<< "ModDown" >>, ys, modDownParamsPQ, Level(l))
    BY <1>4
  <1> HIDE DEF ys
  <1>11. QED
    BY <1>1, <1>3, <1>8, <1>9, <1>10, ModDownQuotients, Zenon

\* The same in the transform domain, where the remainders are lazy.
LEMMA ModDownNTTPQMoves == FullyExtended /\ IInv /\ ModDownNTTPQ => Integers!Next
  <1>1. SUFFICES ASSUME FullyExtended, IInv, ModDownNTTPQ PROVE Integers!Next
    OBVIOUS
  <1> DEFINE n == Len(P)
             d == Product(P)
             l == Len(Q)
             F == [j \in DOMAIN P |-> InvNTTLazy(rows[l + j], P[j])]
  <1>2. PICK x \in OneOfEach(F) :
            \E y \in modUpExact(x, l, paramsPQ) :
                Quotients(<< "ModDown" >>, [i \in DOMAIN Q |-> NTTLazy(y[i], Q[i])], modDownParamsPQ, Q)
    BY <1>1 DEF ModDownNTTPQ
  <1>3. PICK y \in modUpExact(x, l, paramsPQ) :
            Quotients(<< "ModDown" >>, [i \in DOMAIN Q |-> NTTLazy(y[i], Q[i])], modDownParamsPQ, Q)
    BY <1>2
  <1>4. /\ DOMAIN Q = 1..l /\ DOMAIN P = 1..n /\ Q = Level(l) /\ l \in 1..Len(Q)
        /\ (\A i \in 1..l : Q[i] \in Nat) /\ \A j \in 1..n : Sound(P[j])
        /\ moduli = Level(l) \o P
    BY <1>1, Rings, RingBases DEF Basis, Sound, ModDownNTTPQ
  <1>5. \A j \in 1..n : Congruent(rows[l + j], Value, P[j])
    BY <1>1, <1>4, RowsByRing, Zenon
  <1>6. DOMAIN x = 1..n /\ \A j \in 1..n : x[j] \in InvNTTLazy(rows[l + j], P[j])
    BY <1>2, <1>4 DEF OneOfEach
  <1>7. ASSUME NEW j \in 1..n PROVE x[j] \in 0..(R - 1) /\ Congruent(x[j], Value, P[j])
    <2>1. x[j] \in 1..((2 * P[j]) - 1) /\ Congruent(x[j], rows[l + j], P[j])
      BY <1>6 DEF InvNTTLazy, Congruent
    <2>2. P[j] \in Nat /\ 8 * P[j] < R
      BY <1>4 DEF Sound
    <2>3. x[j] \in 0..(R - 1)
      BY <2>1, <2>2, RAssumption
    <2>4. QED
      BY <1>5, <2>1, <2>3, CongruentVia, Zenon
  <1> HIDE DEF F
  <1>8. x \in [1..n -> 0..(R - 1)]
    <2>1. x \in [DOMAIN F -> UNION {F[i] : i \in DOMAIN F}]
      BY <1>2 DEF OneOfEach
    <2>2. x = [j \in 1..n |-> x[j]]
      BY <1>6, <2>1
    <2>3. QED
      BY <1>7, <2>2
  <1>9. PICK c \in Integers!Misread(Value % d, d) : \A i \in 1..l :
            y[i] \in 0..((4 * Q[i]) - 1) /\ Congruent(y[i], (Value % d) + (c * d), Q[i])
    BY <1>1, <1>3, <1>4, <1>7, <1>8, ModDownRemainders
  <1> DEFINE ys == [i \in DOMAIN Q |-> NTTLazy(y[i], Q[i])]
  <1>10. ASSUME NEW i \in 1..l, NEW u \in ys[i]
         PROVE  u \in 0..(6 * Q[i]) /\ Congruent(u, (Value % d) + (c * d), Q[i])
    <2>1. u \in NTTLazy(y[i], Q[i])
      BY <1>4
    <2>2. y[i] < 4 * Q[i] /\ Q[i] \in Nat
      BY <1>4, <1>9
    <2>3. u \in 0..((6 * Q[i]) - 1) /\ Congruent(u, y[i], Q[i])
      BY <2>1, <2>2 DEF NTTLazy, Congruent
    <2>4. u \in 0..(6 * Q[i])
      BY <2>2, <2>3, SixTimes
    <2>5. QED
      BY <1>9, <2>3, <2>4, CongruentVia, Zenon
  <1>11. Quotients(<< "ModDown" >>, ys, modDownParamsPQ, Level(l))
    BY <1>3, <1>4
  <1> HIDE DEF ys
  <1>12. QED
    BY <1>1, <1>4, <1>9, <1>10, <1>11, ModDownQuotients, Zenon

\* The rows of Q.
LEMMA KeptIs ==
    ASSUME IInv, NEW l \in 1..Len(Q), moduli = Level(l) \o P
    PROVE  \A i \in 1..l : KeptRows(l)[i] = rows[i]
  <1> DEFINE n == Len(P)
             S == 0..(R - 1)
  <1>1. l \in Nat /\ l > 0 /\ n \in Nat /\ n > 0 /\ l + n \in Nat
    BY Rings DEF Basis
  <1>2. rows \in [1..(l + n) -> S]
    BY Halves
  <1> HIDE DEF n, S
  <1>3. 1 \in 1..(l + n) /\ l \in 1..(l + n) /\ l = (l - 1) + 1
    BY <1>1
  <1>4. Part(rows, 1, l, l, S)
    BY <1>1, <1>2, <1>3, Parts
  <1>5. \A k \in 1..l : (1 + k) - 1 = k
    BY <1>1
  <1>6. QED
    BY <1>4, <1>5 DEF Part, KeptRows

\* ModDown by Q.
LEMMA ModDownSplitQPMoves == FullyExtended /\ IInv /\ ModDownSplitQP => Integers!Next
  <1>1. SUFFICES ASSUME FullyExtended, IInv, ModDownSplitQP PROVE Integers!Next
    OBVIOUS
  <1> DEFINE n == Len(P)
             l == Len(Q)
             d == Product(Q)
             last == LastRows(n)
             kept == KeptRows(l)
             z(y) == [j \in DOMAIN P |-> quotient(y[j], last[j], P[j], modDownParamsQP[j])]
  <1>2. PICK y \in modUpExact(kept, n, basisextenderparameters(Q, P)) : Become(<< "ModDown" >>, P, z(y))
    BY <1>1 DEF ModDownSplitQP, paramsQP
  <1>3. /\ DOMAIN Q = 1..l /\ DOMAIN P = 1..n /\ Q = Level(l) /\ l \in 1..Len(Q) /\ n \in 0..Len(P)
        /\ moduli = Level(l) \o P /\ P \in Bases /\ Basis(P) /\ Q \in Sources /\ ModuliFit
        /\ l \in Nat /\ \A j \in 1..n : P[j] \in Moduli /\ Sound(P[j])
    <2>1. /\ Q = Level(l) /\ l \in 1..Len(Q) /\ DOMAIN Q = 1..l /\ l \in Nat
          /\ moduli = Q \o P /\ P \in Bases /\ Q \in Sources /\ ModuliFit
      BY <1>1, RingBases, WholeQ DEF ModDownSplitQP, FullyExtended
    <2>2. DOMAIN P = 1..n /\ n \in 0..Len(P) /\ Basis(P) /\ \A j \in 1..n : P[j] \in Moduli /\ Sound(P[j])
      BY Rings DEF Basis
    <2>3. QED
      BY <2>1, <2>2
  <1>4. /\ last \in [1..n -> 0..(R - 1)] /\ \A j \in 1..n : last[j] = rows[l + j]
        /\ kept \in [1..l -> 0..(R - 1)]
    BY <1>1, <1>3, Halves
  <1>5. /\ Value \in Int
        /\ \A i \in 1..l : Congruent(rows[i], Value, Q[i])
        /\ \A j \in 1..n : Congruent(rows[l + j], Value, P[j])
    BY <1>1, <1>3, RowsByRing, Zenon
  <1>6. \A i \in 1..l : kept[i] = rows[i]
    BY <1>1, <1>3, KeptIs
  <1>7. StandsFor(kept, Q, Value)
    <2>1. \A i \in 1..l : kept[i] \in Int
      BY <1>4, RAssumption
    <2>2. DOMAIN kept = 1..l
      BY <1>4
    <2> HIDE DEF kept
    <2>3. QED
      BY <1>5, <1>6, <2>1, <2>2 DEF StandsFor
  <1>8. /\ d \in Nat \ {0} /\ d \in Nat /\ Leaves(d, P)
        /\ \A j \in 1..n : d % P[j] \in 1..(P[j] - 1)
    <2>1. /\ Product(Q \o P) = Product(Q) * Product(P)
          /\ Product(P) \in Nat \ {0} /\ Product(Q) \in Nat \ {0}
          /\ \A j \in 1..Len(P) : Product(Q) % P[j] \in 1..(P[j] - 1)
      BY <1>3, LevelAndP
    <2>2. moduli = Q \o P
      BY <1>3
    <2>3. Product(Q) * Product(P) = Product(P) * Product(Q)
      BY <2>1
    <2>4. QED
      BY <2>1, <2>2, <2>3 DEF Leaves
  <1> HIDE DEF kept, last
  <1>9. PICK c \in Integers!Misread(Value % d, d) : \A j \in 1..n :
            y[j] \in 0..((4 * P[j]) - 1) /\ Congruent(y[j], (Value % d) + (c * d), P[j])
    <2>1. kept \in [1..Len(Q) -> 0..(R - 1)] /\ StandsFor(kept, Q, Value)
      BY <1>4, <1>7
    <2>2. ModuliFit /\ Q \in Sources /\ Basis(P) /\ n \in 0..Len(P)
      BY <1>3
    <2>3. y \in modUpExact(kept, n, basisextenderparameters(Q, P))
      BY <1>2
    <2> HIDE DEF d, n
    <2>4. QED
      BY ONLY <2>1, <2>2, <2>3, ExtensionMoves DEF d
  <1> DEFINE r == (Value % d) + (c * d)
             e == (Value \div d) - c
             x == z(y)
  <1>10. Splits(Value, r, d, e) /\ e \in Int /\ r \in Int
    <2>1. c \in Int
      BY DEF Integers!Misread
    <2> HIDE DEF d
    <2>2. QED
      BY <1>5, <1>8, <2>1, SplitsMisread
  <1> HIDE DEF r, e
  <1>11. DOMAIN x = 1..n /\ \A j \in 1..n : x[j] = quotient(y[j], last[j], P[j], modDownParamsQP[j])
    BY <1>3
  <1> HIDE DEF x
  <1>12. ASSUME NEW j \in 1..n PROVE x[j] \in Int /\ Congruent(x[j], e, P[j])
    <2>1. j \in DOMAIN P /\ P[j] \in Moduli /\ Sound(P[j])
      BY <1>3
    <2>2. Divisor(genModDownParams(P, Q)[j], d, P[j])
      BY <1>8, <2>1, DownDivides, Zenon
    <2> DEFINE q == P[j]
               u == y[j]
               v == last[j]
               inv == modDownParamsQP[j]
    <2>3. Divisor(inv, d, q)
      BY <2>2 DEF modDownParamsQP
    <2>4. q \in Nat \ {0} /\ q \in Nat
      BY <2>1 DEF Sound
    <2>5. v \in 0..((2 * q) - 1) /\ v \in Int
      <3>1. v \in 0..(R - 1)
        BY <1>4
      <3>2. v < 2 * q
        BY <1>1, <1>3 DEF ModDownSplitQP, last
      <3>3. QED
        BY <2>4, <3>1, <3>2
    <2>6. u \in 0..((4 * q) - 1) /\ Congruent(u, r, q)
      BY <1>9 DEF r
    <2>7. u \in 0..(6 * q)
      BY <2>4, <2>6, SixTimes
    <2>8. Congruent(v, Value, q)
      BY <1>4, <1>5
    <2>9. x[j] = quotient(u, v, q, inv)
      BY <1>11
    <2>10. Sound(q)
      BY <2>1
    <2> HIDE DEF u, q, d, v, inv
    <2>11. Remainder(u, v, d, e, q)
      BY <1>5, <1>8, <1>10, <2>4, <2>5, <2>6, <2>7, <2>8, RemainderIs, Zenon
    <2>12. x[j] \in 0..(q - 1) /\ Congruent(x[j], e, q)
      BY <1>8, <1>10, <2>3, <2>5, <2>9, <2>10, <2>11, RowDivides, Zenon
    <2>13. x[j] \in Int
      BY <2>4, <2>12
    <2>14. QED
      BY <2>12, <2>13 DEF q
  <1>13. StandsFor(x, P, e)
    BY <1>10, <1>11, <1>12 DEF StandsFor
  <1>14. Become(<< "ModDown" >>, P, x)
    BY <1>2 DEF x
  <1> HIDE DEF d
  <1>15. QED
    BY <1>3, <1>8, <1>9, <1>13, <1>14, ModDownMoves, Zenon DEF e

-----------------------------------------------------------------------------
(* Division by the last moduli *)

\* x is the row of residues of e by the first l moduli of Q.
Residues(x, l, e) ==
    /\ x \in [1..l -> 0..(R - 1)] /\ e \in Int
    /\ \A i \in 1..l : x[i] \in 0..(Q[i] - 1) /\ Congruent(x[i], e, Q[i])
LEMMA ResiduesStand ==
    ASSUME NEW l \in 1..Len(Q), NEW x, NEW e, Residues(x, l, e)
    PROVE  StandsFor(x, Level(l), e)
  <1>1. Len(Level(l)) = l /\ \A i \in 1..l : Level(l)[i] = Q[i]
    BY Levels
  <1>2. \A i \in 1..l : x[i] \in Int
    BY RAssumption DEF Residues
  <1>3. QED
    BY <1>1, <1>2 DEF Residues, StandsFor
\* The inverse a division by a modulus of Q takes in the row of another.
LEMMA LastDivides ==
    ASSUME NEW m \in 1..Len(Q), NEW i \in 1..Len(Q), i # m
    PROVE  Divisor(rescaleParams(Q[m], Q[i]), Q[m], Q[i])
  <1> DEFINE q == Q[i]
             d == Q[m]
  <1>1. Coprime(Q) /\ Positive(Q)
    BY RingBases, BasesAreCoprime
  <1>2. Divides(d, Cofactor(Q, i))
    BY <1>1, Cofactors
  <1>3. q \in Moduli \cup {t \in T : Odd(t)} /\ Sound(d) /\ Sound(q)
    BY Rings DEF Basis
  <1>4. d \in Nat /\ d \in Int /\ d \in 0..(R - 1) /\ q \in Nat \ {0}
    BY <1>3, RAssumption DEF Sound
  <1>5. d % q \in 1..(q - 1)
    BY <1>1, <1>2, <1>4, NotZero
  <1>6. rescaleParams(d, q) = ToMont(ModExp(d, q - 2, q), q)
    BY DEF rescaleParams
  <1> HIDE DEF q, d
  <1>7. Congruent(d, d, q)
    BY <1>4, CongruentIs, Zenon
  <1>8. \E v : Inverts(v, d, q) /\ InMontgomery(ToMont(ModExp(d, q - 2, q), q), v, q)
    BY <1>3, <1>4, <1>5, <1>7, PowerInverts, Zenon
  <1>9. QED
    BY <1>6, <1>8 DEF Divisor, q, d

\* A number less its remainder is a multiple of the divisor.
LEMMA SplitsFloor ==
    ASSUME NEW v \in Int, NEW d \in Nat \ {0}
    PROVE  Splits(v, v % d, d, v \div d) /\ v \div d \in Int /\ v % d \in Int /\ v % d \in 0..(d - 1)
  <1> DEFINE k == v \div d
             x == v % d
  <1>1. k \in Int /\ x \in 0..(d - 1) /\ v = (d * k) + x
    BY DivMod, Zenon
  <1> HIDE DEF k, x
  <1>2. v - x = d * k /\ x \in Int
    BY <1>1
  <1>3. QED
    BY <1>1, <1>2 DEF Splits, k, x
\* A residue of the last modulus in another row.
LEMMA FloorRow ==
    ASSUME NEW m \in 2..Len(Q), NEW x, NEW e, Residues(x, m, e)
    PROVE  Residues(divFloor(x), m - 1, e \div Q[m])
  <1> DEFINE a == Q[m]
             u == x[m]
             k == e \div a
  <1>1. m \in 1..Len(Q) /\ m \in 1..m /\ m \in Nat /\ \A i \in 1..(m - 1) : i \in 1..Len(Q) /\ i \in 1..m /\ i # m
    BY Rings DEF Basis
  <1>2. Sound(a) /\ a \in Nat \ {0} /\ a \in Nat /\ a < R /\ e \in Int
    <2>1. Sound(a)
      BY <1>1, Rings DEF Basis
    <2>2. QED
      BY <2>1, RAssumption DEF Sound, Residues
  <1>3. x \in [1..m -> 0..(R - 1)] /\ Len(x) = m
    <2>1. x \in [1..m -> 0..(R - 1)]
      BY DEF Residues
    <2>2. QED
      BY <1>1, <2>1, IsASequence
  <1>4. u = e % a /\ u \in 0..(R - 1) /\ u \in Int
    <2>1. u \in 0..(a - 1) /\ u % a = e % a
      BY <1>1 DEF Residues, Congruent
    <2> HIDE DEF u, a
    <2>2. u \in Int /\ u \in 0..(R - 1)
      BY <1>2, <2>1, RAssumption
    <2>3. u % a = u
      BY <1>2, <2>1, <2>2, ModSmall, Zenon
    <2>4. QED
      BY <2>1, <2>2, <2>3
  <1>5. Splits(e, e % a, a, k) /\ k \in Int
    BY <1>2, SplitsFloor, Zenon
  <1>6. /\ divFloor(x) \in [1..(m - 1) -> 0..(R - 1)]
        /\ \A i \in 1..(m - 1) : divFloor(x)[i] \in 0..(Q[i] - 1)
    BY <1>1, <1>3, FloorStep
  <1>7. ASSUME NEW i \in 1..(m - 1) PROVE Congruent(divFloor(x)[i], k, Q[i])
    <2> DEFINE q == Q[i]
               y == BRedAdd(u, q, bredParams[q])
               inv == rescaleParams(a, q)
    <2>1. i \in 1..Len(Q) /\ i \in 1..m /\ i # m
      BY <1>1
    <2>2. Sound(q) /\ q \in Nat \ {0} /\ 2 * q <= R /\ bredParams[q] = BRedParams(q)
      <3>1. Sound(q)
        BY <2>1, Rings DEF Basis
      <3>2. QED
        BY <3>1, RAssumption DEF Sound
    <2>3. divFloor(x)[i] = quotient(y, x[i], q, inv)
      BY <1>1, <1>3 DEF divFloor
    <2>4. Divisor(inv, a, q)
      BY <1>1, <2>1, LastDivides
    <2>5. x[i] \in 0..(q - 1) /\ Congruent(x[i], e, q)
      BY <2>1 DEF Residues
    <2> HIDE DEF q, a, u, k, inv
    <2>6. y = u % q
      BY <1>4, <2>2, BarrettReduction
    <2>7. Congruent(u % q, u, q) /\ u % q \in 0..(6 * q) /\ x[i] \in Int /\ x[i] \in 0..((2 * q) - 1)
      <3>1. u % q \in 0..(6 * q)
        BY <1>4, <2>2
      <3>2. Congruent(u % q, u, q)
        BY <1>4, <2>2, CongruentIs, Zenon
      <3>3. x[i] \in Int /\ x[i] \in 0..((2 * q) - 1)
        BY <2>2, <2>5
      <3>4. QED
        BY <3>1, <3>2, <3>3
    <2>8. Remainder(y, x[i], a, k, q)
      <3>1. e % a \in Int /\ Congruent(y, e % a, q) /\ y \in 0..(6 * q)
        BY <1>4, <2>6, <2>7
      <3> HIDE DEF y
      <3>2. QED
        BY <1>2, <1>5, <2>2, <2>5, <2>7, <3>1, RemainderIs, Zenon
    <2> HIDE DEF y
    <2>9. Congruent(quotient(y, x[i], q, inv), k, q)
      BY <1>2, <1>5, <2>2, <2>4, <2>7, <2>8, RowDivides, Zenon
    <2>10. QED
      BY <2>3, <2>9, Zenon DEF q
  <1>8. QED
    BY <1>5, <1>6, <1>7 DEF Residues

\* Half the last modulus, added to the last row and taken away from the others.
LEMMA CentredIs ==
    ASSUME ModuliFit, NEW m \in 2..Len(Q), NEW x, NEW e, Residues(x, m, e)
    PROVE  /\ Splits(e, ((e + halved(Q[m])) % Q[m]) - halved(Q[m]), Q[m], (e + halved(Q[m])) \div Q[m])
           /\ (e + halved(Q[m])) \div Q[m] \in Int /\ ((e + halved(Q[m])) % Q[m]) - halved(Q[m]) \in Int
           /\ \A i \in 1..(m - 1) :
                 /\ centred(x) + uncentre(Q[m], Q[i]) \in 0..(3 * Q[i])
                 /\ Congruent(centred(x) + uncentre(Q[m], Q[i]),
                              ((e + halved(Q[m])) % Q[m]) - halved(Q[m]), Q[i])
  <1> DEFINE a == Q[m]
             h == halved(a)
             u == x[m]
             g == (e + h) % a
             k == (e + h) \div a
  <1>1. m \in 1..Len(Q) /\ m \in 1..m /\ m \in Nat /\ \A i \in 1..(m - 1) : i \in 1..Len(Q) /\ i \in 1..m
    BY Rings DEF Basis
  <1>2. Sound(a) /\ a \in Nat \ {0} /\ 2 <= a /\ 2 * a <= R /\ a < R /\ e \in Int
    <2>1. Sound(a)
      BY <1>1, Rings DEF Basis
    <2>2. QED
      BY <2>1, RAssumption, SMTT(30) DEF Sound, Residues
  <1>3. Len(x) = m
    <2>1. x \in [1..m -> 0..(R - 1)]
      BY DEF Residues
    <2>2. QED
      BY <1>1, <2>1, IsASequence
  <1>4. u \in 0..(a - 1) /\ u % a = e % a
    BY <1>1 DEF Residues, Congruent
  <1>5. h \in 0..(a - 1) /\ h \in Int /\ h \in 0..(R - 1)
    <2> HIDE DEF a
    <2>1. h = (a - 1) \div 2
      BY DEF halved
    <2> HIDE DEF h
    <2>2. QED
      BY <1>2, <2>1, RAssumption
  <1>6. centred(x) = CRed(u + h, a)
    BY <1>3 DEF centred
  <1>7. centred(x) = g
    <2> HIDE DEF a, h, u, g
    <2>1. u + h \in 0..((2 * a) - 1) /\ u + h \in Int /\ u \in Int
      BY <1>2, <1>4, <1>5
    <2> DEFINE z == CRed(u + h, a)
    <2>2. z \in 0..(a - 1) /\ z % a = (u + h) % a
      BY <1>2, <2>1, CRedRange
    <2>3. Congruent(u, e, a) /\ Congruent(h, h, a)
      BY <1>4 DEF Congruent
    <2>4. Congruent(u + h, e + h, a)
      BY <1>2, <1>5, <2>1, <2>3, CongruentSum, Zenon
    <2> HIDE DEF z
    <2>5. z \in Int /\ z % a = z
      <3>1. z \in Int
        BY <2>2
      <3>2. QED
        BY <1>2, <2>2, <3>1, ModSmall, Zenon
    <2>6. QED
      BY <1>6, <2>2, <2>4, <2>5 DEF Congruent, z, g
  <1>8. e + h = (a * k) + g /\ g \in 0..(a - 1) /\ k \in Int
    <2> HIDE DEF a, h
    <2>1. e + h \in Int
      BY <1>2, <1>5
    <2>2. QED
      BY <1>2, <2>1, DivMod, Zenon
  <1>9. Splits(e, g - h, a, k) /\ g - h \in Int /\ g \in Int
    <2> HIDE DEF a, h, g, k
    <2> DEFINE z == a * k
    <2>1. e + h = z + g
      BY <1>8
    <2>2. z \in Int
      BY <1>2, <1>8
    <2> HIDE DEF z
    <2>3. e - (g - h) = z /\ g - h \in Int /\ g \in Int
      BY <1>2, <1>5, <1>8, <2>1, <2>2
    <2>4. QED
      BY <2>3 DEF Splits, z
  <1>10. ASSUME NEW i \in 1..(m - 1)
         PROVE  /\ centred(x) + uncentre(a, Q[i]) \in 0..(3 * Q[i])
                /\ Congruent(centred(x) + uncentre(a, Q[i]), g - h, Q[i])
    <2> DEFINE q == Q[i]
    <2>1. i \in 1..Len(Q)
      BY <1>1
    <2>2. q \in Nat \ {0} /\ 2 * q <= R /\ bredParams[q] = BRedParams(q) /\ q \in Int
      <3>1. Sound(q)
        BY <2>1, Rings DEF Basis
      <3>2. QED
        BY <3>1, RAssumption DEF Sound
    <2>3. a < 2 * q
      BY <1>1, <2>1, Rings DEF ModuliFit
    <2>4. uncentre(a, q) = q - BRedAdd(h, q, bredParams[q])
      BY DEF uncentre
    <2> HIDE DEF q, a, h, g
    <2>5. BRedAdd(h, q, bredParams[q]) = h % q
      BY <1>5, <2>2, BarrettReduction
    <2> DEFINE s == h % q
    <2>6. s \in 0..(q - 1) /\ s \in Int
      BY <1>5, <2>2
    <2>7. Congruent(s, h, q) /\ Congruent(g, g, q)
      BY <1>5, <1>9, <2>2, CongruentIs, Zenon
    <2> HIDE DEF s
    <2>8. Congruent(g - s, g - h, q)
      BY <1>5, <1>9, <2>2, <2>6, <2>7, CongruentSum, Zenon
    <2>9. centred(x) + uncentre(a, q) = (g - s) + (1 * q) /\ g - s \in Int
      <3>1. centred(x) + uncentre(a, q) = g + (q - s)
        BY <1>7, <2>4, <2>5 DEF s
      <3>2. QED
        BY <1>9, <2>2, <2>6, <3>1
    <2>10. Congruent((g - s) + (1 * q), g - s, q)
      <3>1. 1 \in Int
        OBVIOUS
      <3>2. QED
        BY <2>2, <2>9, <3>1, ModPlus, Zenon DEF Congruent
    <2>11. Congruent(centred(x) + uncentre(a, q), g - h, q)
      BY <2>8, <2>9, <2>10, CongruentVia, Zenon
    <2>12. (g - s) + (1 * q) \in 0..(3 * q)
      BY <1>2, <1>8, <2>2, <2>3, <2>6
    <2>13. QED
      BY <2>9, <2>11, <2>12 DEF q
  <1>11. QED
    BY <1>8, <1>9, <1>10
\* A rounding division leaves the residues of the rounded quotient.
LEMMA RoundRow ==
    ASSUME ModuliFit, NEW m \in 2..Len(Q), NEW x, NEW e, Residues(x, m, e)
    PROVE  Residues(divRound(x), m - 1, (e + halved(Q[m])) \div Q[m])
  <1> DEFINE a == Q[m]
             k == (e + halved(a)) \div a
             r == ((e + halved(a)) % a) - halved(a)
  <1>1. m \in 1..Len(Q) /\ m \in 1..m /\ m \in Nat /\ \A i \in 1..(m - 1) : i \in 1..Len(Q) /\ i \in 1..m /\ i # m
    BY Rings DEF Basis
  <1>2. Sound(a) /\ a \in Nat \ {0} /\ a \in Nat /\ a < R /\ e \in Int
    <2>1. Sound(a)
      BY <1>1, Rings DEF Basis
    <2>2. QED
      BY <2>1, RAssumption DEF Sound, Residues
  <1>3. x \in [1..m -> 0..(R - 1)] /\ Len(x) = m
    <2>1. x \in [1..m -> 0..(R - 1)]
      BY DEF Residues
    <2>2. QED
      BY <1>1, <2>1, IsASequence
  <1>4. /\ Splits(e, r, a, k) /\ k \in Int /\ r \in Int
        /\ \A i \in 1..(m - 1) : /\ centred(x) + uncentre(a, Q[i]) \in 0..(3 * Q[i])
                                 /\ Congruent(centred(x) + uncentre(a, Q[i]), r, Q[i])
    BY CentredIs
  <1>5. /\ divRound(x) \in [1..(m - 1) -> 0..(R - 1)]
        /\ \A i \in 1..(m - 1) : divRound(x)[i] \in 0..(Q[i] - 1)
    BY <1>1, <1>3, RoundStep
  <1>6. ASSUME NEW i \in 1..(m - 1) PROVE Congruent(divRound(x)[i], k, Q[i])
    <2> DEFINE q == Q[i]
               y == centred(x) + uncentre(a, q)
               inv == rescaleParams(a, q)
    <2>1. i \in 1..Len(Q) /\ i \in 1..m /\ i # m
      BY <1>1
    <2>2. Sound(q) /\ q \in Nat \ {0}
      <3>1. Sound(q)
        BY <2>1, Rings DEF Basis
      <3>2. QED
        BY <3>1 DEF Sound
    <2>3. divRound(x)[i] = quotient(y, x[i], q, inv)
      BY <1>1, <1>3 DEF divRound
    <2>4. Divisor(inv, a, q)
      BY <1>1, <2>1, LastDivides
    <2>5. x[i] \in 0..(q - 1) /\ Congruent(x[i], e, q) /\ y \in 0..(3 * q) /\ Congruent(y, r, q)
      BY <1>4, <2>1 DEF Residues
    <2> HIDE DEF q, a, r, k, inv, y
    <2>6. y \in 0..(6 * q) /\ x[i] \in Int /\ x[i] \in 0..((2 * q) - 1)
      BY <2>2, <2>5
    <2>7. Remainder(y, x[i], a, k, q)
      BY <1>2, <1>4, <2>2, <2>5, <2>6, RemainderIs, Zenon
    <2>8. Congruent(quotient(y, x[i], q, inv), k, q)
      BY <1>2, <1>4, <2>2, <2>4, <2>6, <2>7, RowDivides, Zenon
    <2>9. QED
      BY <2>3, <2>8, Zenon DEF q
  <1>7. QED
    BY <1>4, <1>5, <1>6 DEF Residues

\* The products of the first moduli of Q.
LEMMA LevelProduct ==
    ASSUME NEW j \in 2..Len(Q)
    PROVE  /\ Product(Level(j)) = Product(Level(j - 1)) * Q[j]
           /\ Product(Level(j)) \in Nat \ {0} /\ Product(Level(j - 1)) \in Nat \ {0} /\ Q[j] \in Nat \ {0}
  <1>1. j \in 1..Len(Q) /\ j - 1 \in 1..Len(Q) /\ j \in Nat /\ j \in 1..j
    BY Rings DEF Basis
  <1>2. /\ Level(j) \in Bases /\ Len(Level(j)) = j /\ \A i \in 1..j : Level(j)[i] = Q[i]
        /\ Level(j - 1) \in Bases /\ Len(Level(j - 1)) = j - 1 /\ \A i \in 1..(j - 1) : Level(j - 1)[i] = Q[i]
    BY <1>1, Levels
  <1>3. Q[j] \in Nat \ {0}
    <2>1. Sound(Q[j])
      BY <1>1, Rings DEF Basis
    <2>2. QED
      BY <2>1 DEF Sound
  <1>4. Positive(Level(j)) /\ Positive(Level(j - 1)) /\ Positive(<< Q[j] >>) /\ Product(<< Q[j] >>) = Q[j]
    BY <1>2, <1>3, BasesAreCoprime, SingleModulus
  <1>5. IsJoin(Level(j), Level(j - 1), << Q[j] >>)
    <2>1. Len(<< Q[j] >>) = 1 /\ \A i \in 1..1 : i = 1
      BY SingleModulus
    <2>2. j = (j - 1) + 1 /\ \A i \in 1..(j - 1) : i \in 1..j
      BY <1>1
    <2>3. << Q[j] >>[1] = Q[j]
      OBVIOUS
    <2>4. \A i \in 1..1 : Level(j)[(j - 1) + i] = << Q[j] >>[i]
      BY <1>1, <1>2, <2>1, <2>2, <2>3
    <2>5. QED
      BY <1>2, <1>4, <2>1, <2>2, <2>4 DEF IsJoin
  <1>6. QED
    BY <1>3, <1>4, <1>5, JoinedProduct, PositiveProduct

\* Rounding down twice is rounding down once by the product.
LEMMA FloorOfFloor ==
    ASSUME NEW v \in Int, NEW a \in Nat \ {0}, NEW b \in Nat \ {0}
    PROVE  (v \div a) \div b = v \div (a * b)
  <1> DEFINE k == v \div a
             r == v % a
             l == k \div b
             s == k % b
             d == a * b
  <1>1. k \in Int /\ r \in 0..(a - 1) /\ v = (a * k) + r
    BY DivMod, Zenon
  <1>2. l \in Int /\ s \in 0..(b - 1) /\ k = (b * l) + s
    <2> HIDE DEF k
    <2>1. QED
      BY <1>1, DivMod, Zenon
  <1> HIDE DEF k, r, l, s
  <1>3. d \in Nat \ {0}
    BY ProductBelow, DividesProduct
  <1>4. v = (d * l) + ((a * s) + r)
    <2>1. a * ((b * l) + s) = ((a * b) * l) + (a * s)
      BY <1>2
    <2> DEFINE A == (a * b) * l
               B == a * s
    <2>2. A \in Int /\ B \in Int
      BY <1>2
    <2>3. v = (A + B) + r
      BY <1>1, <1>2, <2>1
    <2> HIDE DEF A, B
    <2>4. v = A + (B + r)
      BY <1>1, <2>2, <2>3
    <2>5. QED
      BY <2>4 DEF A, B
  <1>5. (a * s) + r \in 0..(d - 1)
    <2>1. a * s <= a * (b - 1) /\ a * (b - 1) = (a * b) - a /\ a * s >= 0 /\ a * s \in Int
      BY <1>2
    <2> DEFINE e == a * s
               f == a * (b - 1)
    <2>2. e \in Int /\ e >= 0 /\ e <= f /\ f = d - a
      BY <2>1
    <2> HIDE DEF e, f, d
    <2>3. e + r \in 0..(d - 1)
      BY <1>1, <1>3, <2>2
    <2>4. QED
      BY <2>3 DEF e
  <1> DEFINE u == (a * s) + r
  <1> HIDE DEF u, d
  <1>6. v \div d = l
    <2>1. v = (d * l) + u /\ u \in 0..(d - 1)
      BY <1>4, <1>5 DEF u
    <2>2. QED
      BY <1>2, <1>3, <2>1, DivModUnique, Zenon
  <1>7. QED
    BY <1>6 DEF k, l, d

\* One level less leaves one modulus more to divide by.
LEMMA LeavesMore ==
    ASSUME NEW j \in 2..Len(Q), NEW d, Leaves(d, Level(j)), NEW v \in Int
    PROVE  Leaves(d * Q[j], Level(j - 1)) /\ v \div (d * Q[j]) = (v \div d) \div Q[j]
  <1> DEFINE a == Q[j]
             p == Product(Level(j - 1))
             m == Product(moduli)
  <1>1. a \in Nat \ {0} /\ p \in Nat \ {0} /\ d \in Nat \ {0} /\ m = (p * a) * d
    BY LevelProduct DEF Leaves
  <1> HIDE DEF a, p, m
  <1>2. (p * a) * d = p * (d * a) /\ d * a \in Nat \ {0}
    BY <1>1
  <1>3. m = p * (d * a)
    BY <1>1, <1>2
  <1>4. v \div (d * a) = (v \div d) \div a
    BY <1>1, FloorOfFloor
  <1>5. QED
    BY <1>1, <1>2, <1>3, <1>4 DEF Leaves, a, p, m
\* What the rows of a level stand for.
LEMMA LeveledRows ==
    ASSUME IInv, NEW l \in 1..Len(Q), moduli = Level(l), Canonical(l)
    PROVE  Residues(rows, l, Value) /\ Leaves(1, Level(l))
  <1>1. Len(Level(l)) = l /\ \A i \in 1..l : Level(l)[i] = Q[i]
    BY Levels
  <1>2. /\ rows \in [1..l -> 0..(R - 1)] /\ Value \in Int
        /\ \A i \in 1..l : rows[i] \in 0..(R - 1) /\ Congruent(rows[i], Value, Q[i])
        /\ Product(moduli) \in Nat \ {0}
    BY <1>1, ValueHere DEF StandsFor
  <1>3. \A i \in 1..l : Q[i] \in Nat /\ rows[i] < Q[i]
    <2>1. \A i \in 1..l : Sound(Q[i])
      BY Rings DEF Basis
    <2>2. \A i \in 1..l : Q[i] \in Nat
      BY <2>1 DEF Sound
    <2>3. QED
      BY <1>1, <2>2 DEF Canonical
  <1>4. \A i \in 1..l : rows[i] \in 0..(Q[i] - 1)
    BY <1>2, <1>3, RAssumption
  <1>5. QED
    BY <1>2, <1>4 DEF Residues, Leaves

\* Dividing by several moduli, one after the other, rounds down once.
LEMMA DivFloorManyMoves == FullyExtended /\ IInv /\ DivFloorByLastModulusMany => Integers!Next
  <1>1. SUFFICES ASSUME IInv, DivFloorByLastModulusMany PROVE Integers!Next
    OBVIOUS
  <1>2. PICK n \in 1..(Len(rows) - 1) :
            /\ Leveled /\ Canonical(Len(rows))
            /\ Become(<< "DivFloor" >>, Level(Len(rows) - n), Many(divFloor, rows, n))
    BY <1>1 DEF DivFloorByLastModulusMany
  <1>3. PICK l \in 2..Len(Q) : moduli = Level(l)
    BY <1>2 DEF Leveled
  <1>4. l \in 1..Len(Q) /\ l \in Nat
    BY Rings DEF Basis
  <1>5. rows \in [1..l -> 0..(R - 1)] /\ Len(rows) = l
    BY <1>1, <1>3, <1>4, Levels, RowsAre
  <1>6. n \in 1..(l - 1) /\ n \in Nat /\ l - n \in 1..Len(Q)
    BY <1>4, <1>5, Rings, SMTT(30) DEF Basis
  <1>7. PICK after : /\ Many(divFloor, rows, n) = after[n] /\ after[0] = rows
                     /\ \A k \in 1..n : after[k] = divFloor(after[k - 1])
    BY <1>4, <1>5, <1>6, ManyFloorRuns, Zenon
  <1>8. Residues(rows, l, Value) /\ Leaves(1, Level(l)) /\ Value \in Int
    BY <1>1, <1>2, <1>3, <1>4, <1>5, LeveledRows DEF Residues
  <1> DEFINE H == {k \in 0..n : \E d : Leaves(d, Level(l - k)) /\ Residues(after[k], l - k, Value \div d)}
  <1>9. 0 \in H
    <2>1. l - 0 = l /\ 0 \in 0..n /\ Value \div 1 = Value
      BY <1>4, <1>6, <1>8
    <2>2. QED
      BY <1>7, <1>8, <2>1
  <1>10. ASSUME NEW k \in 1..n, k - 1 \in H PROVE k \in H
    <2> DEFINE m == l - (k - 1)
               y == after[k - 1]
    <2>1. PICK d : Leaves(d, Level(m)) /\ Residues(y, m, Value \div d)
      BY <1>10
    <2>2. m \in 2..Len(Q) /\ k \in 0..n /\ m - 1 = l - k
      BY <1>4, <1>6
    <2>3. after[k] = divFloor(y)
      BY <1>7
    <2> HIDE DEF m, y, H
    <2>4. Residues(divFloor(y), m - 1, (Value \div d) \div Q[m])
      BY <2>1, <2>2, FloorRow, Zenon
    <2>5. Leaves(d * Q[m], Level(m - 1)) /\ Value \div (d * Q[m]) = (Value \div d) \div Q[m]
      BY <1>8, <2>1, <2>2, LeavesMore, Zenon
    <2>6. QED
      BY <2>2, <2>3, <2>4, <2>5 DEF H
  <1> HIDE DEF H
  <1>11. n \in H
    <2>1. \A k \in 1..n : k - 1 \in H => k \in H
      BY <1>10
    <2>2. \A k \in 0..n : k \in H
      BY <1>6, <1>9, <2>1, Induction
    <2>3. QED
      BY <1>6, <2>2
  <1>12. PICK d : Leaves(d, Level(l - n)) /\ Residues(after[n], l - n, Value \div d)
    BY <1>11 DEF H
  <1> DEFINE to == Level(l - n)
  <1>13. StandsFor(after[n], to, Value \div d) /\ to \in Bases /\ Value \div d \in Int
    BY <1>6, <1>12, ResiduesStand, Levels DEF Residues
  <1>14. Become(<< "DivFloor" >>, to, after[n])
    BY <1>2, <1>5, <1>7
  <1> HIDE DEF to
  <1>15. QED
    BY <1>12, <1>13, <1>14, DivFloorMoves, Zenon DEF to

\* The quotients by the last moduli, rounded one after the other, down to n0 moduli.
Rounded(n0) ==
    LET down[n \in n0..Len(moduli)] ==
            IF n = Len(moduli) THEN Value ELSE (down[n+1] + (moduli[n+1] - 1) \div 2) \div moduli[n+1]
    IN  down
LEMMA RoundedRuns ==
    ASSUME NEW l \in 1..Len(Q), NEW n \in 0..(l - 1), Len(moduli) = l, Value \in Int,
           \A i \in 1..l : moduli[i] = Q[i]
    PROVE  /\ Rounded(l - n)[l] = Value
           /\ \A j \in (l - n)..(l - 1) :
                 Rounded(l - n)[j] = (Rounded(l - n)[j + 1] + halved(Q[j + 1])) \div Q[j + 1]
  <1> DEFINE I == Int
             at(k) == (l - k) + 1
             next(k, s) == (s + halved(Q[at(k)])) \div Q[at(k)]
             f[i \in (l - n)..Len(moduli)] ==
                 IF i = Len(moduli) THEN Value
                 ELSE (f[i+1] + (moduli[i+1] - 1) \div 2) \div moduli[i+1]
             g == [k \in 1..n |-> [s \in I |-> next(k, s)]]
  <1>1. n \in Nat /\ l \in Nat /\ Value \in I /\ \A k \in 1..n : at(k) \in 1..l
    BY Rings DEF Basis
  <1>2. \A i \in 1..l : i \in 1..Len(Q) /\ Q[i] \in Nat \ {0} /\ halved(Q[i]) \in Int
    <2>1. \A i \in 1..l : i \in 1..Len(Q)
      BY Rings DEF Basis
    <2>2. \A i \in 1..l : Sound(Q[i])
      BY <2>1, Rings DEF Basis
    <2>3. QED
      BY <2>1, <2>2 DEF Sound, halved
  <1>3. \A k \in 1..n : \A s \in I : next(k, s) \in I
    <2>1. ASSUME NEW k \in 1..n, NEW s \in I PROVE next(k, s) \in I
      <3> DEFINE q == Q[at(k)]
                 h == halved(q)
      <3>1. q \in Nat \ {0} /\ h \in Int
        BY <1>1, <1>2
      <3> HIDE DEF q, h
      <3>2. (s + h) \div q \in Int
        BY <3>1
      <3>3. QED
        BY <3>2 DEF q, h
    <2>2. QED
      BY <2>1
  <1>4. g \in [1..n -> [I -> I]]
    <2> HIDE DEF next, I
    <2>1. QED
      BY <1>3
  <1> HIDE DEF g, next, I
  <1>5. PICK r \in [0..n -> I] : Follows(r, n, Value, g)
    BY <1>1, <1>4, Recursion, Zenon
  <1>6. ASSUME NEW k \in 1..n PROVE r[k] = next(k, r[k - 1])
    <2>1. k - 1 \in 0..n
      BY <1>1
    <2>2. r[k - 1] \in I /\ r[k] = g[k][r[k - 1]]
      BY <1>5, <2>1 DEF Follows
    <2>3. \A s \in I : g[k][s] = next(k, s)
      BY Zenon DEF g
    <2>4. QED
      BY <2>2, <2>3, Zenon
  <1> DEFINE h == [i \in (l - n)..l |-> r[l - i]]
  <1>7. ASSUME NEW i \in (l - n)..l
        PROVE  h[i] = IF i = l THEN Value ELSE (h[i+1] + (moduli[i+1] - 1) \div 2) \div moduli[i+1]
    <2>1. h[i] = r[l - i]
      OBVIOUS
    <2>2. CASE i = l
      BY <1>1, <1>5, <2>1, <2>2 DEF Follows
    <2>3. CASE i # l
      <3> DEFINE k == l - i
      <3>1. k \in 1..n /\ at(k) = i + 1 /\ i + 1 \in 1..l /\ i + 1 \in (l - n)..l /\ l - (i + 1) = k - 1
        BY <1>1, <2>3
      <3>2. h[i + 1] = r[k - 1]
        BY <3>1
      <3>3. r[k] = next(k, r[k - 1])
        BY <1>6, <3>1
      <3>4. moduli[i + 1] = Q[i + 1]
        BY <3>1
      <3> HIDE DEF h
      <3>5. next(k, r[k - 1]) = (h[i + 1] + (moduli[i + 1] - 1) \div 2) \div moduli[i + 1]
        <4> HIDE DEF k, at
        <4>1. next(k, r[k - 1]) = (r[k - 1] + halved(Q[i + 1])) \div Q[i + 1]
          BY <3>1 DEF next
        <4>2. QED
          BY <3>2, <3>4, <4>1, Zenon DEF halved
      <3>6. QED
        BY <2>1, <2>3, <3>3, <3>5
    <2>4. QED
      BY <2>2, <2>3
  <1>8. h = [i \in (l - n)..Len(moduli) |->
                IF i = Len(moduli) THEN Value ELSE (h[i+1] + (moduli[i+1] - 1) \div 2) \div moduli[i+1]]
    <2>1. h = [i \in (l - n)..l |-> h[i]]
      OBVIOUS
    <2> HIDE DEF h
    <2>2. [i \in (l - n)..l |-> h[i]] = [i \in (l - n)..l |->
                IF i = l THEN Value ELSE (h[i+1] + (moduli[i+1] - 1) \div 2) \div moduli[i+1]]
      BY <1>7, Zenon
    <2>3. QED
      BY <2>1, <2>2
  <1>9. f = [i \in (l - n)..Len(moduli) |->
                IF i = Len(moduli) THEN Value ELSE (f[i+1] + (moduli[i+1] - 1) \div 2) \div moduli[i+1]]
    <2> HIDE DEF h
    <2>1. QED
      BY <1>8 DEF f
  <1>10. Rounded(l - n) = f
    BY DEF Rounded
  <1> HIDE DEF f, h
  <1>11. f[l] = Value
    <2>1. l \in (l - n)..l
      BY <1>1
    <2>2. QED
      BY <1>9, <2>1
  <1>12. ASSUME NEW j \in (l - n)..(l - 1) PROVE f[j] = (f[j + 1] + halved(Q[j + 1])) \div Q[j + 1]
    <2>1. j \in (l - n)..l /\ j # l /\ j + 1 \in 1..l
      BY <1>1
    <2>2. f[j] = (f[j + 1] + (moduli[j + 1] - 1) \div 2) \div moduli[j + 1]
      BY <1>9, <2>1
    <2>3. moduli[j + 1] = Q[j + 1]
      BY <2>1
    <2>4. QED
      BY <2>2, <2>3, Zenon DEF halved
  <1>13. QED
    BY <1>10, <1>11, <1>12

\* A division rounded modulus by modulus.
LEMMA DivRoundMoves ==
    ASSUME NEW to \in Bases, NEW x, NEW d, Leaves(d, to), NEW e, e = Rounded(Len(to))[Len(to)],
           StandsFor(x, to, e), Become(<< "DivRound" >>, to, x)
    PROVE  Integers!Next
  <1>1. Value' = e % Product(to) /\ moduli' = to /\ op' = << "DivRound" >>
    BY MovesTo, Zenon
  <1>2. Integers!M % Integers!Product(to) = 0 /\ Integers!Product(to) = Product(to)
    BY LeavesIs
  <1>3. Integers!DivRound(to)
    BY <1>1, <1>2 DEF Integers!DivRound, Rounded, Value
  <1>4. QED
    BY <1>1, <1>3, ValueMoves, Zenon

\* Dividing by several moduli, rounded each time.
LEMMA DivRoundManyMoves == FullyExtended /\ IInv /\ DivRoundByLastModulusMany => Integers!Next
  <1>1. SUFFICES ASSUME FullyExtended, IInv, DivRoundByLastModulusMany PROVE Integers!Next
    OBVIOUS
  <1>2. PICK n \in 1..(Len(rows) - 1) :
            /\ Leveled /\ Canonical(Len(rows))
            /\ Become(<< "DivRound" >>, Level(Len(rows) - n), Many(divRound, rows, n))
    BY <1>1 DEF DivRoundByLastModulusMany
  <1>3. PICK l \in 2..Len(Q) : moduli = Level(l)
    BY <1>2 DEF Leveled
  <1>4. l \in 1..Len(Q) /\ l \in Nat /\ ModuliFit
    BY <1>1, Rings DEF Basis, FullyExtended
  <1>5. rows \in [1..l -> 0..(R - 1)] /\ Len(rows) = l /\ Len(moduli) = l /\ \A i \in 1..l : moduli[i] = Q[i]
    BY <1>1, <1>3, <1>4, Levels, RowsAre
  <1>6. n \in 1..(l - 1) /\ n \in Nat /\ l - n \in 1..Len(Q)
    BY <1>4, <1>5, Rings DEF Basis
  <1>7. PICK after : /\ Many(divRound, rows, n) = after[n] /\ after[0] = rows
                     /\ \A k \in 1..n : after[k] = divRound(after[k - 1])
    BY <1>4, <1>5, <1>6, ManyRoundRuns, Zenon
  <1>8. Residues(rows, l, Value) /\ Leaves(1, Level(l)) /\ Value \in Int
    BY <1>1, <1>2, <1>3, <1>4, <1>5, LeveledRows DEF Residues
  <1> DEFINE f == Rounded(l - n)
  <1>9. /\ f[l] = Value
        /\ \A j \in (l - n)..(l - 1) : f[j] = (f[j + 1] + halved(Q[j + 1])) \div Q[j + 1]
    <2>1. n \in 0..(l - 1)
      BY <1>6
    <2>2. QED
      BY <1>4, <1>5, <1>8, <2>1, RoundedRuns
  <1> DEFINE H == {k \in 0..n : (\E d : Leaves(d, Level(l - k))) /\ Residues(after[k], l - k, f[l - k])}
  <1> HIDE DEF f
  <1>10. 0 \in H
    <2>1. l - 0 = l /\ 0 \in 0..n
      BY <1>4, <1>6
    <2>2. QED
      BY <1>7, <1>8, <1>9, <2>1
  <1>11. ASSUME NEW k \in 1..n, k - 1 \in H PROVE k \in H
    <2> DEFINE m == l - (k - 1)
               y == after[k - 1]
    <2>1. PICK d : Leaves(d, Level(m))
      BY <1>11
    <2>2. m \in 2..Len(Q) /\ k \in 0..n /\ m - 1 = l - k /\ (l - k) + 1 = m /\ l - k \in (l - n)..(l - 1)
      BY <1>4, <1>6
    <2>3. after[k] = divRound(y) /\ Residues(y, m, f[m])
      BY <1>7, <1>11
    <2>4. f[l - k] = (f[m] + halved(Q[m])) \div Q[m]
      <3>1. f[l - k] = (f[(l - k) + 1] + halved(Q[(l - k) + 1])) \div Q[(l - k) + 1]
        BY <1>9, <2>2
      <3> HIDE DEF m
      <3>2. QED
        BY <2>2, <3>1
    <2> HIDE DEF m, y, H
    <2>5. Residues(divRound(y), m - 1, (f[m] + halved(Q[m])) \div Q[m])
      BY <1>4, <2>2, <2>3, RoundRow, Zenon
    <2>6. Leaves(d * Q[m], Level(m - 1))
      BY <1>8, <2>1, <2>2, LeavesMore, Zenon
    <2>7. QED
      BY <2>2, <2>3, <2>4, <2>5, <2>6 DEF H
  <1> HIDE DEF H
  <1>12. n \in H
    <2>1. \A k \in 1..n : k - 1 \in H => k \in H
      BY <1>11
    <2>2. \A k \in 0..n : k \in H
      BY <1>6, <1>10, <2>1, Induction
    <2>3. QED
      BY <1>6, <2>2
  <1> DEFINE to == Level(l - n)
             e == f[l - n]
  <1>13. PICK d : Leaves(d, to) /\ Residues(after[n], l - n, e)
    BY <1>12 DEF H
  <1>14. StandsFor(after[n], to, e) /\ to \in Bases /\ Len(to) = l - n
    BY <1>6, <1>13, ResiduesStand, Levels
  <1>15. Become(<< "DivRound" >>, to, after[n]) /\ e = Rounded(Len(to))[Len(to)]
    BY <1>2, <1>5, <1>7, <1>14 DEF f
  <1> HIDE DEF to, e
  <1>16. QED
    BY <1>13, <1>14, <1>15, DivRoundMoves

\* A word below twice the modulus is the residue or the residue plus the modulus.
LEMMA LazyResidue ==
    ASSUME NEW q \in Nat \ {0}, NEW x, NEW v \in Int, Congruent(x, v, q), NEW r \in InvNTTLazy(x, q)
    PROVE  r \in Nat /\ r < 2 * q /\ \E c \in {0, 1} : r = (v % q) + (c * q)
  <1> DEFINE s == v % q
  <1>1. s \in 0..(q - 1) /\ r \in 1..((2 * q) - 1) /\ r % q = s
    BY DEF InvNTTLazy, Congruent
  <1> HIDE DEF s
  <1>2. CASE r < q
    <2>1. r % q = r
      BY <1>1, <1>2
    <2>2. r = s + (0 * q)
      BY <1>1, <2>1
    <2>3. QED
      BY <1>1, <2>2 DEF s
  <1>3. CASE ~(r < q)
    <2>1. r - q \in 0..(q - 1) /\ r - q \in Int /\ r \in Int /\ 1 \in Int
      BY <1>1, <1>3
    <2>2. (r - q) % q = r - q
      BY <2>1, ModSmall, Zenon
    <2>3. (r - (1 * q)) % q = r % q
      BY <2>1, ModMinus, Zenon
    <2>4. r = s + (1 * q)
      BY <1>1, <2>1, <2>2, <2>3
    <2>5. QED
      BY <1>1, <2>4 DEF s
  <1>4. QED
    BY <1>2, <1>3
\* A transform of a word below four times the modulus.
LEMMA LazyTransform ==
    ASSUME NEW q \in Nat \ {0}, NEW y \in Nat, y < 4 * q, NEW z \in NTTLazy(y, q)
    PROVE  z \in 0..(6 * q) /\ Congruent(z, y, q)
  BY DEF NTTLazy, Congruent
\* A level of Q and the level below it.
LEMMA TwoLevels ==
    ASSUME NEW l \in 2..Len(Q), moduli = Level(l)
    PROVE  /\ Shorter(moduli) = Level(l - 1) /\ Last = Q[l] /\ l \in 1..Len(Q) /\ l - 1 \in 1..Len(Q) /\ l \in Nat
           /\ Level(l - 1) \in Bases /\ Basis(Level(l - 1)) /\ Len(Level(l - 1)) = l - 1
           /\ DOMAIN Level(l - 1) = 1..(l - 1) /\ Len(moduli) = l /\ Sound(Q[l]) /\ Q[l] \in Nat \ {0}
           /\ \A i \in 1..l : moduli[i] = Q[i]
           /\ \A i \in 1..(l - 1) : Level(l - 1)[i] = Q[i] /\ Sound(Q[i]) /\ Q[i] \in Nat \ {0}
                                    /\ i \in 1..Len(Q) /\ i \in 1..l /\ i # l
           /\ Leaves(Q[l], Level(l - 1))
  <1>1. Shorter(moduli) = Level(l - 1) /\ Last = Q[l] /\ l \in 1..Len(Q) /\ l - 1 \in 1..Len(Q) /\ l \in Nat
    BY OneShorter, Rings DEF Last, Basis
  <1>2. \A i \in 1..(l - 1) : i \in 1..Len(Q) /\ i \in 1..l /\ i # l
    BY <1>1, Rings DEF Basis
  <1>3. \A i \in 1..Len(Q) : Sound(Q[i]) /\ Q[i] \in Nat \ {0}
    BY Rings DEF Basis, Sound
  <1>4. Leaves(Q[l], Level(l - 1))
    BY LevelProduct DEF Leaves
  <1>5. /\ Level(l - 1) \in Bases /\ Basis(Level(l - 1)) /\ Len(Level(l - 1)) = l - 1
        /\ DOMAIN Level(l - 1) = 1..(l - 1) /\ Len(moduli) = l
        /\ (\A i \in 1..l : moduli[i] = Q[i]) /\ \A i \in 1..(l - 1) : Level(l - 1)[i] = Q[i]
    BY <1>1, Levels
  <1>6. QED
    BY <1>1, <1>2, <1>3, <1>4, <1>5

\* Dividing by the last modulus in the transform domain.
LEMMA DivFloorNTTStepMoves == FullyExtended /\ IInv /\ DivFloorByLastModulusNTT => Integers!Next
  <1>1. SUFFICES ASSUME FullyExtended, IInv, DivFloorByLastModulusNTT PROVE Integers!Next
    OBVIOUS
  <1>2. PICK l \in 2..Len(Q) : moduli = Level(l)
    BY <1>1 DEF DivFloorByLastModulusNTT, Leveled
  <1> DEFINE m == Level(l - 1)
             d == Q[l]
             inv == [i \in DOMAIN m |-> rescaleParams(d, m[i])]
  <1>3. /\ Shorter(moduli) = m /\ Last = d /\ l \in 1..Len(Q) /\ l \in Nat
        /\ m \in Bases /\ Basis(m) /\ Len(m) = l - 1 /\ DOMAIN m = 1..(l - 1) /\ Len(moduli) = l
        /\ d \in Nat \ {0} /\ d \in Nat /\ Leaves(d, m) /\ moduli[l] = d
        /\ \A i \in 1..(l - 1) : m[i] = Q[i] /\ moduli[i] = Q[i] /\ Q[i] \in Nat \ {0}
                                 /\ i \in 1..Len(Q) /\ i \in 1..l /\ i # l
    <2>1. l \in 1..l
      BY <1>2, TwoLevels
    <2>2. QED
      BY <1>2, <2>1, TwoLevels
  <1>4. ModuliFit /\ \A i \in 1..(l - 1) : d < 2 * Q[i]
    <2>1. \A i \in 1..(l - 1) : i \in DOMAIN Q /\ l \in DOMAIN Q /\ i < l
      BY <1>3, Rings
    <2>2. \A i, j \in DOMAIN Q : i < j => Q[j] < 2 * Q[i]
      BY <1>1 DEF FullyExtended, ModuliFit
    <2>3. QED
      BY <1>1, <2>1, <2>2 DEF FullyExtended
  <1>5. /\ Value \in Int /\ Len(rows) = l
        /\ \A i \in 1..l : rows[i] \in 0..(R - 1) /\ rows[i] \in Int /\ Congruent(rows[i], Value, moduli[i])
    BY <1>1, <1>3, ValueHere DEF StandsFor
  <1>6. PICK r \in InvNTTLazy(rows[l], d) :
            Quotients(<< "DivFloorNTT" >>, [i \in DOMAIN m |-> NTTLazy(r, m[i])],
                      [i \in DOMAIN m |-> rescaleParams(Last, m[i])], m)
    BY <1>1, <1>3, <1>5 DEF DivFloorByLastModulusNTT
  <1> HIDE DEF m, d
  <1>7. r \in Nat /\ r < 2 * d /\ \E c \in {0, 1} : r = (Value % d) + (c * d)
    <2>1. Congruent(rows[l], Value, d)
      <3>1. l \in 1..l
        BY <1>3
      <3>2. QED
        BY <1>3, <1>5, <3>1
    <2>2. d \in Nat \ {0} /\ Value \in Int
      BY <1>3, <1>5
    <2>3. QED
      BY <1>6, <2>1, <2>2, LazyResidue
  <1>8. PICK c \in {0, 1} : r = (Value % d) + (c * d)
    BY <1>7
  <1> DEFINE e == (Value \div d) - c
             ys == [i \in DOMAIN m |-> NTTLazy(r, m[i])]
  <1>9. Splits(Value, r, d, e) /\ e \in Int /\ r \in Int
    <2>1. c \in Int
      BY <1>8
    <2>2. Splits(Value, (Value % d) + (c * d), d, e) /\ e \in Int /\ (Value % d) + (c * d) \in Int
      BY <1>3, <1>5, <2>1, SplitsMisread, Zenon
    <2>3. QED
      BY <1>8, <2>2
  <1> HIDE DEF e
  <1>10. ASSUME NEW i \in 1..(l - 1)
         PROVE  /\ rows[i] \in Nat /\ moduli[i] = m[i] /\ Divisor(inv[i], d, m[i])
                /\ \A y \in ys[i] : Remainder(y, rows[i], d, e, m[i])
    <2>1. m[i] = Q[i] /\ moduli[i] = m[i] /\ m[i] \in Nat \ {0} /\ i \in DOMAIN m /\ i \in 1..l
      BY <1>3
    <2>2. inv[i] = rescaleParams(d, m[i]) /\ ys[i] = NTTLazy(r, m[i])
      BY <2>1
    <2>3. Divisor(rescaleParams(d, Q[i]), d, Q[i])
      BY <1>3, LastDivides DEF d
    <2>4. rows[i] \in Nat /\ rows[i] \in Int /\ Congruent(rows[i], Value, m[i])
      BY <1>5, <2>1, RAssumption
    <2>5. ASSUME NEW y \in NTTLazy(r, m[i]) PROVE Remainder(y, rows[i], d, e, m[i])
      <3>1. r < 4 * m[i]
        BY <1>3, <1>4, <1>7, <2>1
      <3>2. y \in 0..(6 * m[i]) /\ Congruent(y, r, m[i])
        BY <1>7, <2>1, <3>1, LazyTransform
      <3>3. QED
        BY <1>3, <1>5, <1>9, <2>1, <2>4, <3>2, RemainderIs, Zenon
    <2>6. QED
      BY <2>1, <2>2, <2>3, <2>4, <2>5
  <1>11. Quotients(<< "DivFloorNTT" >>, ys, inv, m)
    BY <1>3, <1>6
  <1> HIDE DEF ys, inv
  <1>12. PICK x : StandsFor(x, m, e) /\ Become(<< "DivFloorNTT" >>, m, x)
    BY <1>3, <1>9, <1>10, <1>11, QuotientsStand
  <1>13. QED
    BY <1>3, <1>8, <1>12, DivFloorNTTMoves, Zenon DEF e

\* The same, rounded.
LEMMA DivRoundNTTStepMoves == FullyExtended /\ IInv /\ DivRoundByLastModulusNTT => Integers!Next
  <1>1. SUFFICES ASSUME FullyExtended, IInv, DivRoundByLastModulusNTT PROVE Integers!Next
    OBVIOUS
  <1>2. PICK l \in 2..Len(Q) : moduli = Level(l)
    BY <1>1 DEF DivRoundByLastModulusNTT, Leveled
  <1> DEFINE m == Level(l - 1)
             d == Q[l]
             h == halved(d)
             e == (Value + h) \div d
             r == ((Value + h) % d) - h
             y(i) == centred(rows) + uncentre(d, m[i])
             inv == [i \in DOMAIN m |-> rescaleParams(d, m[i])]
  <1>3. /\ Shorter(moduli) = m /\ Last = d /\ l \in 1..Len(Q) /\ l \in Nat
        /\ m \in Bases /\ Basis(m) /\ Len(m) = l - 1 /\ DOMAIN m = 1..(l - 1) /\ Len(moduli) = l
        /\ d \in Nat \ {0} /\ d \in Nat /\ Leaves(d, m)
        /\ \A i \in 1..(l - 1) : m[i] = Q[i] /\ moduli[i] = Q[i] /\ Q[i] \in Nat \ {0}
                                 /\ i \in 1..Len(Q) /\ i \in 1..l /\ i # l
    BY <1>2, TwoLevels
  <1>4. ModuliFit
    BY <1>1 DEF FullyExtended
  <1>5. /\ Value \in Int /\ Len(rows) = l
        /\ \A i \in 1..l : rows[i] \in 0..(R - 1) /\ rows[i] \in Int /\ Congruent(rows[i], Value, moduli[i])
    BY <1>1, <1>3, ValueHere DEF StandsFor
  <1>6. Residues(rows, l, Value)
    <2>1. Canonical(l)
      BY <1>1, <1>5 DEF DivRoundByLastModulusNTT
    <2>2. QED
      BY <1>1, <1>2, <1>3, <2>1, LeveledRows
  <1>7. Quotients(<< "DivRound" >>, [i \in DOMAIN m |-> NTTLazy(y(i), m[i])],
                  [i \in DOMAIN m |-> rescaleParams(Last, m[i])], m)
    BY <1>1, <1>3 DEF DivRoundByLastModulusNTT
  <1>8. /\ Splits(Value, r, d, e) /\ e \in Int /\ r \in Int
        /\ \A i \in 1..(l - 1) : /\ centred(rows) + uncentre(d, Q[i]) \in 0..(3 * Q[i])
                                 /\ Congruent(centred(rows) + uncentre(d, Q[i]), r, Q[i])
    BY <1>4, <1>6, CentredIs
  <1> DEFINE ys == [i \in DOMAIN m |-> NTTLazy(y(i), m[i])]
  <1> HIDE DEF m, d, e, r, h
  <1>9. ASSUME NEW i \in 1..(l - 1)
        PROVE  /\ rows[i] \in Nat /\ moduli[i] = m[i] /\ Divisor(inv[i], d, m[i])
               /\ \A z \in ys[i] : Remainder(z, rows[i], d, e, m[i])
    <2>1. m[i] = Q[i] /\ moduli[i] = m[i] /\ m[i] \in Nat \ {0} /\ i \in DOMAIN m /\ i \in 1..l
      BY <1>3
    <2>2. inv[i] = rescaleParams(d, m[i]) /\ ys[i] = NTTLazy(y(i), m[i])
      BY <2>1
    <2>3. Divisor(rescaleParams(d, Q[i]), d, Q[i])
      BY <1>3, LastDivides DEF d
    <2>4. rows[i] \in Nat /\ rows[i] \in Int /\ Congruent(rows[i], Value, m[i])
      BY <1>5, <2>1, RAssumption
    <2>5. y(i) \in 0..(3 * m[i]) /\ Congruent(y(i), r, m[i])
      BY <1>8, <2>1
    <2> HIDE DEF y
    <2>6. ASSUME NEW z \in NTTLazy(y(i), m[i]) PROVE Remainder(z, rows[i], d, e, m[i])
      <3>1. y(i) \in Nat /\ y(i) < 4 * m[i]
        BY <2>1, <2>5
      <3>2. z \in 0..(6 * m[i]) /\ Congruent(z, y(i), m[i])
        BY <2>1, <3>1, LazyTransform
      <3>3. Congruent(z, r, m[i])
        BY <2>5, <3>2, CongruentVia, Zenon
      <3>4. QED
        BY <1>3, <1>5, <1>8, <2>1, <2>4, <3>2, <3>3, RemainderIs, Zenon
    <2>7. QED
      BY <2>1, <2>2, <2>3, <2>4, <2>6
  <1>10. Quotients(<< "DivRound" >>, ys, inv, m)
    BY <1>3, <1>7
  <1> HIDE DEF ys, inv
  <1>11. PICK x : StandsFor(x, m, e) /\ Become(<< "DivRound" >>, m, x)
    BY <1>3, <1>8, <1>9, <1>10, QuotientsStand
  <1>12. e = Rounded(Len(m))[Len(m)]
    <2> DEFINE f == Rounded(l - 1)
    <2>1. 1 \in 0..(l - 1) /\ l - 1 \in (l - 1)..(l - 1) /\ (l - 1) + 1 = l
      BY <1>3
    <2>2. /\ f[l] = Value
          /\ \A j \in (l - 1)..(l - 1) : f[j] = (f[j + 1] + halved(Q[j + 1])) \div Q[j + 1]
      <3>1. Len(moduli) = l /\ \A i \in 1..l : moduli[i] = Q[i]
        BY <1>2, <1>3, Levels
      <3>2. QED
        BY <1>3, <1>5, <2>1, <3>1, RoundedRuns
    <2> HIDE DEF f
    <2>3. f[l - 1] = (f[l] + halved(Q[l])) \div Q[l]
      BY <2>1, <2>2
    <2>4. QED
      BY <1>3, <2>2, <2>3 DEF e, d, h, f
  <1>13. QED
    BY <1>3, <1>11, <1>12, DivRoundMoves

-----------------------------------------------------------------------------
(* Digits *)

\* A digit of the integer: d is the product of the moduli from the i-th to the k-th.
LEMMA DigitMoves ==
    ASSUME NEW to \in Bases, NEW i \in DOMAIN moduli, NEW k \in DOMAIN moduli, i <= k,
           NEW d, d = Product(SubSeq(moduli, i, k)), NEW c \in Integers!Misread(Value % d, d),
           NEW x, StandsFor(x, to, (Value % d) + (c * d)), Become(<< "Digit", i, k >>, to, x)
    PROVE  Integers!Next
  <1>1. Value' = ((Value % d) + (c * d)) % Product(to) /\ moduli' = to /\ op' = << "Digit", i, k >>
    BY MovesTo, Zenon
  <1>2. Integers!Product(to) = Product(to) /\ Integers!Product(SubSeq(moduli, i, k)) = d
    BY ProductsAgree
  <1>3. Integers!Digit(i, k, to)
    BY <1>1, <1>2, Zenon DEF Integers!Digit, Value
  <1>4. QED
    BY <1>1, <1>3, ValueMoves, Zenon
\* The moduli of a digit.
LEMMA DigitModuli ==
    ASSUME NEW l \in 1..Len(Q), moduli = Level(l), NEW i \in 1..l, NEW k \in i..l
    PROVE  SubSeq(moduli, i, k) = SubSeq(Q, i, k)
  <1> DEFINE m == (k - i) + 1
             n == Len(Q)
             A == SubSeq(moduli, i, k)
             B == SubSeq(Q, i, k)
  <1>1. /\ n \in Nat /\ l \in Nat /\ i \in 1..n /\ k \in i..n /\ m \in Nat /\ m = (k - i) + 1
        /\ \A j \in 1..m : (i + j) - 1 \in 1..l
    BY Rings DEF Basis
  <1>2. Q \in [1..n -> Nat] /\ moduli \in [1..l -> Nat] /\ \A j \in 1..l : moduli[j] = Q[j]
    <2>1. Q \in Seq(Nat) /\ Level(l) \in Seq(Nat) /\ Len(Level(l)) = l /\ \A j \in 1..l : Level(l)[j] = Q[j]
      BY Rings, Levels DEF Basis
    <2> DEFINE C == Level(l)
    <2>2. C \in Seq(Nat) /\ Len(C) = l
      BY <2>1
    <2> HIDE DEF C
    <2>3. C \in [1..l -> Nat]
      BY <2>2
    <2>4. Q \in [1..n -> Nat]
      BY <2>1
    <2>5. QED
      BY <2>1, <2>3, <2>4 DEF C
  <1> HIDE DEF m, n
  <1>3. Part(Q, i, k, m, Nat) /\ Part(moduli, i, k, m, Nat)
    BY <1>1, <1>2, Parts
  <1>4. A \in [1..m -> Nat] /\ B \in [1..m -> Nat] /\ \A j \in 1..m : A[j] = B[j]
    BY <1>1, <1>2, <1>3 DEF Part
  <1> HIDE DEF A, B
  <1>5. A = B
    <2>1. A = [j \in 1..m |-> A[j]] /\ B = [j \in 1..m |-> B[j]]
      BY <1>4
    <2>2. QED
      BY <1>4, <2>1, Zenon
  <1>6. QED
    BY <1>5 DEF A, B

\* A digit of one modulus is copied.
LEMMA CopiedMoves ==
    ASSUME IInv, NEW l \in 1..Len(Q), moduli = Level(l), Canonical(l), NEW s \in 1..l, Copied(l, s)
    PROVE  Integers!Next
  <1> DEFINE x == [j \in 1..(l + Len(P)) |-> rows[s]]
             to == Level(l) \o P
             e == rows[s]
             q == Q[s]
  <1>1. /\ to \in Bases /\ Len(to) = l + Len(P) /\ Len(moduli) = l /\ moduli[s] = Q[s]
        /\ DOMAIN moduli = 1..l /\ s \in s..l /\ (s - s) + 1 = 1
    <2>1. s \in s..l /\ (s - s) + 1 = 1 /\ l \in Nat
      BY Rings DEF Basis
    <2>2. QED
      BY <2>1, Levels, ExtendedLevel
  <1>2. e \in Int /\ Congruent(e, Value, q) /\ q \in Nat \ {0} /\ e \in 0..(q - 1) /\ Value \in Int
    <2>1. e \in 0..(R - 1) /\ e \in Int /\ Congruent(e, Value, q) /\ Value \in Int
      BY <1>1, ValueHere DEF StandsFor
    <2>2. Sound(q)
      BY Rings DEF Basis
    <2>3. e < q
      BY <1>1 DEF Canonical
    <2> HIDE DEF e, q
    <2>4. QED
      BY <2>1, <2>2, <2>3, RAssumption DEF Sound
  <1>3. SubSeq(moduli, s, s) = SubSeq(Q, s, s)
    BY <1>1, DigitModuli
  <1>4. Product(SubSeq(Q, s, s)) = q
    <2> DEFINE A == SubSeq(Q, s, s)
    <2>1. Len(A) = 1 /\ A[1] = q
      <3>1. s \in 1..Len(Q) /\ s \in s..Len(Q) /\ (s + 1) - 1 = s /\ 1 \in 1..1
        BY Rings DEF Basis
      <3>2. QED
        BY <1>1, <3>1, Pieces
    <2> HIDE DEF A, q
    <2>2. Positive(A)
      BY <1>2, <2>1 DEF Positive
    <2>3. PICK f : Product(A) = f[1] /\ f[0] = 1 /\ \A k \in 1..1 : f[k] = A[k] * f[k - 1]
      BY <2>1, <2>2, ProductRuns DEF PartialProducts
    <2>4. 1 \in 1..1 /\ 1 - 1 = 0
      OBVIOUS
    <2>5. f[1] = A[1] * f[0]
      BY <2>3, <2>4
    <2>6. QED
      BY <1>2, <2>1, <2>3, <2>5 DEF A
  <1>5. Value % q = e
    <2> HIDE DEF e, q
    <2>1. e % q = e
      BY <1>2, ModSmall, Zenon
    <2>2. QED
      BY <1>2, <2>1 DEF Congruent
  <1> DEFINE c == 0
  <1>6. (Value % q) + (c * q) = e /\ c \in Integers!Misread(Value % q, q)
    BY <1>2, <1>5 DEF Integers!Misread
  <1>7. StandsFor(x, to, e)
    <2>1. DOMAIN x = 1..Len(to) /\ \A j \in 1..Len(to) : x[j] = e
      BY <1>1
    <2> HIDE DEF x, to, e
    <2>2. QED
      BY <1>2, <2>1 DEF StandsFor, Congruent
  <1>8. Become(<< "Digit", s, s >>, to, x)
    BY DEF Copied
  <1> DEFINE d == Product(SubSeq(moduli, s, s))
  <1>9. d = q
    BY <1>3, <1>4
  <1>10. s \in DOMAIN moduli /\ s <= s /\ d = Product(SubSeq(moduli, s, s))
    BY <1>1
  <1> HIDE DEF x, to, e, q, d, c
  <1>11. c \in Integers!Misread(Value % d, d) /\ StandsFor(x, to, (Value % d) + (c * d))
    BY <1>6, <1>7, <1>9
  <1>12. QED
    BY <1>1, <1>8, <1>10, <1>11, DigitMoves

\* A digit of several moduli is extended.
LEMMA ExtendedMoves ==
    ASSUME ModuliFit, IInv, NEW l \in 1..Len(Q), moduli = Level(l), rows \in [1..l -> 0..(R - 1)],
           NEW i \in 1..l, NEW k \in (i + 1)..l, Extended(l, i, k)
    PROVE  Integers!Next
  <1> DEFINE to == Level(l) \o P
             A == SubSeq(Q, i, k)
             B == Q \o P
             p == DigitTables(i, k)
             y == SubSeq(rows, i, k)
             m == (k - i) + 1
             d == Product(A)
  <1>1. PICK v \in reconstructRNS(digits(y, p), p) :
            Become(<< "Digit", i, k >>, to, [j \in 1..(l + Len(P)) |-> multSum(digits(y, p), v, Target(j, l), p)])
    BY Zenon DEF Extended
  <1>2. /\ to \in Bases /\ Len(to) = l + Len(P) /\ Len(moduli) = l /\ DOMAIN moduli = 1..l
        /\ \A n \in 1..l : moduli[n] = Q[n]
    BY Levels, ExtendedLevel
  <1>3. /\ A \in Sources /\ Source(A) /\ Len(A) = m /\ y \in [1..Len(A) -> 0..(R - 1)]
        /\ \A n \in 1..m : y[n] = rows[(i + n) - 1]
    BY DigitRows
  <1>4. /\ i \in 1..Len(Q) /\ k \in i..Len(Q) /\ k \in i..l /\ i \in DOMAIN moduli /\ k \in DOMAIN moduli
        /\ i <= k /\ m > 0 /\ m \in Nat
        /\ \A n \in 1..m : (i + n) - 1 \in 1..l
    BY <1>2, Rings DEF Basis
  <1>5. Coprime(A) /\ Basis(B) /\ p = basisextenderparameters(A, B) /\ Len(A) > 0
    BY <1>3, <1>4, SourcesAreCoprime, RingBases, ExtendedLevel DEF DigitTables
  <1>6. StandsFor(y, A, Value)
    <2>1. \A n \in 1..m : A[n] = Q[(i + n) - 1]
      BY <1>4, Pieces
    <2>2. Value \in Int /\ \A n \in 1..l : rows[n] \in Int /\ Congruent(rows[n], Value, Q[n])
      BY <1>2, ValueHere DEF StandsFor
    <2>3. \A n \in 1..m : y[n] \in Int /\ Congruent(y[n], Value, A[n])
      <3> HIDE DEF A, y, m
      <3>1. QED
        BY <1>3, <1>4, <2>1, <2>2
    <2>4. DOMAIN y = 1..m
      BY <1>3
    <2> HIDE DEF A, y, m
    <2>5. QED
      BY <1>3, <2>2, <2>3, <2>4 DEF StandsFor
  <1> HIDE DEF A, p, y, B
  <1>7. PICK c \in Integers!Misread(Value % d, d) : \A j \in 1..Len(B) :
               LET r == multSum(digits(y, p), v, j, p)
               IN  r \in 0..((4 * B[j]) - 1) /\ Congruent(r, (Value % d) + (c * d), B[j])
    <2>1. v \in reconstructRNS(digits(y, basisextenderparameters(A, B)), basisextenderparameters(A, B))
      BY <1>1, <1>5
    <2>2. \E c \in Integers!Misread(Value % Product(A), Product(A)) : \A j \in 1..Len(B) :
               LET r == multSum(digits(y, basisextenderparameters(A, B)), v, j, basisextenderparameters(A, B))
               IN  r \in 0..((4 * B[j]) - 1) /\ Congruent(r, (Value % Product(A)) + (c * Product(A)), B[j])
      BY <1>3, <1>5, <1>6, <2>1, ExtensionIs, Zenon
    <2>3. QED
      BY <1>5, <2>2
  <1> DEFINE e == (Value % d) + (c * d)
             x == [j \in 1..(l + Len(P)) |-> multSum(digits(y, p), v, Target(j, l), p)]
  <1>8. e \in Int
    <2>1. d \in Nat \ {0} /\ Value \in Int
      BY <1>3, ValueHere DEF Source
    <2>2. c \in Int
      BY DEF Integers!Misread
    <2> HIDE DEF d
    <2>3. QED
      BY <2>1, <2>2
  <1> HIDE DEF e
  <1>9. ASSUME NEW j \in 1..(l + Len(P)) PROVE x[j] \in Int /\ Congruent(x[j], e, to[j])
    <2>1. Target(j, l) \in 1..Len(B) /\ B[Target(j, l)] = to[j]
      BY Targets DEF Target, B
    <2>2. x[j] = multSum(digits(y, p), v, Target(j, l), p)
      OBVIOUS
    <2> HIDE DEF x, to
    <2>3. x[j] \in 0..((4 * to[j]) - 1) /\ Congruent(x[j], e, to[j])
      BY <1>7, <2>1, <2>2, Zenon DEF e
    <2>4. QED
      BY <2>3
  <1>10. StandsFor(x, to, e)
    <2>1. DOMAIN x = 1..Len(to)
      BY <1>2
    <2> HIDE DEF x, to
    <2>2. QED
      BY <1>2, <1>8, <1>9, <2>1 DEF StandsFor
  <1>11. d = Product(SubSeq(moduli, i, k))
    BY <1>4, DigitModuli DEF A
  <1>12. Become(<< "Digit", i, k >>, to, x)
    BY <1>1
  <1>13. StandsFor(x, to, (Value % d) + (c * d))
    BY <1>10, Zenon DEF e
  <1> HIDE DEF x, to, d
  <1>14. c \in Integers!Misread(Value % d, d)
    OBVIOUS
  <1>15. QED
    BY <1>2, <1>4, <1>11, <1>12, <1>13, <1>14, DigitMoves

\* A digit is one or the other.
LEMMA DecomposeAndSplitMoves == FullyExtended /\ IInv /\ DecomposeAndSplit => Integers!Next
  <1>1. SUFFICES ASSUME FullyExtended, IInv, DecomposeAndSplit PROVE Integers!Next
    OBVIOUS
  <1>2. PICK l \in 1..Len(Q) :
              /\ moduli = Level(l) /\ Canonical(l) /\ rows \in [1..l -> 0..(R - 1)]
              /\ \/ \E s \in 1..l : Copied(l, s)
                 \/ \E i \in 1..l : \E k \in (i + 1)..l : Extended(l, i, k)
    BY <1>1, DigitSteps
  <1>3. CASE \E s \in 1..l : Copied(l, s)
    BY <1>1, <1>2, <1>3, CopiedMoves
  <1>4. CASE \E i \in 1..l : \E k \in (i + 1)..l : Extended(l, i, k)
    BY <1>1, <1>2, <1>4, ExtendedMoves DEF FullyExtended
  <1>5. QED
    BY <1>2, <1>3, <1>4

-----------------------------------------------------------------------------
(* Scalings *)

\* The number whose quotient by the product of the moduli is the rounded scaling.
Scaled(t) == (t * Value) + (Product(moduli) \div 2)
LEMMA ScaledIs ==
    ASSUME IInv, NEW t \in T
    PROVE  Scaled(t) \in Int /\ Scaled(t) \div Product(moduli) \in Int
  <1> DEFINE p == Product(moduli)
             v == Value
  <1>1. p \in Nat \ {0} /\ v \in Int /\ t \in Int
    BY ValueHere, PlainModulus
  <1> HIDE DEF p, v
  <1>2. t * v \in Int /\ p \div 2 \in Int
    BY <1>1
  <1> DEFINE x == Scaled(t)
  <1>3. x \in Int
    BY <1>2 DEF Scaled, p, v
  <1> HIDE DEF x
  <1>4. x \div p \in Int
    BY <1>1, <1>3
  <1>5. QED
    BY <1>3, <1>4 DEF x, p

\* A row that stands for that quotient, or for its neighbour where the number is misread.
LEMMA ScaleMoves ==
    ASSUME NEW t \in T, NEW c \in Integers!Misread(Scaled(t) % Product(moduli), Product(moduli)), NEW r,
           StandsFor(<< r >>, << t >>, (Scaled(t) \div Product(moduli)) - c),
           Become(<< "Scale" >>, << t >>, << r >>)
    PROVE  Integers!Next
  <1> DEFINE to == << t >>
  <1>1. to \in Bases /\ to[1] = t /\ t \in Nat \ {0}
    BY PlainModulus DEF Bases
  <1>2. Product(to) = t
    BY <1>1, SingleModulus
  <1>3. Value' = ((Scaled(t) \div Product(moduli)) - c) % Product(to) /\ moduli' = to /\ op' = << "Scale" >>
    BY <1>1, MovesTo, Zenon
  <1>4. Integers!M = Product(moduli)
    BY ProductsAgree DEF Integers!M
  <1>5. Integers!Scale(t)
    BY <1>2, <1>3, <1>4 DEF Integers!Scale, Scaled, Value
  <1>6. \E u \in {to[1]} : to = << u >> /\ Integers!Scale(u)
    BY <1>1, <1>5
  <1> HIDE DEF to
  <1>7. QED
    BY <1>1, <1>3, <1>6, ValueMoves, Zenon

\* The row of a single modulus.
LEMMA OneStands ==
    ASSUME NEW t \in T, NEW r \in Int, NEW e \in Int, Congruent(r, e, t)
    PROVE  StandsFor(<< r >>, << t >>, e)
  BY SingleModulus DEF StandsFor

\* Rounding up where the remainder is at least half is dividing after adding half.
LEMMA NearestDivision ==
    ASSUME NEW p \in Nat \ {0}, NEW x \in Int
    PROVE  (x + (p \div 2)) \div p = (x \div p) + (IF 2 * (x % p) >= p THEN 1 ELSE 0)
  <1> DEFINE k == x \div p
             r == x % p
             h == p \div 2
  <1>1. k \in Int /\ r \in 0..(p - 1) /\ x = (p * k) + r
    BY DivMod, Zenon
  <1>2. h \in Nat /\ 2 * h <= p /\ p <= (2 * h) + 1
    OBVIOUS
  <1> HIDE DEF k, r, h
  <1>3. CASE 2 * r >= p
    <2>1. (r + h) - p \in 0..(p - 1)
      BY <1>1, <1>2, <1>3
    <2>2. p * (k + 1) = (p * k) + p /\ p * k \in Int /\ k + 1 \in Int
      BY <1>1
    <2>3. x + h = (p * (k + 1)) + ((r + h) - p)
      BY <1>1, <1>2, <2>2
    <2>4. ((p * (k + 1)) + ((r + h) - p)) \div p = k + 1
      BY <2>1, <2>2, DivModUnique, Zenon
    <2>5. QED
      BY <1>3, <2>3, <2>4 DEF h, k, r
  <1>4. CASE ~(2 * r >= p)
    <2>1. r + h \in 0..(p - 1)
      BY <1>1, <1>2, <1>4
    <2>2. x + h = (p * k) + (r + h)
      <3>1. p * k \in Int
        BY <1>1
      <3>2. QED
        BY <1>1, <1>2, <3>1
    <2>3. ((p * k) + (r + h)) \div p = k
      BY <1>1, <2>1, DivModUnique, Zenon
    <2>4. k + 0 = k
      BY <1>1
    <2>5. QED
      BY <1>4, <2>2, <2>3, <2>4 DEF h, k, r
  <1>5. QED
    BY <1>3, <1>4

\* Rounding is the same modulo t before and after the integer wraps at p.
LEMMA RoundedWraps ==
    ASSUME NEW p \in Nat \ {0}, NEW t \in Nat \ {0}, NEW u \in Int
    PROVE  LET h == p \div 2
           IN  /\ ((t * (u % p)) + h) \div p \in Int /\ ((t * u) + h) \div p \in Int
               /\ Congruent(((t * (u % p)) + h) \div p, ((t * u) + h) \div p, t)
  <1> DEFINE h == p \div 2
             g == u \div p
             y == u % p
             a == (t * y) + h
             k == a \div p
             r == a % p
  <1>1. h \in Int /\ g \in Int /\ y \in 0..(p - 1) /\ u = (p * g) + y
    <2>1. g \in Int /\ y \in 0..(p - 1) /\ u = (p * g) + y
      BY DivMod, Zenon
    <2>2. QED
      BY <2>1
  <1> HIDE DEF h, g, y
  <1>2. a \in Int /\ t * y \in Int /\ t * g \in Int
    BY <1>1
  <1>3. (t * u) + h = (p * (t * g)) + a
    <2>1. t * u = (t * (p * g)) + (t * y) /\ t * (p * g) = p * (t * g) /\ p * (t * g) \in Int
      BY <1>1
    <2>2. QED
      BY <1>1, <1>2, <2>1
  <1> HIDE DEF a
  <1>4. k \in Int /\ r \in 0..(p - 1) /\ a = (p * k) + r
    BY <1>2, DivMod, Zenon
  <1> HIDE DEF k, r
  <1>5. (t * u) + h = (p * ((t * g) + k)) + r /\ (t * g) + k \in Int
    <2> DEFINE f == t * g
    <2>1. f \in Int /\ (t * u) + h = (p * f) + a
      BY <1>2, <1>3
    <2> HIDE DEF f
    <2>2. p * (f + k) = (p * f) + (p * k) /\ p * f \in Int /\ p * k \in Int /\ f + k \in Int
      BY <1>4, <2>1
    <2>3. QED
      BY <1>4, <2>1, <2>2 DEF f
  <1>6. ((t * u) + h) \div p = (t * g) + k
    BY <1>4, <1>5, DivModUnique, Zenon
  <1>7. Congruent(k, (t * g) + k, t)
    <2>1. k - ((t * g) + k) = t * (-g) /\ -g \in Int
      BY <1>1, <1>2, <1>4
    <2>2. Multiple(k - ((t * g) + k), t)
      BY <2>1 DEF Multiple
    <2>3. QED
      BY <1>4, <1>5, <2>2, CongruentBy, Zenon
  <1>8. QED
    BY <1>4, <1>5, <1>6, <1>7 DEF k, a, y, h

\* Scaling over the integers is exact, but for what the scaler kept.
LEMMA reconstructThenScaleMoves == IInv /\ reconstructThenScale => Integers!Next
  <1>1. SUFFICES ASSUME IInv, reconstructThenScale PROVE Integers!Next
    OBVIOUS
  <1> DEFINE p == Product(Q)
             v == Reconstructed(rows, Q)
             y(k) == (k + v) % p
             z(t, k) == (t * y(k)) \div p + (IF 2 * ((t * y(k)) % p) >= p THEN 1 ELSE 0)
  <1>2. PICK t \in T : \E k \in p1BI(t) :
            moduli = Q /\ Become(<< "SimpleScale" >>, << t >>, << z(t, k) >>)
    BY <1>1, Zenon DEF reconstructThenScale
  <1>3. PICK k \in p1BI(t) : moduli = Q /\ Become(<< "SimpleScale" >>, << t >>, << z(t, k) >>)
    BY <1>2
  <1>4. v = Value /\ p = Product(moduli)
    BY <1>3 DEF Value
  <1>5. p \in Nat \ {0} /\ v \in Int /\ t \in Nat \ {0}
    BY <1>1, <1>4, ValueHere, PlainModulus
  <1> HIDE DEF v, p
  <1>6. PICK kept \in 0..t : y(k) = (v + kept) % p
    <2>1. CASE k \in 0..t
      <3>1. k + v = v + k
        BY <1>5, <2>1
      <3>2. QED
        BY <2>1, <3>1
    <2>2. CASE k = p * p
      <3>1. v + 0 = v /\ p \in Int /\ p * p \in Int /\ 0 \in 0..t
        BY <1>5
      <3>2. (p * p) + v = (p * p) + (v + 0)
        BY <3>1
      <3> DEFINE r == v % p
                 g == v \div p
      <3>3. g \in Int /\ r \in 0..(p - 1) /\ v = (p * g) + r
        BY <1>5, DivMod, Zenon
      <3> HIDE DEF r, g
      <3>4. (p * p) + v = (p * (p + g)) + r /\ p + g \in Int
        <4>1. p * (p + g) = (p * p) + (p * g) /\ p * g \in Int
          BY <3>1, <3>3
        <4>2. QED
          BY <3>1, <3>3, <4>1
      <3>5. ((p * p) + v) % p = r
        BY <1>5, <3>3, <3>4, DivModUnique, Zenon
      <3>6. y(k) = (v + 0) % p
        BY <2>2, <3>1, <3>5 DEF r
      <3>7. QED
        BY <3>1, <3>6
    <2>3. QED
      BY <2>1, <2>2 DEF p1BI, p
  <1> DEFINE h == p \div 2
             e == ((t * (v + kept)) + h) \div p
  <1>7. z(t, k) = ((t * y(k)) + h) \div p
    <2>1. y(k) \in Int
      BY <1>5, <1>6
    <2> DEFINE x == t * y(k)
    <2>2. x \in Int
      BY <1>5, <2>1
    <2>3. z(t, k) = (x \div p) + (IF 2 * (x % p) >= p THEN 1 ELSE 0)
      OBVIOUS
    <2> HIDE DEF x, z, y
    <2>4. QED
      BY <1>5, <2>2, <2>3, NearestDivision, Zenon DEF x
  <1>8. z(t, k) \in Int /\ e \in Int /\ Congruent(z(t, k), e, t)
    <2>1. v + kept \in Int
      BY <1>5
    <2> DEFINE u == v + kept
    <2> HIDE DEF u
    <2>2. /\ ((t * (u % p)) + (p \div 2)) \div p \in Int /\ ((t * u) + (p \div 2)) \div p \in Int
          /\ Congruent(((t * (u % p)) + (p \div 2)) \div p, ((t * u) + (p \div 2)) \div p, t)
      BY <1>5, <2>1, RoundedWraps DEF u
    <2>3. QED
      BY <1>6, <1>7, <2>2, Zenon DEF u
  <1> HIDE DEF z, e, y
  <1>9. StandsFor(<< z(t, k) >>, << t >>, e)
    BY <1>8, OneStands, Zenon
  <1>10. << t >> \in Bases /\ << t >>[1] = t /\ Product(<< t >>) = t
    BY PlainModulus, SingleModulus DEF Bases
  <1>11. Value' = e % t /\ moduli' = << t >> /\ op' = << "SimpleScale" >>
    BY <1>3, <1>8, <1>9, <1>10, MovesTo
  <1>12. Integers!M = p
    BY <1>4, ProductsAgree DEF Integers!M
  <1>13. Integers!SimpleScale(t)
    <2>1. e = (t * (Value + kept) + Integers!M \div 2) \div Integers!M
      BY <1>4, <1>12 DEF e
    <2>2. QED
      BY <1>11, <2>1 DEF Integers!SimpleScale, Value
  <1>14. QED
    <2> DEFINE to == << t >>
    <2>1. to \in Bases /\ moduli' = to /\ \E w \in {to[1]} : to = << w >> /\ Integers!SimpleScale(w)
      BY <1>10, <1>11, <1>13
    <2> HIDE DEF to
    <2>2. QED
      BY <2>1, ValueMoves

\* No plaintext modulus divides the product.
LEMMA ProductInverts ==
    ASSUME NEW t \in {u \in T : Odd(u)}
    PROVE  Product(Q) % t \in 1..(t - 1)
  <1> DEFINE y == << t >>
             z == Q \o y
  <1>1. t \in Nat \ {0} /\ 2 <= t
    BY PlainModulus
  <1>2. Q \in Seq(Nat) /\ Len(Q) \in Nat /\ DOMAIN Q = 1..Len(Q) /\ \A i \in 1..Len(Q) : Q[i] \in Nat \ {0} /\ 2 <= Q[i]
    BY Rings DEF Basis, Sound
  <1>3. y \in Seq(Nat) /\ Len(y) = 1 /\ Positive(y) /\ y[1] = t /\ \A i \in 1..1 : i = 1
    BY <1>1, SingleModulus
  <1>4. Positive(Q)
    BY <1>2 DEF Positive
  <1> HIDE DEF y
  <1>5. /\ Len(z) = Len(Q) + 1 /\ DOMAIN z = 1..(Len(Q) + 1)
        /\ \A i \in 1..Len(Q) : z[i] = Q[i]
        /\ z[Len(Q) + 1] = y[1]
    <2>1. Q \in [1..Len(Q) -> Nat] /\ y \in [1..Len(y) -> Nat]
      <3>1. \A f \in Seq(Nat) : f \in [1..Len(f) -> Nat]
        BY LenProperties
      <3>2. QED
        BY <1>2, <1>3, <3>1, Zenon
    <2>2. 1 \in Nat /\ 1 \in 1..1
      OBVIOUS
    <2>3. Joins(Q, Len(Q), y, 1, Nat)
      BY <1>2, <1>3, <2>1, <2>2, Joined
    <2>4. z \in [1..(Len(Q) + 1) -> Nat] /\ Len(Q) + 1 \in Nat
      BY <1>2, <2>3 DEF Joins
    <2>5. Len(z) = Len(Q) + 1 /\ DOMAIN z = 1..(Len(Q) + 1)
      BY <2>4, IsASequence, Zenon
    <2>6. QED
      BY <2>2, <2>3, <2>5 DEF Joins
  <1>6. z \in {Q \o << u >> : u \in {u \in T : Odd(u)}}
    BY DEF y
  <1> HIDE DEF z
  <1>7. \A i \in 1..Len(z) : z[i] \in Nat \ {0} /\ 2 <= z[i]
    <2>1. ASSUME NEW i \in 1..(Len(Q) + 1) PROVE z[i] \in Nat \ {0} /\ 2 <= z[i]
      <3>1. CASE i \in 1..Len(Q)
        BY <1>2, <1>5, <3>1
      <3>2. CASE i = Len(Q) + 1
        BY <1>1, <1>3, <1>5, <3>2
      <3>3. QED
        BY <1>2, <3>1, <3>2
    <2>2. QED
      BY <1>5, <2>1
  <1>8. Positive(z)
    BY <1>2, <1>5, <1>7 DEF Positive
  <1>9. Coprime(z)
    BY <1>5, <1>6, <1>7, <1>8, CoprimeWhen
  <1>10. IsJoin(z, Q, y)
    <2>1. ASSUME NEW j \in 1..Len(y) PROVE z[Len(Q) + j] = y[j]
      BY <1>3, <1>5
    <2>2. QED
      BY <1>3, <1>4, <1>5, <1>8, <2>1 DEF IsJoin
  <1>11. Product(Q) % y[1] \in 1..(y[1] - 1)
    <2>1. 1 \in 1..Len(y)
      BY <1>3
    <2>2. QED
      BY <1>9, <1>10, <2>1, JoinNotZero, Zenon
  <1>12. QED
    BY <1>3, <1>11

\* The i-th row of t times the number plus half the product.
RaisedRow(t, i) ==
    CRed(MRed(rows[i], ToMont(BRedAdd(t, Q[i], bredParams[Q[i]]), Q[i]), Q[i], mredParams[Q[i]])
         + (qHalf % Q[i]), Q[i])
LEMMA RaisedIs ==
    ASSUME IInv, moduli = Q, NEW t \in T, NEW i \in 1..Len(Q)
    PROVE  /\ RaisedRow(t, i) \in 0..(R - 1) /\ RaisedRow(t, i) \in Int
           /\ Congruent(RaisedRow(t, i), Scaled(t), Q[i])
  <1> DEFINE q == Q[i]
             x == rows[i]
             v == Value
             b == BRedAdd(t, q, bredParams[q])
             f == ToMont(b, q)
             h == qHalf
             s == MRed(x, f, q, mredParams[q])
  <1>1. Sound(q) /\ x \in 0..(R - 1) /\ h \in Int
    BY FullRows
  <1>2. q \in Nat \ {0} /\ 2 * q <= R /\ q < R /\ bredParams[q] = BRedParams(q) /\ x \in Int
    BY <1>1, RAssumption DEF Sound
  <1>3. v \in Int /\ Congruent(x, v, q)
    BY ValueHere DEF StandsFor
  <1>4. t \in Int /\ t \in 0..(R - 1) /\ t \in Nat
    BY PlainModulus, RAssumption
  <1>5. Scaled(t) = (t * v) + h
    BY DEF Scaled, qHalf
  <1>6. RaisedRow(t, i) = CRed(s + (h % q), q)
    BY DEF RaisedRow
  <1> HIDE DEF q, x, v, h
  <1>7. b = t % q
    BY <1>2, <1>4, BarrettReduction
  <1>8. b \in 0..(R - 1) /\ b \in Int /\ Congruent(b, t, q)
    <2>1. t % q \in 0..(q - 1)
      BY <1>2, <1>4
    <2>2. Congruent(t % q, t, q)
      BY <1>2, <1>4, CongruentIs, Zenon
    <2> HIDE DEF b
    <2>3. QED
      BY <1>2, <1>7, <2>1, <2>2, RAssumption
  <1> HIDE DEF b
  <1>9. InMontgomery(f, t, q)
    BY <1>1, <1>4, <1>8, MontgomeryIs, Zenon
  <1> HIDE DEF f
  <1>10. s \in 0..(q - 1) /\ Congruent(s, x * t, q)
    BY <1>1, <1>4, <1>9, TimesMont, Zenon
  <1> HIDE DEF s
  <1>11. s \in Int /\ x * t \in Int /\ t * v \in Int /\ v * t = t * v /\ (t * v) + h \in Int
    <2>1. x * t \in Int /\ t * v \in Int /\ v * t = t * v
      BY <1>2, <1>3, <1>4
    <2>2. QED
      BY <1>1, <1>2, <1>10, <2>1
  <1>12. Congruent(s, t * v, q)
    <2>1. Congruent(t, t, q)
      BY DEF Congruent
    <2>2. Congruent(x * t, v * t, q)
      BY <1>2, <1>3, <1>4, <2>1, CongruentProduct, Zenon
    <2>3. Congruent(s, v * t, q)
      BY <1>10, <2>2, CongruentVia, Zenon
    <2>4. QED
      BY <1>11, <2>3, Zenon
  <1> DEFINE g == h % q
  <1>13. g \in 0..(q - 1) /\ g \in Int /\ Congruent(g, h, q)
    <2>1. g \in 0..(q - 1) /\ g \in Int
      BY <1>1, <1>2
    <2>2. Congruent(h % q, h, q)
      BY <1>1, <1>2, CongruentIs, Zenon
    <2>3. QED
      BY <2>1, <2>2
  <1> HIDE DEF g
  <1>14. Congruent(s + g, (t * v) + h, q)
    BY <1>1, <1>2, <1>11, <1>12, <1>13, CongruentSum, Zenon
  <1>15. s + g \in 0..((2 * q) - 1)
    BY <1>2, <1>10, <1>13
  <1>16. CRed(s + g, q) \in 0..(q - 1) /\ Congruent(CRed(s + g, q), s + g, q)
    BY <1>2, <1>15, CRedRange, Zenon DEF Congruent
  <1> DEFINE z == CRed(s + g, q)
  <1>17. z \in 0..(R - 1) /\ z \in Int
    <2> HIDE DEF z
    <2>1. z \in 0..(q - 1)
      BY <1>16 DEF z
    <2>2. QED
      BY <1>2, <2>1, RAssumption
  <1>18. Congruent(z, (t * v) + h, q)
    BY <1>14, <1>16, CongruentVia, Zenon
  <1>19. z = RaisedRow(t, i)
    BY <1>6 DEF g
  <1> HIDE DEF z
  <1>20. QED
    BY <1>5, <1>17, <1>18, <1>19 DEF q

\* The half of the product goes away again, and the product with it.
ProductInverse(t) == MForm(ModExp(Product(Q) % t, t - 2, t), t, bredParams[t])
LoweredRow(t, y) == MRed(Wrap(t - (qHalf % t) + y), t - ProductInverse(t), t, mredParams[t])
LEMMA LoweredIs ==
    ASSUME NEW t \in {u \in T : Odd(u)}, NEW v \in Int, NEW x \in Int, Splits(x, qHalf, t, v),
           NEW c \in Int, NEW y \in 0..((4 * t) - 1), Congruent(y, (x % Product(Q)) + (c * Product(Q)), t)
    PROVE  LoweredRow(t, y) \in Int /\ Congruent(LoweredRow(t, y), (x \div Product(Q)) - c, t)
  <1> DEFINE p == Product(Q)
             h == qHalf
             r == (x % p) + (c * p)
             e == (x \div p) - c
             inv == ProductInverse(t)
             w == (t - (h % t)) + y
             s == h - r
  <1>1. Sound(t) /\ t \in Nat \ {0} /\ 8 * t < R /\ R \in Nat /\ t \in Moduli \cup {u \in T : Odd(u)}
    BY ModuliAreSound, RAssumption DEF Sound
  <1>2. p \in Nat \ {0} /\ p \in Nat /\ p % t \in 1..(t - 1)
    BY Rings, BasisProduct, ProductInverts
  <1> HIDE DEF p
  <1>3. h \in Int
    BY <1>2 DEF qHalf, p
  <1>4. PICK u : Inverts(u, p, t) /\ InMontgomery(inv, u, t)
    <2>1. p % t \in 0..(R - 1) /\ p % t \in Int /\ p \in Int
      BY <1>1, <1>2
    <2>2. Congruent(p % t, p, t)
      BY <1>1, <2>1, CongruentIs, Zenon
    <2>3. \E u : Inverts(u, p, t) /\ InMontgomery(ToMont(ModExp(p % t, t - 2, t), t), u, t)
      BY <1>1, <1>2, <2>1, <2>2, PowerInverts, Zenon
    <2>4. inv = ToMont(ModExp(p % t, t - 2, t), t)
      BY DEF ProductInverse, ToMont, p
    <2> HIDE DEF inv
    <2>5. QED
      BY <2>3, <2>4, Zenon
  <1>5. Splits(x, r, p, e) /\ e \in Int /\ r \in Int
    BY <1>2, SplitsMisread, Zenon
  <1> HIDE DEF h, r, e
  <1>6. w \in 0..(R - 1) /\ w \in Int /\ s \in Int /\ -s \in Int /\ h % t \in 0..(t - 1) /\ h % t \in Int
    <2>1. h % t \in 0..(t - 1) /\ h % t \in Int
      BY <1>1, <1>3
    <2> DEFINE g == h % t
    <2> HIDE DEF g
    <2>2. g \in 0..(t - 1)
      BY <2>1 DEF g
    <2>3. (t - g) + y \in 0..(R - 1) /\ (t - g) + y \in Int
      BY <1>1, <2>2
    <2>4. s \in Int /\ -s \in Int
      BY <1>3, <1>5
    <2>5. QED
      BY <2>1, <2>3, <2>4 DEF g
  <1>7. LoweredRow(t, y) = MRed(w, t - inv, t, mredParams[t])
    <2>1. Wrap(w) = w
      BY <1>6, WrapRange
    <2>2. t - (h % t) + y = w
      OBVIOUS
    <2> HIDE DEF w, inv
    <2>3. QED
      BY <2>1, <2>2 DEF LoweredRow, inv, h
  <1>8. Congruent(w, -s, t)
    <2> DEFINE g == h % t
    <2>1. Congruent(t, 0, t) /\ Congruent(g, h, t) /\ Congruent(y, r, t) /\ 0 \in Int /\ t \in Int /\ y \in Int
      <3>1. Congruent(h % t, h, t)
        BY <1>1, <1>3, CongruentIs, Zenon
      <3>2. Congruent(t, 0, t) /\ t \in Int /\ y \in Int
        BY <1>1 DEF Congruent
      <3>3. QED
        BY <3>1, <3>2 DEF r, p
    <2>2. t - g \in Int /\ 0 - h \in Int /\ g \in Int
      BY <1>1, <1>3, <1>6
    <2> HIDE DEF g
    <2>3. Congruent(t - g, 0 - h, t)
      BY <1>1, <1>3, <2>1, <2>2, CongruentSum, Zenon
    <2>4. Congruent((t - g) + y, (0 - h) + r, t)
      BY <1>1, <1>3, <1>5, <2>1, <2>2, <2>3, CongruentSum, Zenon
    <2>5. (0 - h) + r = -s
      BY <1>3, <1>5
    <2>6. QED
      BY <2>4, <2>5 DEF g
  <1>9. Congruent(s, p * e, t)
    <2> DEFINE a == p * e
               b == t * v
    <2>1. x - r = a /\ x - h = b /\ a \in Int /\ b \in Int
      <3>1. a \in Int /\ b \in Int
        BY <1>1, <1>2, <1>5
      <3>2. x - h = t * v
        BY DEF Splits, h
      <3>3. QED
        BY <1>5, <3>1, <3>2 DEF Splits
    <2>2. b % t = 0
      <3>1. (0 + (v * t)) % t = 0 % t
        BY <1>1, ModPlus
      <3>2. v * t = t * v /\ 0 + (t * v) = t * v /\ 0 % t = 0
        BY <1>1
      <3>3. QED
        BY <3>1, <3>2
    <2> HIDE DEF a, b, s
    <2>3. Congruent(a, a, t) /\ Congruent(b, 0, t) /\ 0 \in Int
      BY <1>1, <2>2 DEF Congruent
    <2>4. Congruent(a - b, a - 0, t)
      BY <1>1, <2>1, <2>3, CongruentSum, Zenon
    <2>5. a - b = s /\ a - 0 = a
      BY <1>3, <1>5, <2>1 DEF s
    <2>6. QED
      BY <2>4, <2>5 DEF a
  <1> HIDE DEF w, s, inv
  <1>10. /\ MRed(w, t - inv, t, mredParams[t]) \in 0..(t - 1)
         /\ Congruent(MRed(w, t - inv, t, mredParams[t]), e, t)
    BY <1>1, <1>2, <1>4, <1>5, <1>6, <1>8, <1>9, DividedIs
  <1>11. LoweredRow(t, y) \in Int /\ Congruent(LoweredRow(t, y), e, t)
    BY <1>1, <1>7, <1>10
  <1>12. QED
    BY <1>11 DEF e, p

\* Scaling in residues: the raised row is extended to t, and lowered.
LEMMA DivByQOverTRoundedMoves == FullyExtended /\ IInv /\ DivByQOverTRounded => Integers!Next
  <1>1. SUFFICES ASSUME FullyExtended, IInv, DivByQOverTRounded PROVE Integers!Next
    OBVIOUS
  <1> DEFINE x(t) == [i \in DOMAIN Q |-> RaisedRow(t, i)]
  <1>2. PICK t \in {u \in T : Odd(u)} :
            /\ moduli = Q
            /\ \E y \in modUpExact(x(t), 1, basisextenderparameters(Q, << t >>)) :
                  Become(<< "Scale" >>, << t >>, << LoweredRow(t, y[1]) >>)
    BY <1>1, Zenon DEF DivByQOverTRounded, RaisedRow, LoweredRow, ProductInverse
  <1> DEFINE B == << t >>
             p == Product(Q)
             e == Scaled(t)
             X == x(t)
  <1>3. PICK y \in modUpExact(X, 1, basisextenderparameters(Q, B)) :
            Become(<< "Scale" >>, << t >>, << LoweredRow(t, y[1]) >>)
    BY <1>2
  <1>4. t \in T /\ Sound(t) /\ t \in Nat \ {0}
    BY ModuliAreSound, PlainModulus
  <1>5. e \in Int /\ Value \in Int /\ e \div p \in Int
    BY <1>1, <1>2, <1>4, ScaledIs, ValueHere
  <1>6. Splits(e, qHalf, t, Value)
    <2> DEFINE a == t * Value
               h == qHalf
    <2>1. e = a + h
      BY <1>2 DEF Scaled, qHalf
    <2>2. a \in Int /\ h \in Int
      BY <1>1, <1>2, <1>4, <1>5, FullRows
    <2> HIDE DEF a, e, h
    <2>3. e - h = a
      BY <2>1, <2>2
    <2>4. QED
      BY <2>3 DEF Splits, a, h
  <1>7. DOMAIN Q = 1..Len(Q) /\ Len(Q) \in Nat /\ 1 \in 0..1 /\ 1 \in 1..1
    BY Rings DEF Basis
  <1>8. \A i \in 1..Len(Q) : X[i] \in 0..(R - 1) /\ X[i] \in Int /\ Congruent(X[i], e, Q[i])
    BY <1>1, <1>2, <1>4, <1>7, RaisedIs
  <1>9. X \in [1..Len(Q) -> 0..(R - 1)] /\ DOMAIN X = 1..Len(Q)
    <2>1. X = [i \in 1..Len(Q) |-> X[i]]
      BY <1>7
    <2> HIDE DEF X, x
    <2>2. QED
      BY <1>8, <2>1
  <1> HIDE DEF X, x, e
  <1>10. StandsFor(X, Q, e)
    BY <1>5, <1>8, <1>9 DEF StandsFor
  <1>11. Basis(B) /\ 1 \in 0..Len(B) /\ B[1] = t
    <2>1. B \in Seq(Nat) /\ Len(B) = 1 /\ B[1] = t /\ \A i \in 1..1 : i = 1
      BY <1>4, SingleModulus
    <2> HIDE DEF B
    <2>2. QED
      BY <1>4, <2>1 DEF Basis
  <1>12. Q \in Sources /\ ModuliFit
    BY <1>1, WholeQ DEF FullyExtended
  <1> HIDE DEF B
  <1>13. \E c \in Integers!Misread(e % Product(Q), Product(Q)) : \A j \in 1..1 :
            y[j] \in 0..((4 * B[j]) - 1) /\ Congruent(y[j], (e % Product(Q)) + (c * Product(Q)), B[j])
    BY ONLY <1>3, <1>9, <1>10, <1>11, <1>12, ExtensionMoves
  <1>14. PICK c \in Integers!Misread(e % p, p) :
            y[1] \in 0..((4 * t) - 1) /\ Congruent(y[1], (e % p) + (c * p), t)
    BY <1>7, <1>11, <1>13
  <1>15. c \in Int
    BY DEF Integers!Misread
  <1>16. LoweredRow(t, y[1]) \in Int /\ Congruent(LoweredRow(t, y[1]), (e \div p) - c, t)
    BY <1>5, <1>6, <1>14, <1>15, LoweredIs
  <1>17. (e \div p) - c \in Int
    <2> HIDE DEF p
    <2>1. QED
      BY <1>5, <1>15
  <1>18. StandsFor(<< LoweredRow(t, y[1]) >>, << t >>, (e \div p) - c)
    BY <1>4, <1>16, <1>17, OneStands, Zenon
  <1>19. p = Product(moduli)
    BY <1>2
  <1> HIDE DEF p
  <1>20. QED
    BY <1>3, <1>4, <1>14, <1>18, <1>19, ScaleMoves, Zenon DEF e

\* Terms that split alike have sums that do.
LEMMA SumSplits ==
    ASSUME NEW n, NEW t \in Int, NEW c \in Int, NEW x, NEW y, NEW z, IntRow(x, n), IntRow(y, n), IntRow(z, n),
           \A k \in 1..n : Splits(t * x[k], z[k], c, y[k])
    PROVE  Splits(t * Sum(x), Sum(z), c, Sum(y))
  <1>1. PICK f : Sum(x) = f[n] /\ PartialRuns(f, x)
    BY SumRuns, Zenon
  <1>2. PICK g : Sum(y) = g[n] /\ PartialRuns(g, y)
    BY SumRuns, Zenon
  <1>3. PICK h : Sum(z) = h[n] /\ PartialRuns(h, z)
    BY SumRuns, Zenon
  <1>4. /\ n \in Nat /\ f[0] = 0 /\ g[0] = 0 /\ h[0] = 0
        /\ \A k \in 0..n : f[k] \in Int /\ g[k] \in Int /\ h[k] \in Int
        /\ \A k \in 1..n : f[k] = x[k] + f[k - 1] /\ g[k] = y[k] + g[k - 1] /\ h[k] = z[k] + h[k - 1]
        /\ \A k \in 1..n : x[k] \in Int /\ y[k] \in Int /\ z[k] \in Int
    BY <1>1, <1>2, <1>3 DEF PartialRuns, IntRow
  <1> DEFINE H == {k \in 0..n : Splits(t * f[k], h[k], c, g[k])}
  <1>5. 0 \in H
    <2>1. 0 \in 0..n /\ (t * 0) - 0 = c * 0
      BY <1>4
    <2>2. QED
      BY <1>4, <2>1 DEF Splits
  <1>6. ASSUME NEW k \in 1..n, k - 1 \in H PROVE k \in H
    <2>1. k \in 0..n /\ k - 1 \in 0..n
      BY <1>4
    <2> DEFINE a == x[k]
               b == f[k - 1]
               d == y[k]
               e == g[k - 1]
               u == z[k]
               v == h[k - 1]
    <2>2. /\ a \in Int /\ b \in Int /\ d \in Int /\ e \in Int /\ u \in Int /\ v \in Int
          /\ f[k] = a + b /\ g[k] = d + e /\ h[k] = u + v
      BY <1>4, <2>1
    <2>3. (t * a) - u = c * d /\ (t * b) - v = c * e
      BY <1>6 DEF Splits
    <2> HIDE DEF a, b, d, e, u, v
    <2>4. t * (a + b) = (t * a) + (t * b) /\ c * (d + e) = (c * d) + (c * e)
      BY <2>2
    <2>5. t * a \in Int /\ t * b \in Int
      BY <2>2
    <2> DEFINE i == t * a
               j == t * b
               l == c * d
               m == c * e
    <2>6. (i + j) - (u + v) = l + m
      <3>1. i - u = l /\ j - v = m /\ i \in Int /\ j \in Int
        BY <2>3, <2>5
      <3> HIDE DEF i, j, l, m
      <3>2. QED
        BY <2>2, <3>1
    <2>7. (t * (a + b)) - (u + v) = c * (d + e)
      BY <2>4, <2>6
    <2>8. QED
      BY <2>1, <2>2, <2>7 DEF Splits
  <1> HIDE DEF H
  <1>7. \A k \in 0..n : k \in H
    BY <1>4, <1>5, <1>6, Induction
  <1>8. n \in 0..n
    BY <1>4
  <1>9. QED
    BY <1>1, <1>2, <1>3, <1>7, <1>8, Zenon DEF H

\* The integer part of t times the i-th inverse over the i-th modulus, which wi holds.
Weight(t, i) == (barre[i] * t) \div Q[i]
LEMMA WeightIs ==
    ASSUME NEW t \in T, NEW i \in 1..Len(Q)
    PROVE  /\ barre[i] = InverseOf(Q, i) /\ barre[i] \in Nat
           /\ Weight(t, i) \in Nat /\ Weight(t, i) < t /\ Weight(t, i) \in 0..(R - 1)
           /\ ti(t, i) \in 0..(Q[i] - 1) /\ Splits(barre[i] * t, ti(t, i), Q[i], Weight(t, i))
           /\ wi(t, i) = IF Odd(t) THEN ToMont(Weight(t, i), t) ELSE Weight(t, i)
  <1> DEFINE b == barre[i]
             q == Q[i]
             a == b * t
  <1>1. DOMAIN Q = 1..Len(Q) /\ q \in Nat \ {0}
    BY Rings DEF Basis, Sound
  <1>2. b = InverseOf(Q, i) /\ b \in 0..(q - 1)
    <2>1. ModInverse((Product(Q) \div q) % q, q) \in 0..(q - 1)
      BY RingBases DEF Source
    <2>2. b = ModInverse((Product(Q) \div q) % q, q)
      BY <1>1 DEF barre
    <2>3. QED
      BY <2>1, <2>2 DEF InverseOf, Cofactor
  <1>3. t \in Nat \ {0} /\ t < R /\ R \in Nat
    BY PlainModulus, RAssumption
  <1>4. /\ ti(t, i) = a % q /\ Weight(t, i) = a \div q
        /\ wi(t, i) = IF Odd(t) THEN ToMont(Weight(t, i), t) ELSE Weight(t, i)
    BY DEF ti, wi, Weight
  <1> HIDE DEF b, q
  <1>5. b \in Nat /\ b < q /\ a \in Nat /\ a < q * t
    <2>1. b \in Nat /\ b < q /\ q \in Nat /\ t \in Nat
      BY <1>1, <1>2, <1>3
    <2>2. b * t < q * t /\ b * t >= 0 /\ b * t \in Int
      BY <1>3, <2>1
    <2>3. QED
      BY <2>1, <2>2
  <1> HIDE DEF a
  <1>6. a \div q \in Nat /\ a \div q < t
    BY <1>1, <1>3, <1>5, DivBelow
  <1>7. a % q \in 0..(q - 1) /\ a - (a % q) = q * (a \div q)
    <2>1. a \in Int
      BY <1>5
    <2>2. a % q \in 0..(q - 1) /\ a = (q * (a \div q)) + (a % q)
      BY <1>1, <2>1, DivMod, Zenon
    <2> DEFINE r == a % q
               k == a \div q
               z == q * k
    <2>3. r \in Int /\ z \in Int /\ a = z + r
      BY <1>1, <1>6, <2>2
    <2> HIDE DEF r, z
    <2>4. a - r = z
      BY <2>3
    <2>5. QED
      BY <2>2, <2>4 DEF r, z
  <1>8. a \div q \in 0..(R - 1)
    <2> DEFINE k == a \div q
    <2> HIDE DEF k
    <2>1. k \in Nat /\ k < t
      BY <1>6 DEF k
    <2>2. k \in 0..(R - 1)
      BY <1>3, <2>1
    <2>3. QED
      BY <2>2 DEF k
  <1>9. Splits(a, ti(t, i), q, Weight(t, i))
    BY <1>4, <1>7 DEF Splits
  <1>10. QED
    BY <1>2, <1>4, <1>5, <1>6, <1>7, <1>8, <1>9 DEF a, b, q

\* A word keeps a sum below R, and the residue by a power of two of any.
LEMMA WrapKeeps ==
    ASSUME NEW t \in T, NEW z \in Nat, Odd(t) => z < R
    PROVE  Wrap(z) \in 0..(R - 1) /\ Congruent(Wrap(z), z, t)
  <1>1. z \in Int /\ R \in Nat \ {0} /\ t \in Nat \ {0}
    BY PlainModulus, RAssumption
  <1>2. Wrap(z) \in 0..(R - 1)
    BY <1>1, WrapRange
  <1>3. CASE Odd(t)
    <2>1. z \in 0..(R - 1)
      BY <1>1, <1>3
    <2>2. Wrap(z) = z
      BY <1>1, <2>1, WrapRange
    <2>3. QED
      BY <1>2, <2>2 DEF Congruent
  <1>4. CASE ~Odd(t)
    <2>1. PICK k \in 1..(W - 1) : t = 2^k
      BY <1>4, RnsAssumption
    <2>2. k \in 0..W /\ t \in Nat
      BY <1>1, WAssumption
    <2>3. 2^(W - k) \in Nat \ {0} /\ R = 2^k * 2^(W - k)
      BY <2>2, WordPowers
    <2>4. R = t * 2^(W - k) /\ 2^(W - k) \in Nat
      BY <2>1, <2>3
    <2>5. Divides(t, R)
      BY <2>4, Zenon DEF Divides
    <2>6. Congruent(z % R, z, R)
      BY <1>1, CongruentIs, Zenon
    <2>7. z % R \in Int
      BY <1>1
    <2>8. Congruent(z % R, z, t)
      BY <1>1, <2>5, <2>6, <2>7, CongruentDown, Zenon
    <2>9. QED
      BY <1>2, <2>8 DEF Wrap
  <1>5. QED
    BY <1>3, <1>4

\* A term of the integer part.
LEMMA TermIs ==
    ASSUME IInv, moduli = Q, NEW t \in T, NEW i \in 1..Len(Q)
    PROVE  /\ reducealgoMul(t, wi(t, i), rows[i]) \in 0..(t - 1)
           /\ Congruent(reducealgoMul(t, wi(t, i), rows[i]), Weight(t, i) * rows[i], t)
  <1> DEFINE w == Weight(t, i)
             x == rows[i]
  <1>1. x \in 0..(R - 1)
    BY FullRows
  <1>2. w \in 0..(R - 1) /\ w \in Nat /\ wi(t, i) = IF Odd(t) THEN ToMont(w, t) ELSE w
    BY WeightIs
  <1>3. t \in Nat \ {0} /\ x \in Nat /\ R \in Nat
    BY <1>1, PlainModulus, RAssumption
  <1> HIDE DEF w, x
  <1>4. w * x \in Nat /\ x * w = w * x
    BY <1>2, <1>3
  <1>5. CASE Odd(t)
    <2> DEFINE f == ToMont(w, t)
    <2>1. Sound(t)
      BY <1>5, ModuliAreSound
    <2>2. w \in Int /\ Congruent(w, w, t)
      BY <1>2 DEF Congruent
    <2>3. InMontgomery(f, w, t)
      BY <1>2, <2>1, <2>2, MontgomeryIs, Zenon
    <2>4. f \in Int /\ f * x = x * f
      <3>1. f \in Int
        BY <1>3, <2>3 DEF InMontgomery
      <3> HIDE DEF f
      <3>2. QED
        BY <1>3, <3>1
    <2> HIDE DEF f
    <2>5. MRed(x, f, t, mredParams[t]) \in 0..(t - 1) /\ Congruent(MRed(x, f, t, mredParams[t]), x * w, t)
      BY <1>1, <2>1, <2>2, <2>3, TimesMont, Zenon
    <2>6. MRed(f, x, t, mredParams[t]) = MRed(x, f, t, mredParams[t])
      BY <2>4, Zenon DEF MRed, MRedConstant
    <2>7. reducealgoMul(t, wi(t, i), x) = MRed(f, x, t, mredParams[t])
      BY <1>2, <1>5 DEF reducealgoMul, f
    <2>8. QED
      BY <1>4, <2>5, <2>6, <2>7, Zenon DEF w, x
  <1>6. CASE ~Odd(t)
    <2> DEFINE z == w * x
    <2>1. reducealgoMul(t, wi(t, i), x) = Wrap(z) % t
      BY <1>2, <1>6 DEF reducealgoMul
    <2> HIDE DEF z
    <2>2. z \in Nat
      BY <1>4 DEF z
    <2>3. Wrap(z) \in 0..(R - 1) /\ Congruent(Wrap(z), z, t)
      BY <1>6, <2>2, WrapKeeps
    <2> DEFINE u == Wrap(z)
    <2> HIDE DEF u
    <2>4. u \in Int /\ u % t \in 0..(t - 1)
      <3>1. u \in Int
        BY <1>3, <2>3 DEF u
      <3>2. QED
        BY <1>3, <3>1
    <2>5. Congruent(u % t, u, t)
      BY <1>3, <2>4, CongruentIs, Zenon
    <2>6. Congruent(u % t, z, t)
      BY <2>3, <2>5, CongruentVia, Zenon DEF u
    <2>7. QED
      BY <2>1, <2>4, <2>6 DEF u, z, w, x
  <1>7. QED
    BY <1>5, <1>6

\* The integer part, what it stands for, and the numerator of the fractional part.
Whole(t) == Sum([i \in DOMAIN Q |-> reducealgoMul(t, wi(t, i), rows[i])])
Products(t) == Sum([i \in 1..Len(Q) |-> Weight(t, i) * rows[i]])
Fraction(t) == Sum([i \in DOMAIN Q |-> rows[i] * ti(t, i) * (Product(Q) \div Q[i])])
LEMMA RowOf ==
    ASSUME NEW n \in Nat, NEW x, x = [i \in 1..n |-> x[i]], \A i \in 1..n : x[i] \in Int
    PROVE  IntRow(x, n)
  <1>1. x \in [1..n -> Int]
    OBVIOUS
  <1>2. Len(x) = n
    BY <1>1, IsASequence
  <1>3. QED
    BY <1>2 DEF IntRow

\* The integer parts, as a sum.
LEMMA ProductsRow ==
    ASSUME IInv, moduli = Q, NEW t \in T
    PROVE  /\ IntRow([i \in 1..Len(Q) |-> Weight(t, i) * rows[i]], Len(Q)) /\ Products(t) \in Int
           /\ \A i \in 1..Len(Q) : [j \in 1..Len(Q) |-> Weight(t, j) * rows[j]][i] = Weight(t, i) * rows[i]
  <1> DEFINE n == Len(Q)
             y == [i \in 1..n |-> Weight(t, i) * rows[i]]
  <1>1. n \in Nat
    BY Rings DEF Basis
  <1>2. ASSUME NEW i \in 1..n PROVE y[i] \in Int
    <2> DEFINE a == Weight(t, i)
               b == rows[i]
    <2>1. a \in Int /\ b \in Int
      BY WeightIs, FullRows
    <2> HIDE DEF a, b
    <2>2. a * b \in Int
      BY <2>1
    <2>3. QED
      BY <2>2 DEF a, b
  <1>3. y = [i \in 1..n |-> y[i]] /\ \A i \in 1..n : y[i] = Weight(t, i) * rows[i]
    OBVIOUS
  <1>4. Products(t) = Sum(y)
    BY DEF Products
  <1> HIDE DEF y
  <1>5. IntRow(y, n)
    BY <1>1, <1>2, <1>3, RowOf
  <1>6. Sum(y) \in Int
    BY <1>1, <1>5, SumIsInt DEF IntRow
  <1>7. QED
    BY <1>3, <1>4, <1>5, <1>6 DEF y

\* The code sums them modulo t.
LEMMA WholeIs ==
    ASSUME IInv, moduli = Q, NEW t \in T
    PROVE  Whole(t) \in 0..(Len(Q) * (t - 1)) /\ Congruent(Whole(t), Products(t), t)
  <1> DEFINE n == Len(Q)
             x == [i \in 1..n |-> reducealgoMul(t, wi(t, i), rows[i])]
             y == [i \in 1..n |-> Weight(t, i) * rows[i]]
  <1>1. n \in Nat /\ t \in Nat \ {0} /\ t - 1 \in Nat /\ DOMAIN Q = 1..n
    BY Rings, PlainModulus DEF Basis
  <1>2. \A i \in 1..n : x[i] \in 0..(t - 1) /\ Congruent(x[i], Weight(t, i) * rows[i], t)
    BY TermIs
  <1>3. x = [i \in 1..n |-> x[i]]
    OBVIOUS
  <1>4. Whole(t) = Sum(x)
    BY <1>1 DEF Whole
  <1>5. IntRow(y, n) /\ Products(t) \in Int /\ \A i \in 1..n : y[i] = Weight(t, i) * rows[i]
    BY ProductsRow
  <1>6. Products(t) = Sum(y)
    BY DEF Products
  <1> HIDE DEF x, y
  <1>7. \A i \in 1..n : x[i] \in Int
    BY <1>1, <1>2
  <1>8. IntRow(x, n)
    BY <1>1, <1>3, <1>7, RowOf
  <1>9. Sum(x) \in 0..(n * (t - 1))
    BY <1>1, <1>2, <1>8, SumAtMost DEF IntRow
  <1>10. \A i \in 1..n : Congruent(x[i], 1 * y[i], t)
    <2>1. \A i \in 1..n : 1 * y[i] = y[i]
      BY <1>5 DEF IntRow
    <2>2. QED
      BY <1>2, <1>5, <2>1
  <1>11. Congruent(Sum(x), 1 * Sum(y), t)
    <2>1. 1 \in Int
      OBVIOUS
    <2>2. QED
      BY <1>1, <1>5, <1>8, <1>10, <2>1, SumTimes, Zenon
  <1>12. 1 * Sum(y) = Sum(y)
    BY <1>5, <1>6
  <1>13. QED
    BY <1>4, <1>6, <1>9, <1>11, <1>12

\* The largest multiple a row can be of its modulus, in R-ths.
Top(b) == b \in Nat /\ \A q \in Moduli, n \in {Len(Q), Len(P)} : 2 * R + n * q <= b
LEMMA TopIs ==
    \E q \in Moduli, n \in {Len(Q), Len(P)} : Top(2 * R + n * q)
  <1>1. Len(Q) \in Nat \ {0} /\ Len(P) \in Nat \ {0} /\ Source(Q) /\ Source(P) /\ R \in Nat
    BY Rings, RingBases, RAssumption DEF Basis
  <1>2. Len(Q) \in 1..Len(Q) /\ Len(P) \in 1..Len(P)
    BY <1>1
  <1>3. PICK a \in Moduli : \A i \in 1..Len(Q) : Q[i] <= a
    BY <1>1, <1>2, Largest
  <1>4. PICK b \in Moduli : \A j \in 1..Len(P) : P[j] <= b
    BY <1>1, <1>2, Largest
  <1>5. \A q \in Moduli : q \in Nat /\ q \in Int
    BY ModuliAreSound DEF Sound
  <1>6. \A q \in Moduli : q <= a \/ q <= b
    BY <1>3, <1>4, Rings DEF Moduli
  <1>7. PICK c \in Moduli : \A q \in Moduli : q <= c
    <2>1. CASE a <= b
      <3>1. \A q \in Moduli : q <= b
        BY <1>5, <1>6, <2>1
      <3>2. QED
        BY <3>1
    <2>2. CASE ~(a <= b)
      <3>1. \A q \in Moduli : q <= a
        BY <1>5, <1>6, <2>2
      <3>2. QED
        BY <3>1
    <2>3. QED
      BY <2>1, <2>2
  <1>8. PICK n \in {Len(Q), Len(P)} : Len(Q) <= n /\ Len(P) <= n
    <2>1. CASE Len(Q) <= Len(P)
      BY <1>1, <2>1
    <2>2. CASE ~(Len(Q) <= Len(P))
      BY <1>1, <2>2
    <2>3. QED
      BY <2>1, <2>2
  <1>9. n \in Nat /\ c \in Nat
    BY <1>1, <1>5, <1>8
  <1>10. ASSUME NEW q \in Moduli, NEW k \in {Len(Q), Len(P)} PROVE 2 * R + k * q <= 2 * R + n * c
    <2>1. q \in Nat /\ k \in Nat /\ q <= c /\ k <= n
      BY <1>1, <1>5, <1>7, <1>8
    <2>2. k * q <= n * q /\ n * q <= n * c /\ k * q \in Int /\ n * q \in Int /\ n * c \in Int
      BY <1>9, <2>1
    <2> DEFINE x == k * q
               y == n * q
               z == n * c
    <2> HIDE DEF x, y, z
    <2>3. x <= y /\ y <= z /\ x \in Int /\ y \in Int /\ z \in Int
      BY <2>2 DEF x, y, z
    <2>4. 2 * R + x <= 2 * R + z
      BY <1>1, <2>3
    <2>5. QED
      BY <2>4 DEF x, z
  <1>11. 2 * R + n * c \in Nat
    <2>1. n * c \in Nat /\ 2 * R \in Nat
      BY <1>1, <1>9
    <2>2. QED
      BY <2>1
  <1>12. Top(2 * R + n * c)
    BY <1>10, <1>11 DEF Top
  <1>13. QED
    BY <1>8, <1>12

\* A row of a scaling is bounded so.
LEMMA RowsBelow ==
    ASSUME IInv, moduli = Q, NEW b, Top(b), NEW i \in 1..Len(Q)
    PROVE  R * rows[i] <= Q[i] * b
  <1> DEFINE m == Q[i]
             r == rows[i]
  <1>1. r \in 0..(R - 1) /\ Sound(m) /\ DOMAIN rows = 1..Len(Q)
    BY FullRows
  <1>2. r \in Nat /\ m \in Nat \ {0} /\ R \in Nat \ {0}
    BY <1>1, RAssumption DEF Sound
  <1>3. op[1] # "Digit"
    <2>1. SUFFICES ASSUME op[1] = "Digit" PROVE FALSE
      OBVIOUS
    <2>2. PICK l \in 1..Len(Q) : moduli = Level(l) \o P
      BY <2>1 DEF IInv, DigitBasis
    <2>3. QED
      BY <2>2, RingBases, LevelsDiffer
  <1>4. PICK q \in Moduli, n \in {Len(Q), Len(P)} : R * r < m * (2 * R + n * q)
    BY <1>1, <1>3 DEF IInv, RowsFit
  <1> DEFINE d == 2 * R + n * q
  <1>5. d <= b /\ b \in Nat /\ d \in Int
    <2>1. q \in Int /\ n \in Int
      BY <1>4, ModuliAreSound, Rings DEF Sound, Basis
    <2>2. n * q \in Int /\ 2 * R \in Int
      BY <1>2, <2>1
    <2>3. QED
      BY <1>4, <2>2 DEF Top
  <1>6. R * r < m * d
    BY <1>4
  <1> HIDE DEF m, r, d
  <1>7. m * d <= m * b /\ m * d \in Int /\ m * b \in Int /\ R * r \in Int
    BY <1>2, <1>5
  <1>8. R * r <= m * b
    BY <1>6, <1>7
  <1>9. QED
    BY <1>8 DEF m, r

\* Terms that are bounded alike have sums that are.
LEMMA SumBounded ==
    ASSUME NEW n, NEW r \in Int, NEW c \in Int, NEW x, NEW y, IntRow(x, n), IntRow(y, n),
           \A k \in 1..n : r * x[k] <= c * y[k]
    PROVE  r * Sum(x) <= c * Sum(y)
  <1>1. PICK f : Sum(x) = f[n] /\ PartialRuns(f, x)
    BY SumRuns, Zenon
  <1>2. PICK g : Sum(y) = g[n] /\ PartialRuns(g, y)
    BY SumRuns, Zenon
  <1>3. /\ n \in Nat /\ f[0] = 0 /\ g[0] = 0
        /\ \A k \in 0..n : f[k] \in Int /\ g[k] \in Int
        /\ \A k \in 1..n : f[k] = x[k] + f[k - 1] /\ g[k] = y[k] + g[k - 1]
        /\ \A k \in 1..n : x[k] \in Int /\ y[k] \in Int
    BY <1>1, <1>2 DEF PartialRuns, IntRow
  <1> DEFINE H == {k \in 0..n : r * f[k] <= c * g[k]}
  <1>4. 0 \in H
    <2>1. 0 \in 0..n /\ r * 0 = 0 /\ c * 0 = 0
      BY <1>3
    <2>2. QED
      BY <1>3, <2>1
  <1>5. ASSUME NEW k \in 1..n, k - 1 \in H PROVE k \in H
    <2>1. k \in 0..n /\ k - 1 \in 0..n
      BY <1>3
    <2> DEFINE a == x[k]
               b == f[k - 1]
               d == y[k]
               e == g[k - 1]
    <2>2. /\ a \in Int /\ b \in Int /\ d \in Int /\ e \in Int
          /\ f[k] = a + b /\ g[k] = d + e
      BY <1>3, <2>1
    <2>3. r * a <= c * d /\ r * b <= c * e
      BY <1>5
    <2> HIDE DEF a, b, d, e
    <2>4. r * (a + b) = (r * a) + (r * b) /\ c * (d + e) = (c * d) + (c * e)
      BY <2>2
    <2>5. r * a \in Int /\ r * b \in Int /\ c * d \in Int /\ c * e \in Int
      BY <2>2
    <2>6. r * (a + b) <= c * (d + e)
      BY <2>3, <2>4, <2>5
    <2>7. QED
      BY <2>1, <2>2, <2>6
  <1> HIDE DEF H
  <1>6. \A k \in 0..n : k \in H
    BY <1>3, <1>4, <1>5, Induction
  <1>7. n \in 0..n
    BY <1>3
  <1>8. QED
    BY <1>1, <1>2, <1>6, <1>7, Zenon DEF H

\* A term of the fractional part.
LEMMA FractionTerm ==
    ASSUME IInv, moduli = Q, NEW t \in T, NEW i \in 1..Len(Q)
    PROVE  LET c == Product(Q) \div Q[i]
               z == rows[i] * ti(t, i) * c
           IN  /\ z \in Nat /\ (rows[i] * barre[i]) * c \in Int /\ rows[i] * barre[i] \in Nat
               /\ Splits(t * ((rows[i] * barre[i]) * c), z, Product(Q), Weight(t, i) * rows[i])
               /\ \A k \in Nat : rows[i] <= k => z <= k * Product(Q)
  <1> DEFINE p == Product(Q)
             q == Q[i]
             c == p \div q
             r == rows[i]
             u == ti(t, i)
             b == barre[i]
             w == Weight(t, i)
             z == r * u * c
  <1>1. p \in Nat \ {0} /\ q \in Nat \ {0} /\ c \in Nat \ {0} /\ p = q * c
    <2>1. Positive(Q)
      BY RingBases, BasesAreCoprime
    <2>2. c = Cofactor(Q, i)
      BY DEF Cofactor
    <2>3. p \in Nat \ {0} /\ c \in Nat \ {0} /\ p = q * c
      BY <2>1, <2>2, Cofactors
    <2>4. QED
      BY <2>1, <2>3 DEF Positive
  <1>2. r \in Nat
    BY FullRows, RAssumption
  <1>3. b \in Nat /\ w \in Nat /\ u \in 0..(q - 1) /\ Splits(b * t, u, q, w)
    BY WeightIs
  <1>4. t \in Nat /\ u \in Nat /\ u <= q
    BY <1>1, <1>3, PlainModulus
  <1> HIDE DEF p, q, c, r, u, b, w
  <1>5. r * u \in Nat /\ z \in Nat /\ r * b \in Nat /\ (r * b) * c \in Int /\ r * c \in Int
    <2>1. r * u \in Nat /\ r * b \in Nat /\ r * c \in Int
      BY <1>1, <1>2, <1>3, <1>4
    <2>2. \A a \in Nat : a * c \in Nat
      BY <1>1
    <2>3. QED
      BY <2>1, <2>2
  <1>6. t * ((r * b) * c) - z = p * (w * r)
    <2>1. t * ((r * b) * c) = (r * c) * (b * t)
      BY <1>1, <1>2, <1>3, <1>4
    <2>2. z = (r * c) * u
      BY <1>1, <1>2, <1>4
    <2> DEFINE a == r * c
               d == b * t
    <2>3. d - u = q * w /\ d \in Int /\ a \in Int /\ u \in Int
      BY <1>3, <1>4, <1>5 DEF Splits
    <2> HIDE DEF a, d, z
    <2>4. (a * d) - (a * u) = a * (d - u)
      BY <2>3
    <2>5. (r * c) * (q * w) = (q * c) * (w * r)
      BY <1>1, <1>2, <1>3
    <2>6. a * (d - u) = p * (w * r)
      BY <1>1, <2>3, <2>5 DEF a
    <2>7. QED
      BY <2>1, <2>2, <2>4, <2>6 DEF a, d
  <1>7. ASSUME NEW k \in Nat, r <= k PROVE z <= k * p
    <2> DEFINE d == u * c
    <2>1. d <= p /\ d \in Nat
      BY <1>1, <1>4
    <2>2. z = r * d
      BY <1>1, <1>2, <1>4
    <2> HIDE DEF d, z
    <2>3. r * d <= k * d /\ k * d <= k * p
      BY <1>1, <1>2, <1>7, <2>1
    <2>4. r * d \in Int /\ k * d \in Int /\ k * p \in Int
      BY <1>1, <1>2, <2>1
    <2>5. QED
      BY <2>2, <2>3, <2>4
  <1>8. Splits(t * ((r * b) * c), z, p, w * r)
    BY <1>6 DEF Splits
  <1> HIDE DEF z
  <1>9. QED
    BY <1>5, <1>7, <1>8 DEF z, p, q, c, r, u, b, w

\* t times the digits spread over the cofactors is the integer part times the
\* product plus the fractional part.
Spreading == [i \in 1..Len(Q) |-> rows[i] * barre[i]]
LEMMA FractionIs ==
    ASSUME IInv, moduli = Q, NEW t \in T
    PROVE  /\ Fraction(t) \in Int /\ Spread(Spreading, Q) \in Int
           /\ Splits(t * Spread(Spreading, Q), Fraction(t), Product(Q), Products(t))
           /\ \A b : Top(b) => R * Fraction(t) <= (b * Product(Q)) * Sum(Q)
  <1> DEFINE n == Len(Q)
             p == Product(Q)
             x == [i \in 1..n |-> Spreading[i] * Cofactor(Q, i)]
             y == [i \in 1..n |-> Weight(t, i) * rows[i]]
             z == [i \in 1..n |-> rows[i] * ti(t, i) * (p \div Q[i])]
  <1>1. n \in Nat /\ DOMAIN Q = 1..n /\ p \in Nat \ {0} /\ t \in Int
    <2>1. n \in Nat /\ DOMAIN Q = 1..n /\ p \in Nat \ {0}
      BY FullRows
    <2>2. QED
      BY <2>1, PlainModulus
  <1>2. Fraction(t) = Sum(z) /\ Spread(Spreading, Q) = Sum(x) /\ Products(t) = Sum(y)
    BY <1>1 DEF Fraction, Spread, Products
  <1>3. /\ x = [i \in 1..n |-> x[i]] /\ z = [i \in 1..n |-> z[i]]
        /\ \A i \in 1..n : /\ x[i] = (rows[i] * barre[i]) * (p \div Q[i])
                           /\ z[i] = rows[i] * ti(t, i) * (p \div Q[i])
    BY DEF Spreading, Cofactor
  <1>4. IntRow(y, n) /\ \A i \in 1..n : y[i] = Weight(t, i) * rows[i]
    BY ProductsRow
  <1> HIDE DEF x, y, z
  <1>5. ASSUME NEW i \in 1..n
        PROVE  /\ x[i] \in Int /\ z[i] \in Nat /\ Splits(t * x[i], z[i], p, y[i])
               /\ \A k \in Nat : rows[i] <= k => z[i] <= k * p
    <2>1. LET c == p \div Q[i]
              s == rows[i] * ti(t, i) * c
          IN  /\ s \in Nat /\ (rows[i] * barre[i]) * c \in Int
              /\ Splits(t * ((rows[i] * barre[i]) * c), s, p, Weight(t, i) * rows[i])
              /\ \A k \in Nat : rows[i] <= k => s <= k * p
      BY FractionTerm
    <2> HIDE DEF p
    <2>2. QED
      BY <1>3, <1>4, <2>1
  <1> HIDE DEF p
  <1>6. IntRow(x, n) /\ IntRow(z, n)
    <2>1. \A i \in 1..n : x[i] \in Int /\ z[i] \in Int
      BY <1>5
    <2>2. IntRow(x, n)
      BY <1>1, <1>3, <2>1, RowOf
    <2>3. IntRow(z, n)
      BY <1>1, <1>3, <2>1, RowOf
    <2>4. QED
      BY <2>2, <2>3
  <1>7. Splits(t * Sum(x), Sum(z), p, Sum(y))
    <2>1. p \in Int /\ \A i \in 1..n : Splits(t * x[i], z[i], p, y[i])
      BY <1>1, <1>5
    <2>2. QED
      BY <1>1, <1>4, <1>6, <2>1, SumSplits, Zenon
  <1>8. Sum(x) \in Int /\ Sum(z) \in Int
    BY <1>1, <1>6, SumIsInt DEF IntRow
  <1>9. ASSUME NEW b, Top(b) PROVE R * Sum(z) <= (b * p) * Sum(Q)
    <2>1. b \in Nat /\ R \in Nat /\ b * p \in Int
      <3>1. b \in Nat /\ R \in Nat
        BY <1>9, RAssumption DEF Top
      <3>2. QED
        BY <1>1, <3>1
    <2>2. IntRow(Q, n)
      BY Rings, RnsAssumption, ModuliAreSound DEF IntRow, Basis, Sound
    <2>3. ASSUME NEW i \in 1..n PROVE R * z[i] <= (b * p) * Q[i]
      <3> DEFINE a == rows[i]
                 q == Q[i]
                 w == z[i]
      <3>1. a \in Nat /\ q \in Nat
        BY FullRows, RAssumption DEF Sound
      <3>2. w \in Nat /\ w <= a * p
        BY <1>5, <3>1
      <3>3. R * a <= q * b
        BY <1>9, RowsBelow
      <3> HIDE DEF a, q, w
      <3>4. R * w <= R * (a * p) /\ R * (a * p) = (R * a) * p
        BY <1>1, <2>1, <3>1, <3>2
      <3>5. (R * a) * p <= (q * b) * p /\ (q * b) * p = (b * p) * q
        <4> DEFINE l == R * a
                   m == q * b
        <4>1. l \in Int /\ m \in Int /\ l <= m
          BY <2>1, <3>1, <3>3
        <4> HIDE DEF l, m
        <4>2. l * p <= m * p
          BY <1>1, <4>1
        <4>3. (q * b) * p = (b * p) * q
          BY <1>1, <2>1, <3>1
        <4>4. QED
          BY <4>2, <4>3 DEF l, m
      <3>6. R * w \in Int /\ (R * a) * p \in Int /\ (b * p) * q \in Int
        <4>1. R * a \in Int
          BY <2>1, <3>1
        <4>2. QED
          BY <1>1, <2>1, <3>1, <3>2, <4>1
      <3>7. R * w <= (b * p) * q
        BY <3>4, <3>5, <3>6
      <3>8. QED
        BY <3>7 DEF w, q
    <2> DEFINE c == b * p
    <2> HIDE DEF c
    <2>4. c \in Int /\ R \in Int /\ \A i \in 1..n : R * z[i] <= c * Q[i]
      BY <2>1, <2>3 DEF c
    <2>5. R * Sum(z) <= c * Sum(Q)
      BY <1>6, <2>2, <2>4, SumBounded, Zenon
    <2>6. QED
      BY <2>5 DEF c
  <1>10. QED
    BY <1>2, <1>7, <1>8, <1>9 DEF p

\* The rounded number splits as the fractional part and half the product do.
LEMMA ScaledSplits ==
    ASSUME IInv, moduli = Q, NEW t \in T
    PROVE  \E g \in Int :
              LET s == Fraction(t) + qHalf
              IN  /\ Scaled(t) % Product(Q) = s % Product(Q) /\ s \in Int
                  /\ Scaled(t) \div Product(Q) = (s \div Product(Q)) + (Products(t) - (t * g))
  <1> DEFINE p == Product(Q)
             v == Value
             f == Fraction(t)
             w == Products(t)
             S == Spread(Spreading, Q)
             h == qHalf
             s == f + h
             k == s \div p
             r == s % p
  <1>1. p \in Nat \ {0} /\ h \in Int /\ v \in Int /\ t \in Int
    BY FullRows, ValueHere, PlainModulus
  <1>2. f \in Int /\ S \in Int /\ Splits(t * S, f, p, w) /\ w \in Int
    BY FractionIs, ProductsRow
  <1>3. Congruent(S, v, p)
    <2>1. Coprime(Q)
      BY RingBases, BasesAreCoprime
    <2>2. ASSUME NEW i \in 1..Len(Q)
          PROVE  Spreading[i] \in Nat /\ Congruent(Spreading[i], v * InverseOf(Q, i), Q[i])
      <3> DEFINE q == Q[i]
                 b == barre[i]
                 x == rows[i]
      <3>1. q \in Nat \ {0} /\ x \in Int /\ x \in Nat
        BY FullRows, RAssumption DEF Sound
      <3>2. Congruent(x, v, q)
        BY ValueHere DEF StandsFor
      <3>3. b = InverseOf(Q, i) /\ b \in Nat /\ b \in Int
        BY WeightIs
      <3>4. Spreading[i] = x * b
        BY DEF Spreading
      <3> HIDE DEF q, b, x
      <3>5. x * b \in Nat /\ Congruent(b, b, q)
        BY <3>1, <3>3 DEF Congruent
      <3>6. Congruent(x * b, v * b, q)
        BY <1>1, <3>1, <3>2, <3>3, <3>5, CongruentProduct, Zenon
      <3>7. QED
        BY <3>3, <3>4, <3>5, <3>6 DEF q
    <2> HIDE DEF v, S
    <2>3. S \in Int /\ Congruent(S, v, p)
      <3>1. \A i \in 1..Len(Q) : Spreading[i] \in Nat
        BY <2>2
      <3>2. \A i \in 1..Len(Q) : Congruent(Spreading[i], v * InverseOf(Q, i), Q[i])
        BY <2>2
      <3>3. QED
        BY <1>1, <2>1, <3>1, <3>2, SpreadIs, Zenon DEF S
    <2>4. QED
      BY <2>3
  <1>4. Scaled(t) = (t * v) + h
    BY DEF Scaled, qHalf
  <1> HIDE DEF p, v, f, w, S, h
  <1>5. PICK g \in Int : S - v = p * g
    <2>1. Multiple(S - v, p)
      BY <1>1, <1>2, <1>3, CongruentBy, Zenon
    <2>2. QED
      BY <2>1, Zenon DEF Multiple
  <1>6. s \in Int /\ k \in Int /\ r \in 0..(p - 1) /\ s = (p * k) + r
    <2>1. s \in Int
      BY <1>1, <1>2
    <2> HIDE DEF s
    <2>2. QED
      BY <1>1, <2>1, DivMod, Zenon
  <1> DEFINE d == k + (w - (t * g))
  <1>7. (t * v) + h = (p * d) + r /\ d \in Int
    <2>1. (t * S) - f = p * w
      BY <1>2 DEF Splits
    <2>2. v = S - (p * g)
      <3> DEFINE a == p * g
      <3>1. a \in Int /\ S - v = a
        BY <1>1, <1>5
      <3> HIDE DEF a
      <3>2. v = S - a
        BY <1>1, <1>2, <3>1
      <3>3. QED
        BY <3>2 DEF a
    <2>3. t * v = (t * S) - (p * (t * g))
      <3>1. t * (S - (p * g)) = (t * S) - (p * (t * g))
        BY <1>1, <1>2, <1>5
      <3>2. QED
        BY <2>2, <3>1
    <2>4. t * g \in Int /\ w - (t * g) \in Int /\ p * w \in Int /\ p * k \in Int /\ p * (t * g) \in Int /\ t * S \in Int
      <3>1. t * g \in Int
        BY <1>1, <1>5
      <3> DEFINE a == t * g
      <3> HIDE DEF a, k
      <3>2. a \in Int
        BY <3>1 DEF a
      <3>3. w - a \in Int /\ p * a \in Int /\ p * w \in Int /\ p * k \in Int /\ t * S \in Int
        BY <1>1, <1>2, <1>6, <3>2
      <3>4. QED
        BY <3>2, <3>3 DEF a
    <2> DEFINE a == t * g
    <2> HIDE DEF a, k, r
    <2>5. a \in Int /\ k \in Int
      BY <1>6, <2>4 DEF a
    <2>6. p * (k + (w - a)) = ((p * k) + (p * w)) - (p * a) /\ k + (w - a) \in Int
      BY <1>1, <1>2, <2>5
    <2> DEFINE pk == p * k
               pw == p * w
               pa == p * a
               tS == t * S
    <2>7. tS - f = pw /\ t * v = tS - pa /\ f + h = pk + r /\ pk \in Int /\ pw \in Int /\ pa \in Int /\ tS \in Int /\ r \in Int
      BY <1>6, <2>1, <2>3, <2>4 DEF a
    <2> HIDE DEF pk, pw, pa, tS
    <2>8. (t * v) + h = ((pk + pw) - pa) + r
      BY <1>1, <1>2, <2>7
    <2>9. QED
      BY <2>6, <2>8 DEF pk, pw, pa, a
  <1> HIDE DEF k, r, s, d
  <1>8. ((p * d) + r) \div p = d /\ ((p * d) + r) % p = r
    BY <1>1, <1>6, <1>7, DivModUnique, Zenon
  <1>9. Scaled(t) \div p = d /\ Scaled(t) % p = r
    BY <1>4, <1>7, <1>8
  <1>10. QED
    BY <1>5, <1>6, <1>9 DEF d, k, r, s, p, f, h, w

\* The integer part of a number near that sum, and the integer parts, fit a word.
LEMMA PartsFit ==
    ASSUME ModuliFit, IInv, moduli = Q, NEW t \in T, Odd(t),
           NEW e \in Nat, e <= (Fraction(t) + qHalf) + Slack(Product(Q))
    PROVE  (Len(Q) * (t - 1)) + (e \div Product(Q)) < R
  <1> DEFINE n == Len(Q)
             p == Product(Q)
             f == Fraction(t)
             h == qHalf
             k == e \div p
             l == Slack(p)
  <1>1. n \in Nat /\ n > 1 /\ l < p /\ l \in Nat /\ n \in 1..Len(Q) /\ Source(Q)
    BY RingBases, Rings DEF Source
  <1>2. p \in Nat \ {0} /\ h \in Int /\ \A i \in 1..n : Sound(Q[i]) /\ Q[i] \in Nat
    BY FullRows DEF Sound
  <1>3. h <= p
    BY <1>2 DEF qHalf
  <1>4. t \in Nat \ {0}
    BY PlainModulus
  <1>5. PICK q \in Moduli, g \in {Len(Q), Len(P)} : Top(2 * R + g * q)
    BY TopIs
  <1> DEFINE b == 2 * R + g * q
             S == Sum(Q)
  <1>6. b \in Nat /\ R * f <= (b * p) * S /\ S * b + (R * n) * t < R * R
    <2>1. b \in Nat
      BY <1>5 DEF Top
    <2>2. R * f <= (b * p) * S
      BY <1>5, FractionIs
    <2>3. S * b + (R * n) * t < R * R
      BY <1>5 DEF ModuliFit
    <2>4. QED
      BY <2>1, <2>2, <2>3
  <1>7. S \in Int /\ f \in Int /\ R \in Nat \ {0} /\ l \in Nat /\ l < p /\ h <= p
    <2>1. S \in Int
      BY <1>1, <1>2, SumIsInt
    <2>2. f \in Int
      BY FractionIs
    <2>3. QED
      BY <1>1, <1>3, <2>1, <2>2, RAssumption
  <1>8. e \in Nat /\ e <= (f + h) + l
    OBVIOUS
  <1> HIDE DEF n, p, f, h, b, S, l
  <1>9. R * e < p * ((S * b) + (2 * R))
    <2>1. e < f + (2 * p)
      BY <1>1, <1>2, <1>7, <1>8
    <2>2. R * e < R * (f + (2 * p)) /\ R * (f + (2 * p)) = (R * f) + (p * (2 * R))
      BY <1>2, <1>7, <1>8, <2>1
    <2>3. (b * p) * S = p * (S * b) /\ p * ((S * b) + (2 * R)) = (p * (S * b)) + (p * (2 * R))
      <3> DEFINE z == S * b
                 w == 2 * R
      <3>1. z \in Int /\ w \in Int
        BY <1>6, <1>7
      <3>2. (b * p) * S = p * z
        BY <1>2, <1>6, <1>7
      <3> HIDE DEF z, w
      <3>3. p * (z + w) = (p * z) + (p * w)
        BY <1>2, <3>1
      <3>4. QED
        BY <3>2, <3>3 DEF z, w
    <2> DEFINE u == R * f
               v == p * (2 * R)
               w == p * (S * b)
               y == R * e
    <2>4. u \in Int /\ v \in Int /\ w \in Int /\ y \in Int
      <3>1. S * b \in Int /\ 2 * R \in Int
        BY <1>6, <1>7
      <3>2. QED
        BY <1>2, <1>7, <1>8, <3>1
    <2>5. y < u + v /\ u <= w /\ p * ((S * b) + (2 * R)) = w + v
      BY <1>6, <2>2, <2>3
    <2> HIDE DEF u, v, w, y
    <2>6. y < w + v
      BY <2>4, <2>5
    <2>7. QED
      BY <2>5, <2>6 DEF y
  <1> DEFINE m == (S * b) + (2 * R)
  <1>10. k \in Nat /\ p * k <= e /\ m \in Int
    <2>1. e \in Int /\ k \in Int /\ e % p \in 0..(p - 1) /\ e = (p * k) + (e % p)
      <3>1. e \in Int
        BY <1>8
      <3>2. e \div p \in Int /\ e % p \in 0..(p - 1) /\ e = (p * (e \div p)) + (e % p)
        BY <1>2, <3>1, DivMod, Zenon
      <3>3. QED
        BY <3>1, <3>2
    <2>2. k >= 0
      BY <1>2, <1>8
    <2>3. p * k \in Int
      BY <1>2, <2>1
    <2>4. S * b \in Int /\ 2 * R \in Int
      BY <1>6, <1>7
    <2> DEFINE x == p * k
               y == e % p
    <2> HIDE DEF x, y
    <2>5. x <= e
      BY <1>2, <2>1, <2>3 DEF x, y
    <2>6. QED
      BY <2>1, <2>2, <2>4, <2>5 DEF x
  <1>11. R * k < m
    <2> HIDE DEF k, m
    <2>1. R * (p * k) <= R * e /\ R * (p * k) = p * (R * k)
      BY <1>2, <1>7, <1>8, <1>10
    <2>2. R * e < p * m
      BY <1>9 DEF m
    <2> DEFINE x == R * k
    <2>3. x \in Int /\ p * x \in Int /\ p * m \in Int /\ R * e \in Int
      <3>1. x \in Int
        BY <1>7, <1>10
      <3>2. QED
        BY <1>2, <1>7, <1>8, <1>10, <3>1
    <2>4. p * x < p * m
      BY <2>1, <2>2, <2>3
    <2> HIDE DEF x
    <2>5. x < m
      BY <1>2, <1>10, <2>3, <2>4
    <2>6. QED
      BY <2>5 DEF x
  <1> HIDE DEF k
  <1> DEFINE a == R * n
             x == (n * (t - 1)) + k
  <1>12. R * x = ((a * t) - a) + (R * k) /\ 2 * R <= a /\ a \in Int /\ x \in Int /\ a * t \in Int
    <2>1. n * (t - 1) \in Int /\ a \in Int /\ 2 * R <= a
      BY <1>1, <1>4, <1>7
    <2>2. R * (n * (t - 1)) = (a * t) - a
      BY <1>1, <1>4, <1>7
    <2> DEFINE y == n * (t - 1)
    <2> HIDE DEF y
    <2>3. y \in Int /\ R * (y + k) = (R * y) + (R * k)
      BY <1>7, <1>10, <2>1 DEF y
    <2>4. R * (y + k) = ((a * t) - a) + (R * k)
      BY <2>2, <2>3 DEF y
    <2>5. y + k \in Int
      BY <1>10, <2>3
    <2>6. a * t \in Int
      BY <1>4, <2>1
    <2>7. QED
      BY <2>1, <2>4, <2>5, <2>6 DEF y
  <1>13. R * x < R * R
    <2> DEFINE u == R * k
               v == S * b
               w == a * t
               y == R * x
               z == R * R
    <2>1. v + w < z
      BY <1>6
    <2>2. u < v + 2 * R /\ y = (w - a) + u /\ 2 * R <= a
      BY <1>11, <1>12
    <2>3. u \in Int /\ v \in Int /\ w \in Int /\ y \in Int /\ z \in Int
      BY <1>6, <1>7, <1>10, <1>12
    <2> HIDE DEF u, v, w, y, z, a, x
    <2>4. y < z
      BY <1>7, <1>12, <2>1, <2>2, <2>3
    <2>5. QED
      BY <2>4 DEF y, z
  <1> HIDE DEF x
  <1>14. x < R
    BY <1>7, <1>12, <1>13
  <1>15. QED
    BY <1>14 DEF x, k, n, p

\* Scaling in floating point: the integer and the fractional parts apart.
LEMMA PartsScale ==
    ASSUME ModuliFit, IInv, moduli = Q, NEW t \in T,
           NEW e \in ((Fraction(t) + qHalf) - Slack(Product(Q)))..((Fraction(t) + qHalf) + Slack(Product(Q))),
           e >= 0
    PROVE  LET r == reducealgoAdd(t, Wrap(Wrap(Whole(t)) + (e \div Product(Q))))
           IN  /\ r \in Int
               /\ \E c \in Integers!Misread(Scaled(t) % Product(Q), Product(Q)) :
                     Congruent(r, (Scaled(t) \div Product(Q)) - c, t)
  <1> DEFINE p == Product(Q)
             s == Fraction(t) + qHalf
             k == e \div p
             a == Whole(t)
             w == Products(t)
             X == Scaled(t)
             d == X \div p
             l == s \div p
             off == Slack(p)
  <1>1. p \in Nat \ {0} /\ off \in Nat /\ off < p
    BY FullRows, RingBases DEF Source
  <1>2. t \in Nat \ {0} /\ 2 * t <= R /\ bredParams[t] = BRedParams(t) /\ R \in Nat /\ Len(Q) \in Nat
    BY PlainModulus, RAssumption, Rings DEF Basis
  <1>3. PICK g \in Int : X % p = s % p /\ s \in Int /\ d = l + (w - (t * g))
    BY ScaledSplits
  <1>4. w \in Int /\ a \in 0..(Len(Q) * (t - 1)) /\ Congruent(a, w, t)
    BY ProductsRow, WholeIs
  <1>5. e \in Nat /\ e <= s + off
    BY <1>1, <1>3
  <1>6. Odd(t) => (Len(Q) * (t - 1)) + k < R
    BY <1>5, PartsFit
  <1>7. PICK c \in Integers!Misread(s % p, p) : k = l - c
    <2> HIDE DEF p, s
    <2>1. e \in (s - Slack(p))..(s + Slack(p))
      BY DEF s, p
    <2>2. QED
      BY <1>1, <1>3, <2>1, FloorNear, Zenon
  <1>8. c \in Int
    BY DEF Integers!Misread
  <1>9. k \in Nat /\ l \in Int /\ Len(Q) * (t - 1) \in Nat
    <2>1. k \in Nat
      <3> HIDE DEF p, s, off
      <3>1. e \in Nat /\ e \in Int /\ p \in Nat \ {0}
        BY <1>1, <1>5
      <3>2. e \div p \in Int /\ (e >= 0 => e \div p >= 0)
        BY <3>1, DivMod, Zenon
      <3> DEFINE u == e \div p
      <3>3. u \in Int /\ u >= 0
        BY <3>1, <3>2
      <3> HIDE DEF u
      <3>4. u \in Nat
        BY <3>3
      <3>5. QED
        BY <3>4 DEF u
    <2>2. l \in Int
      BY <1>1, <1>3, DivMod
    <2>3. Len(Q) * (t - 1) \in Nat
      BY <1>2
    <2>4. QED
      BY <2>1, <2>2, <2>3
  <1> HIDE DEF p, s, k, a, w, X, d, l, off
  <1>10. a \in Nat /\ a \in Int /\ a <= Len(Q) * (t - 1) /\ (Odd(t) => a < R)
    <2> DEFINE m == Len(Q) * (t - 1)
    <2>1. m \in Nat /\ a \in 0..m /\ (Odd(t) => m + k < R)
      BY <1>4, <1>6, <1>9
    <2> HIDE DEF m
    <2>2. a \in Nat /\ a \in Int /\ a <= m /\ (Odd(t) => a < R)
      BY <1>2, <1>9, <2>1
    <2>3. QED
      BY <2>2 DEF m
  <1> DEFINE b == Wrap(a)
             z == b + k
             y == Wrap(z)
  <1>11. b \in 0..(R - 1) /\ Congruent(b, a, t)
    BY <1>10, WrapKeeps
  <1>12. Odd(t) => b = a
    <2>1. ASSUME Odd(t) PROVE b = a
      <3>1. a \in 0..(R - 1)
        BY <1>2, <1>10, <2>1
      <3>2. QED
        BY <1>10, <3>1, WrapRange
    <2>2. QED
      BY <2>1
  <1> HIDE DEF b
  <1>13. z \in Nat /\ b \in Int /\ (Odd(t) => z < R)
    <2> DEFINE m == Len(Q) * (t - 1)
    <2>1. m \in Nat /\ a <= m /\ (Odd(t) => m + k < R)
      BY <1>6, <1>9, <1>10
    <2> HIDE DEF m
    <2>2. b \in Nat
      BY <1>2, <1>11
    <2>3. Odd(t) => b + k < R
      BY <1>2, <1>9, <1>10, <1>12, <2>1
    <2>4. QED
      BY <1>9, <2>2, <2>3
  <1> HIDE DEF z
  <1>14. y \in 0..(R - 1) /\ Congruent(y, z, t)
    BY <1>13, WrapKeeps
  <1> HIDE DEF y
  <1>15. reducealgoAdd(t, y) = y % t /\ y \in Int /\ y % t \in Int
    <2>1. y \in Int
      BY <1>2, <1>14
    <2>2. BRedAdd(y, t, bredParams[t]) = y % t
      BY <1>2, <1>14, BarrettReduction
    <2>3. reducealgoAdd(t, y) = y % t
      BY <2>2 DEF reducealgoAdd
    <2>4. y % t \in Int
      BY <1>2, <2>1
    <2>5. QED
      BY <2>1, <2>3, <2>4
  <1>16. Congruent(y % t, z, t)
    <2>1. Congruent(y % t, y, t)
      BY <1>2, <1>15, CongruentIs, Zenon
    <2>2. QED
      BY <1>14, <2>1, CongruentVia, Zenon
  <1>17. Congruent(z, d - c, t)
    <2>1. Congruent(b, w, t)
      BY <1>4, <1>11, CongruentVia, Zenon
    <2>2. Congruent(k, k, t) /\ k \in Int
      BY <1>9 DEF Congruent
    <2>3. Congruent(b + k, w + k, t)
      BY <1>2, <1>4, <1>13, <2>1, <2>2, CongruentSum, Zenon
    <2> DEFINE u == w + k
               v == d - c
    <2>4. u - v = t * g /\ u \in Int /\ v \in Int
      <3>1. t * g \in Int
        BY <1>2, <1>3
      <3> DEFINE tg == t * g
      <3> HIDE DEF tg
      <3>2. tg \in Int /\ d = l + (w - tg)
        BY <1>3, <3>1 DEF tg
      <3>3. u - v = tg /\ u \in Int /\ v \in Int
        BY <1>4, <1>7, <1>8, <1>9, <3>2
      <3>4. QED
        BY <3>3 DEF tg
    <2> HIDE DEF u, v
    <2>5. Multiple(u - v, t)
      BY <1>3, <2>4, Zenon DEF Multiple
    <2>6. Congruent(u, v, t)
      BY <1>2, <2>4, <2>5, CongruentBy, Zenon
    <2>7. QED
      BY <2>3, <2>6, CongruentVia, Zenon DEF u, v, z
  <1>18. Congruent(y % t, d - c, t)
    BY <1>16, <1>17, CongruentVia, Zenon
  <1>19. c \in Integers!Misread(X % p, p)
    BY <1>3, <1>7
  <1>20. QED
    BY <1>15, <1>18, <1>19 DEF y, z, b, k, a, d, X, p

\* The action picks its number within the error of the sum.
LEMMA reconstructAndScaleMoves == FullyExtended /\ IInv /\ reconstructAndScale => Integers!Next
  <1>1. SUFFICES ASSUME FullyExtended, IInv, reconstructAndScale PROVE Integers!Next
    OBVIOUS
  <1> DEFINE p == Product(Q)
             term(t) == [i \in DOMAIN Q |-> reducealgoMul(t, wi(t, i), rows[i])]
             part(t) == [i \in DOMAIN Q |-> rows[i] * ti(t, i) * (p \div Q[i])]
             a(t) == Wrap(Sum(term(t)))
             sum(t) == Sum(part(t))
             s(t) == sum(t) + qHalf
             l == Slack(p)
             z(t, e) == reducealgoAdd(t, Wrap(a(t) + (e \div p)))
  <1>2. PICK t \in T :
            /\ moduli = Q
            /\ \E e \in (sum(t) + qHalf - l)..(sum(t) + qHalf + l) :
                   /\ e >= 0
                   /\ Become(<< "Scale" >>, << t >>, << reducealgoAdd(t, Wrap(a(t) + (e \div p))) >>)
    BY <1>1, Zenon DEF reconstructAndScale
  <1>3. PICK e \in (sum(t) + qHalf - l)..(sum(t) + qHalf + l) :
            /\ e >= 0
            /\ Become(<< "Scale" >>, << t >>, << reducealgoAdd(t, Wrap(a(t) + (e \div p))) >>)
    BY <1>2
  <1>4. sum(t) \in Int /\ qHalf \in Int /\ l \in Nat
    <2>1. Fraction(t) \in Int /\ qHalf \in Int
      BY <1>1, <1>2, FractionIs, FullRows
    <2>2. Fraction(t) = Sum(part(t))
      BY DEF Fraction
    <2>3. l \in Nat
      BY RingBases DEF Source
    <2>4. QED
      BY <2>1, <2>2, <2>3
  <1>5. e \in (s(t) - l)..(s(t) + l)
    <2> DEFINE x == sum(t)
    <2>1. x \in Int /\ x = sum(t)
      BY <1>4
    <2> HIDE DEF x, sum, l
    <2>2. QED
      BY <1>4, <2>1
  <1>6. /\ z(t, e) \in Int
        /\ \E c \in Integers!Misread(Scaled(t) % p, p) : Congruent(z(t, e), (Scaled(t) \div p) - c, t)
    <2>1. Fraction(t) = Sum(part(t)) /\ Whole(t) = Sum(term(t))
      BY DEF Fraction, Whole
    <2> HIDE DEF part, term
    <2>2. QED
      BY <1>1, <1>2, <1>3, <1>5, <2>1, PartsScale DEF FullyExtended
  <1>7. PICK c \in Integers!Misread(Scaled(t) % p, p) : Congruent(z(t, e), (Scaled(t) \div p) - c, t)
    BY <1>6
  <1>8. (Scaled(t) \div p) - c \in Int
    <2>1. Scaled(t) \div p \in Int /\ c \in Int
      BY <1>1, <1>2, ScaledIs DEF Integers!Misread
    <2> DEFINE x == Scaled(t) \div p
    <2> HIDE DEF x
    <2>2. x - c \in Int
      BY <2>1 DEF x
    <2>3. QED
      BY <2>2 DEF x
  <1>9. Become(<< "Scale" >>, << t >>, << z(t, e) >>)
    BY <1>3
  <1> HIDE DEF z
  <1>10. StandsFor(<< z(t, e) >>, << t >>, (Scaled(t) \div p) - c)
    BY <1>6, <1>7, <1>8, OneStands, Zenon
  <1>11. p = Product(moduli)
    BY <1>2
  <1> HIDE DEF p
  <1>12. QED
    BY <1>7, <1>9, <1>10, <1>11, ScaleMoves, Zenon

-----------------------------------------------------------------------------
(* The refinement *)

\* The rows start as the residues of an integer, whatever it is.
LEMMA StartsAsIntegers == Init => Integers!Init
  <1>1. SUFFICES ASSUME Init PROVE Integers!Init
    OBVIOUS
  <1>2. IInv /\ op = << "Init" >>
    BY <1>1, InitFits DEF Init
  <1>3. moduli \in Bases /\ Value \in 0..(Product(moduli) - 1)
    BY <1>2, ValueHere
  <1>4. Integers!M = Product(moduli)
    BY ProductsAgree DEF Integers!M
  <1>5. QED
    BY <1>2, <1>3, <1>4 DEF Integers!Init, Value

\* Every step is one of Scaling's, or leaves the integer alone.
LEMMA StepMoves ==
    FullyExtended /\ IInv /\ [Next]_vars => [Integers!Next]_<< Value, moduli, op >>
  <1>1. SUFFICES ASSUME FullyExtended, IInv, [Next]_vars
                 PROVE  Integers!Next \/ UNCHANGED << Value, moduli, op >>
    OBVIOUS
  <1>2. CASE Reduce
    BY <1>1, <1>2, ReduceKeeps
  <1>3. CASE ModUpSplitQP
    BY <1>1, <1>3, ModUpSplitQPMoves
  <1>4. CASE ModUpSplitPQ
    BY <1>1, <1>4, ModUpSplitPQMoves
  <1>5. CASE ModDownPQ
    BY <1>1, <1>5, ModDownPQMoves
  <1>6. CASE ModDownNTTPQ
    BY <1>1, <1>6, ModDownNTTPQMoves
  <1>7. CASE ModDownSplitQP
    BY <1>1, <1>7, ModDownSplitQPMoves
  <1>8. CASE DivFloorByLastModulusMany
    BY <1>1, <1>8, DivFloorManyMoves
  <1>9. CASE DivRoundByLastModulusMany
    BY <1>1, <1>9, DivRoundManyMoves
  <1>10. CASE DivFloorByLastModulusNTT
    BY <1>1, <1>10, DivFloorNTTStepMoves
  <1>11. CASE DivRoundByLastModulusNTT
    BY <1>1, <1>11, DivRoundNTTStepMoves
  <1>12. CASE DecomposeAndSplit
    BY <1>1, <1>12, DecomposeAndSplitMoves
  <1>13. CASE DivByQOverTRounded
    BY <1>1, <1>13, DivByQOverTRoundedMoves
  <1>14. CASE reconstructThenScale
    BY <1>1, <1>14, reconstructThenScaleMoves
  <1>15. CASE reconstructAndScale
    BY <1>1, <1>15, reconstructAndScaleMoves
  <1>16. CASE UNCHANGED vars
    BY <1>16 DEF vars, Value
  <1>17. CASE LeaveLazy
    BY <1>1, <1>17, LeaveLazyKeeps
  <1>18. QED
    BY <1>1, <1>2, <1>3, <1>4, <1>5, <1>6, <1>7, <1>8, <1>9, <1>10, <1>11, <1>12, <1>13,
       <1>14, <1>15, <1>16, <1>17 DEF Next

\* Whatever extensions, digits, divisions and scalings follow one another, each
\* moves the integer behind the rows as module Scaling says: the word-size steps
\* lose nothing, and the floating-point sums misread only an integer within
\* their error of a multiple of its modulus.  Extending a polynomial of fewer
\* rows than the ring has is left out: the tables of ModUpSplitQP are for all.
THEOREM MovesTheInteger ==
    ASSUME ModuliFit, ExtendedLevels \subseteq {Len(Q)}
    PROVE  Spec => ImplementsScaling
  <1>1. Init => IInv /\ Integers!Init
    BY InitFits, StartsAsIntegers
  <1>2. IInv /\ [Next]_vars => IInv' /\ [Integers!Next]_<< Value, moduli, op >>
    <2>1. FullyExtended
      BY DEF FullyExtended
    <2>2. QED
      BY <2>1, StepFits, StepMoves
  <1>3. QED
    BY <1>1, <1>2, PTL DEF Spec, ImplementsScaling, Integers!Spec, Integers!vars, Value
=============================================================================
