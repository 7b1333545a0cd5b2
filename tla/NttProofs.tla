------------------------------ MODULE NttProofs ------------------------------
(* The transforms never overflow a word, for every degree, modulus, word size *)
(* and tables: the inductive invariant is TypeOK and RoundsFit, and the exact  *)
(* transforms end with residues below Q.  And they compute what they are for,  *)
(* from the tables genNTTParams makes: the rounds keep the values that blocks  *)
(* of coefficients have at powers of the root.                                *)
EXTENDS Ntt, WordsProofs

-----------------------------------------------------------------------------
(* Rounds and blocks *)

\* A round's blocks of 2t coefficients fill the row: of a pair both are in it,
\* and so is the factor of every block.
LEMMA PairsInRow ==
    ASSUME NEW tt \in Nat \ {0}, NEW mm \in Nat \ {0}, N = 2 * (mm * tt), NEW j \in Coefs
    PROVE  /\ (j \div tt) % 2 = 0 => j + tt \in Coefs
           /\ (j \div tt) % 2 # 0 => j - tt \in Coefs
           /\ mm + (j \div (2 * tt)) \in Coefs
  <1> DEFINE a == j \div tt
             i == j \div (2 * tt)
  <1>1. j \in Nat /\ j < N /\ N \in Nat
    BY DEF Coefs
  <1>2. a \in Nat /\ tt * a <= j /\ j < tt * (a + 1)
    BY <1>1, DivNat
  <1>3. i \in Nat /\ (2 * tt) * i <= j
    <2> DEFINE b == 2 * tt
    <2>1. b \in Nat \ {0}
      OBVIOUS
    <2> HIDE DEF b
    <2>2. j \div b \in Nat /\ b * (j \div b) <= j
      BY <2>1, <1>1, DivNat
    <2>3. QED
      BY <2>2 DEF b
  <1> HIDE DEF a, i
  <1>4. a < 2 * mm
    <2>1. tt * a < tt * (2 * mm)
      BY <1>1, <1>2
    <2>2. ASSUME a >= 2 * mm PROVE FALSE
      BY <1>2, <2>1, <2>2
    <2>3. QED
      BY <1>2, <2>2
  <1>5. i < mm
    <2>1. (2 * tt) * i < (2 * tt) * mm
      BY <1>1, <1>3
    <2>2. ASSUME i >= mm PROVE FALSE
      BY <1>3, <2>1, <2>2
    <2>3. QED
      BY <1>3, <2>2
  <1>6. ASSUME a % 2 = 0 PROVE j + tt \in Coefs
    <2>1. a + 1 < 2 * mm
      BY <1>2, <1>4, <1>6
    <2>2. tt * (a + 2) <= tt * (2 * mm)
      BY <1>2, <2>1
    <2>3. j + tt < N
      BY <1>1, <1>2, <2>2
    <2>4. QED
      BY <1>1, <2>3 DEF Coefs
  <1>7. ASSUME a % 2 # 0 PROVE j - tt \in Coefs
    <2>1. a >= 1
      BY <1>2, <1>7
    <2>2. tt <= j
      BY <1>1, <1>2, <2>1
    <2>3. QED
      BY <1>1, <2>2 DEF Coefs
  <1>8. mm + i \in Coefs
    <2>1. mm + i < 2 * mm
      BY <1>3, <1>5
    <2>2. 2 * mm <= N
      OBVIOUS
    <2>3. QED
      BY <1>1, <1>3, <2>1, <2>2 DEF Coefs
  <1>9. QED
    BY <1>6, <1>7, <1>8 DEF a, i

\* A round whose pairs go from 0..lo to 0..hi takes a row there.
LEMMA RowOfPairs ==
    ASSUME NEW table \in [Coefs -> 0..(Q - 1)], NEW reduce \in BOOLEAN,
           k \in 0..(LogN - 1), NEW lo \in Nat, NEW hi \in Nat,
           p \in [Coefs -> 0..lo],
           \A U, V \in 0..lo, F \in 0..(Q - 1) :
               PairOf(U, V, F, reduce)[1] \in 0..hi /\ PairOf(U, V, F, reduce)[2] \in 0..hi
    PROVE  EachPair(table, reduce) \in [Coefs -> 0..hi]
  <1>1. Round \in 0..(LogN - 1)
    BY NttAssumption DEF Round
  <1>2. t \in Nat \ {0} /\ m \in Nat \ {0} /\ N = 2 * (m * t)
    BY <1>1, PowersAssumption DEF t, m
  <1>3. SUFFICES ASSUME NEW j \in Coefs
                 PROVE  EachPair(table, reduce)[j] \in 0..hi
    BY DEF EachPair
  <1>4. /\ (j \div t) % 2 = 0 => j + t \in Coefs
        /\ (j \div t) % 2 # 0 => j - t \in Coefs
        /\ m + (j \div (2 * t)) \in Coefs
    BY <1>2, PairsInRow
  <1> DEFINE F == table[m + j \div (2 * t)]
  <1>5. F \in 0..(Q - 1)
    BY <1>4
  <1>6. EachPair(table, reduce)[j] =
            IF (j \div t) % 2 = 0 THEN PairOf(p[j], p[j + t], F, reduce)[1]
            ELSE PairOf(p[j - t], p[j], F, reduce)[2]
    BY DEF EachPair
  <1> HIDE DEF F
  <1>7. CASE (j \div t) % 2 = 0
    <2>1. p[j] \in 0..lo /\ p[j + t] \in 0..lo
      BY <1>4, <1>7
    <2>2. QED
      BY <1>5, <1>6, <1>7, <2>1
  <1>8. CASE (j \div t) % 2 # 0
    <2>1. p[j - t] \in 0..lo /\ p[j] \in 0..lo
      BY <1>4, <1>8
    <2>2. QED
      BY <1>5, <1>6, <1>8, <2>1
  <1>9. QED
    BY <1>7, <1>8

-----------------------------------------------------------------------------
(* Pairs *)

\* The product in a Montgomery butterfly.
LEMMA Twiddle ==
    ASSUME NEW V \in 0..((8 * Q) - 1), NEW F \in 0..(Q - 1)
    PROVE  MRedConstant(V, F, Q, QInv) \in 1..((2 * Q) - 1)
  <1>1. /\ Q \in Nat \ {0} /\ 2 * Q <= R /\ QInv \in Nat /\ R \in Nat
        /\ V \in Nat /\ V < R /\ F \in Nat /\ F < Q
    BY NttAssumption, RAssumption DEF Word
  <1>2. F * V < Q * R /\ F * V = V * F
    BY <1>1, ProductBelow
  <1>3. QED
    BY <1>1, <1>2, MRedConstantRange

\* The one in a Barrett butterfly.
LEMMA TwiddleBarrett ==
    ASSUME NEW V \in 0..((8 * Q) - 1), NEW F \in 0..(Q - 1)
    PROVE  BRedConstant(V, F, Q, BredQ) \in 0..((2 * Q) - 1)
  <1>1. /\ Q \in Nat \ {0} /\ 2 * Q <= R /\ BredQ = BRedParams(Q)
        /\ V \in 0..(R - 1) /\ F \in 0..(R - 1)
    BY NttAssumption, RAssumption
  <1>2. QED
    BY <1>1, BRedConstantRange

\* A butterfly adds at most 2Q, to a coefficient brought below 4Q if asked.
LEMMA ForwardPair ==
    ASSUME fn \in Forward, NEW reduce \in BOOLEAN,
           NEW lo \in Nat, NEW hi \in Nat, lo < 8 * Q, hi < 8 * Q,
           IF reduce THEN hi = (6 * Q) - 1 ELSE hi = lo + (2 * Q)
    PROVE  \A U, V \in 0..lo, F \in 0..(Q - 1) :
               PairOf(U, V, F, reduce)[1] \in 0..hi /\ PairOf(U, V, F, reduce)[2] \in 0..hi
  <1>1. SUFFICES ASSUME NEW U \in 0..lo, NEW V \in 0..lo, NEW F \in 0..(Q - 1)
                 PROVE  /\ PairOf(U, V, F, reduce)[1] \in 0..hi
                        /\ PairOf(U, V, F, reduce)[2] \in 0..hi
    OBVIOUS
  <1> DEFINE X == IF reduce THEN Less(U, 4 * Q) ELSE U
             Y == MRedConstant(V, F, Q, QInv)
  <1>2. Q \in Nat \ {0} /\ 8 * Q <= R /\ R \in Nat
    BY NttAssumption, RAssumption
  <1>3. V \in 0..((8 * Q) - 1)
    BY <1>2
  <1>4. Y \in 1..((2 * Q) - 1)
    BY <1>3, Twiddle
  <1>5. X \in Nat /\ X + (2 * Q) <= hi + (IF reduce THEN 1 ELSE 0)
    BY <1>2 DEF Less
  <1>6. PairOf(U, V, F, reduce) = << Wrap(X + Y), Wrap(X + 2 * Q - Y) >>
    BY DEF PairOf, butterfly, Forward, Inverse
  <1> HIDE DEF X, Y
  <1>7. X + Y \in 0..hi /\ X + 2 * Q - Y \in 0..hi
    BY <1>2, <1>4, <1>5
  <1>8. X + Y \in 0..(R - 1) /\ X + 2 * Q - Y \in 0..(R - 1)
    BY <1>2, <1>7
  <1>9. Wrap(X + Y) = X + Y /\ Wrap(X + 2 * Q - Y) = X + 2 * Q - Y
    BY <1>8, WrapRange
  <1>10. QED
    BY <1>6, <1>7, <1>9

\* An inverse butterfly keeps both below 2Q.
LEMMA InversePair ==
    ASSUME fn \in Inverse, NEW reduce \in BOOLEAN
    PROVE  \A U, V \in 0..((2 * Q) - 1), F \in 0..(Q - 1) :
               /\ PairOf(U, V, F, reduce)[1] \in 0..((2 * Q) - 1)
               /\ PairOf(U, V, F, reduce)[2] \in 0..((2 * Q) - 1)
  <1>1. SUFFICES ASSUME NEW U \in 0..((2 * Q) - 1), NEW V \in 0..((2 * Q) - 1), NEW F \in 0..(Q - 1)
                 PROVE  /\ PairOf(U, V, F, reduce)[1] \in 0..((2 * Q) - 1)
                        /\ PairOf(U, V, F, reduce)[2] \in 0..((2 * Q) - 1)
    OBVIOUS
  <1>2. Q \in Nat \ {0} /\ 8 * Q <= R /\ R \in Nat
    BY NttAssumption, RAssumption
  <1>3. U + V \in 0..(R - 1) /\ U + 4 * Q - V \in 0..(R - 1)
    BY <1>2
  <1>4. Wrap(U + V) = U + V /\ Wrap(U + 4 * Q - V) = U + 4 * Q - V
    BY <1>3, WrapRange
  <1>5. Less(U + V, 2 * Q) \in 0..((2 * Q) - 1)
    BY <1>2 DEF Less
  <1>6. U + 4 * Q - V \in 0..((8 * Q) - 1)
    BY <1>2
  <1>7. MRedConstant(U + 4 * Q - V, F, Q, QInv) \in 0..((2 * Q) - 1)
    BY <1>6, <1>2, Twiddle
  <1>8. PairOf(U, V, F, reduce)
            = << Less(Wrap(U + V), 2 * Q), MRedConstant(Wrap(U + 4 * Q - V), F, Q, QInv) >>
    BY DEF PairOf, invbutterfly, Forward, Inverse
  <1>9. QED
    BY <1>4, <1>5, <1>7, <1>8

\* The Barrett butterflies keep to 4Q and 2Q.
LEMMA BarrettPair ==
    ASSUME fn = "NTTBarrett", NEW reduce \in BOOLEAN
    PROVE  \A U, V \in 0..(4 * Q), F \in 0..(Q - 1) :
               /\ PairOf(U, V, F, reduce)[1] \in 0..(4 * Q)
               /\ PairOf(U, V, F, reduce)[2] \in 0..(4 * Q)
  <1>1. SUFFICES ASSUME NEW U \in 0..(4 * Q), NEW V \in 0..(4 * Q), NEW F \in 0..(Q - 1)
                 PROVE  /\ PairOf(U, V, F, reduce)[1] \in 0..(4 * Q)
                        /\ PairOf(U, V, F, reduce)[2] \in 0..(4 * Q)
    OBVIOUS
  <1> DEFINE X == IF U > 2 * Q THEN U - 2 * Q ELSE U
             Y == BRedConstant(V, F, Q, BredQ)
  <1>2. Q \in Nat \ {0} /\ 8 * Q <= R /\ R \in Nat
    BY NttAssumption, RAssumption
  <1>3. V \in 0..((8 * Q) - 1)
    BY <1>2
  <1>4. Y \in 0..((2 * Q) - 1)
    BY <1>3, TwiddleBarrett
  <1>5. X \in 0..(2 * Q)
    BY <1>2
  <1>6. PairOf(U, V, F, reduce) = << Wrap(X + Y), Wrap(X + 2 * Q - Y) >>
    BY DEF PairOf, butterflyBarrett, Forward, Inverse
  <1> HIDE DEF X, Y
  <1>7. X + Y \in 0..(4 * Q) /\ X + 2 * Q - Y \in 0..(4 * Q)
    BY <1>2, <1>4, <1>5
  <1>8. X + Y \in 0..(R - 1) /\ X + 2 * Q - Y \in 0..(R - 1)
    BY <1>2, <1>7
  <1>9. Wrap(X + Y) = X + Y /\ Wrap(X + 2 * Q - Y) = X + 2 * Q - Y
    BY <1>8, WrapRange
  <1>10. QED
    BY <1>6, <1>7, <1>9

LEMMA InverseBarrettPair ==
    ASSUME fn = "InvNTTBarrett", NEW reduce \in BOOLEAN
    PROVE  \A U, V \in 0..(2 * Q), F \in 0..(Q - 1) :
               /\ PairOf(U, V, F, reduce)[1] \in 0..(2 * Q)
               /\ PairOf(U, V, F, reduce)[2] \in 0..(2 * Q)
  <1>1. SUFFICES ASSUME NEW U \in 0..(2 * Q), NEW V \in 0..(2 * Q), NEW F \in 0..(Q - 1)
                 PROVE  /\ PairOf(U, V, F, reduce)[1] \in 0..(2 * Q)
                        /\ PairOf(U, V, F, reduce)[2] \in 0..(2 * Q)
    OBVIOUS
  <1>2. Q \in Nat \ {0} /\ 8 * Q <= R /\ R \in Nat
    BY NttAssumption, RAssumption
  <1>3. U + V \in 0..(R - 1) /\ U + 2 * Q - V \in 0..(R - 1)
    BY <1>2
  <1>4. Wrap(U + V) = U + V /\ Wrap(U + 2 * Q - V) = U + 2 * Q - V
    BY <1>3, WrapRange
  <1>5. (IF U + V > 2 * Q THEN (U + V) - 2 * Q ELSE U + V) \in 0..(2 * Q)
    BY <1>2
  <1>6. U + 2 * Q - V \in 0..((8 * Q) - 1)
    BY <1>2
  <1>7. BRedConstant(U + 2 * Q - V, F, Q, BredQ) \in 0..(2 * Q)
    BY <1>6, <1>2, TwiddleBarrett
  <1>8. PairOf(U, V, F, reduce)
            = << IF Wrap(U + V) > 2 * Q THEN Wrap(U + V) - 2 * Q ELSE Wrap(U + V),
                 BRedConstant(Wrap(U + 2 * Q - V), F, Q, BredQ) >>
    BY DEF PairOf, invbutterflyBarrett, Forward, Inverse
  <1>9. QED
    BY <1>4, <1>5, <1>7, <1>8

-----------------------------------------------------------------------------
(* The invariant *)

\* The rows of a state stay within the bounds of its round.
NttInv == TypeOK /\ RoundsFit

LEMMA InitInv == Init => NttInv
  <1>1. SUFFICES ASSUME Init PROVE NttInv
    OBVIOUS
  <1>2. Q \in Nat \ {0} /\ 8 * Q <= R /\ R \in Nat /\ LogN \in Nat
    BY NttAssumption, RAssumption
  <1>3. p \in [Coefs -> 0..((4 * Q) - 1)] /\ p = source
    BY <1>1, NttAssumption DEF Init
  <1>4. \A j \in Coefs : p[j] \in 0..((4 * Q) - 1) /\ p[j] \in Word
    BY <1>2, <1>3 DEF Word
  <1>5. TypeOK
    BY <1>1, <1>2, <1>3, <1>4 DEF Init, TypeOK
  <1>6. RoundsFit
    <2>1. k = 0 /\ ForwardTop = 4 * Q
      BY <1>1 DEF Init, ForwardTop
    <2>2. fn \notin Forward => \A j \in Coefs : p[j] < 2 * Q
      BY <1>1, <1>3 DEF Init
    <2>3. SUFFICES ASSUME NEW j \in Coefs
                   PROVE  /\ fn \in Forward => p[j] < ForwardTop
                          /\ fn \in Inverse => p[j] < 2 * Q
                          /\ fn = "NTTBarrett" => p[j] <= 4 * Q
                          /\ fn = "InvNTTBarrett" => p[j] <= 2 * Q
      BY DEF RoundsFit
    <2>4. p[j] \in 0..((4 * Q) - 1)
      BY <1>4
    <2>5. QED
      BY <1>2, <2>1, <2>2, <2>4 DEF Forward, Inverse
  <1>7. QED
    BY <1>5, <1>6 DEF NttInv

\* What a step leaves of the types, when its row fits into words.
LEMMA StepTyped ==
    ASSUME TypeOK, NEW hi \in Nat, hi < R, NEW row \in [Coefs -> 0..hi],
           DoRound(row), k \in 0..LogN
    PROVE  /\ TypeOK' /\ fn' = fn /\ k' = k + 1
           /\ p' \in [Coefs -> 0..hi]
           /\ \A j \in Coefs : p'[j] \in 0..hi
  <1>1. R \in Nat /\ LogN \in Nat
    BY RAssumption, NttAssumption
  <1>2. p' = row /\ k' = k + 1 /\ fn' = fn /\ source' = source
    BY DEF DoRound
  <1>3. row \in [Coefs -> Word]
    BY <1>1 DEF Word
  <1>4. QED
    BY <1>1, <1>2, <1>3 DEF TypeOK

\* A forward round from coefficients below lo + 1 to coefficients below hi + 1.
LEMMA ForwardBounds ==
    ASSUME NttInv, NEW reduce \in BOOLEAN, ForwardRound(reduce),
           k \in 0..(LogN - 1), NEW lo \in Nat, NEW hi \in Nat, ForwardTop = lo + 1,
           lo < 8 * Q, hi < 8 * Q,
           IF reduce THEN hi = (6 * Q) - 1 ELSE hi = lo + (2 * Q),
           hi < (IF (k + 1) % 2 = 1 \/ k + 1 >= LogN THEN 6 * Q ELSE 8 * Q)
    PROVE  NttInv'
  <1>1. Q \in Nat \ {0} /\ 8 * Q <= R /\ R \in Nat /\ LogN \in Nat /\ LogN > 1
    BY NttAssumption, RAssumption
  <1>2. TypeOK /\ RoundsFit /\ fn \in Forward
    BY DEF NttInv, ForwardRound
  <1>3. Psi \in [Coefs -> 0..(Q - 1)]
    BY NttAssumption
  <1>4. p \in [Coefs -> 0..lo]
    <2>1. \A j \in Coefs : p[j] \in Nat /\ p[j] < lo + 1
      BY <1>1, <1>2 DEF TypeOK, RoundsFit, Word
    <2>2. QED
      BY <1>2, <2>1 DEF TypeOK
  <1>5. \A U, V \in 0..lo, F \in 0..(Q - 1) :
            PairOf(U, V, F, reduce)[1] \in 0..hi /\ PairOf(U, V, F, reduce)[2] \in 0..hi
    BY <1>2, ForwardPair
  <1>6. EachPair(Psi, reduce) \in [Coefs -> 0..hi]
    BY <1>3, <1>4, <1>5, RowOfPairs
  <1>7. DoRound(EachPair(Psi, reduce)) /\ hi < R /\ k \in 0..LogN
    BY <1>1 DEF ForwardRound
  <1>8. TypeOK' /\ fn' = fn /\ k' = k + 1 /\ \A j \in Coefs : p'[j] \in 0..hi
    BY <1>2, <1>6, <1>7, StepTyped
  <1>9. hi < ForwardTop' /\ ForwardTop' \in Nat
    BY <1>1, <1>8 DEF ForwardTop
  <1>10. RoundsFit'
    <2>1. \A j \in Coefs : p'[j] < ForwardTop'
      BY <1>8, <1>9
    <2>2. fn' \in Forward /\ fn' \notin Inverse /\ fn' # "NTTBarrett" /\ fn' # "InvNTTBarrett"
      BY <1>2, <1>8 DEF Forward, Inverse
    <2>3. QED
      BY <2>1, <2>2 DEF RoundsFit
  <1>11. QED
    BY <1>8, <1>10 DEF NttInv

\* The first round adds to inputs below 4Q, the others reduce just in time.
LEMMA ForwardStep ==
    ASSUME NttInv, NTTFirstRound \/ NTTRound \/ NTTLastRound
    PROVE  NttInv'
  <1>1. Q \in Nat \ {0} /\ LogN \in Nat /\ LogN > 1
    BY NttAssumption
  <1>2. CASE NTTFirstRound
    <2>1. k = 0 /\ ForwardRound(FALSE)
      BY <1>2 DEF NTTFirstRound
    <2>2. ForwardTop = ((4 * Q) - 1) + 1
      BY <1>1, <2>1 DEF ForwardTop
    <2>3. (6 * Q) - 1 < (IF (k + 1) % 2 = 1 \/ k + 1 >= LogN THEN 6 * Q ELSE 8 * Q)
      BY <1>1, <2>1
    <2>4. /\ k \in 0..(LogN - 1) /\ (4 * Q) - 1 \in Nat /\ (6 * Q) - 1 \in Nat
          /\ (4 * Q) - 1 < 8 * Q /\ (6 * Q) - 1 < 8 * Q /\ (6 * Q) - 1 = ((4 * Q) - 1) + (2 * Q)
      BY <1>1, <2>1
    <2>5. QED
      BY <2>1, <2>2, <2>3, <2>4, ForwardBounds
  <1>3. CASE NTTRound
    <2>1. k \in 1..(LogN - 2) /\ ForwardRound(Reduces) /\ Reduces \in BOOLEAN
      BY <1>3 DEF NTTRound, Reduces
    <2> DEFINE lo == IF Reduces THEN (8 * Q) - 1 ELSE (6 * Q) - 1
               hi == IF Reduces THEN (6 * Q) - 1 ELSE (8 * Q) - 1
    <2>2. ForwardTop = lo + 1
      BY <1>1, <2>1 DEF ForwardTop, Reduces
    <2>3. hi < (IF (k + 1) % 2 = 1 \/ k + 1 >= LogN THEN 6 * Q ELSE 8 * Q)
      BY <1>1, <2>1 DEF Reduces
    <2>4. /\ k \in 0..(LogN - 1) /\ lo \in Nat /\ hi \in Nat /\ lo < 8 * Q /\ hi < 8 * Q
          /\ IF Reduces THEN hi = (6 * Q) - 1 ELSE hi = lo + (2 * Q)
      BY <1>1, <2>1
    <2> HIDE DEF lo, hi
    <2>5. QED
      BY <2>1, <2>2, <2>3, <2>4, ForwardBounds
  <1>4. CASE NTTLastRound
    <2>1. k = LogN - 1 /\ ForwardRound(TRUE)
      BY <1>4 DEF NTTLastRound
    <2> DEFINE lo == ForwardTop - 1
    <2>2. ForwardTop = lo + 1 /\ lo \in Nat /\ lo < 8 * Q
      BY <1>1, <2>1 DEF ForwardTop
    <2>3. (6 * Q) - 1 < (IF (k + 1) % 2 = 1 \/ k + 1 >= LogN THEN 6 * Q ELSE 8 * Q)
      BY <1>1, <2>1
    <2>4. k \in 0..(LogN - 1) /\ (6 * Q) - 1 \in Nat /\ (6 * Q) - 1 < 8 * Q
      BY <1>1, <2>1
    <2> HIDE DEF lo
    <2>5. QED
      BY <2>1, <2>2, <2>3, <2>4, ForwardBounds
  <1>5. QED
    BY <1>2, <1>3, <1>4

\* A round of the other transforms keeps its bound.
LEMMA PlainStep ==
    ASSUME NttInv, NEW hi \in Nat, hi < R, NEW table \in [Coefs -> 0..(Q - 1)],
           fn \notin Forward, k < LogN, DoRound(EachPair(table, FALSE)),
           \A j \in Coefs : p[j] <= hi,
           \A U, V \in 0..hi, F \in 0..(Q - 1) :
               PairOf(U, V, F, FALSE)[1] \in 0..hi /\ PairOf(U, V, F, FALSE)[2] \in 0..hi
    PROVE  TypeOK' /\ fn' = fn /\ \A j \in Coefs : p'[j] \in 0..hi
  <1>1. LogN \in Nat /\ TypeOK
    BY NttAssumption DEF NttInv
  <1>2. k \in 0..(LogN - 1) /\ k \in 0..LogN
    BY <1>1 DEF TypeOK
  <1>3. p \in [Coefs -> 0..hi]
    <2>1. \A j \in Coefs : p[j] \in Nat
      BY <1>1, RAssumption DEF TypeOK, Word
    <2>2. QED
      BY <1>1, <2>1 DEF TypeOK
  <1>4. EachPair(table, FALSE) \in [Coefs -> 0..hi]
    BY <1>2, <1>3, RowOfPairs
  <1>5. QED
    BY <1>1, <1>2, <1>4, StepTyped

LEMMA InverseRound ==
    ASSUME NttInv, InvNTTRound \/ InvNTTLazyRound
    PROVE  NttInv'
  <1>1. Q \in Nat \ {0} /\ 8 * Q <= R /\ R \in Nat /\ PsiInv \in [Coefs -> 0..(Q - 1)]
    BY NttAssumption, RAssumption
  <1>2. fn \in Inverse /\ fn \notin Forward /\ k < LogN /\ DoRound(EachPair(PsiInv, FALSE))
    BY DEF InvNTTRound, InvNTTLazyRound, PlainRound, Inverse, Forward
  <1> DEFINE hi == (2 * Q) - 1
  <1>3. hi \in Nat /\ hi < R
    BY <1>1
  <1>4. \A j \in Coefs : p[j] <= hi
    <2>1. \A j \in Coefs : p[j] \in Nat /\ p[j] < 2 * Q
      BY <1>1, <1>2 DEF NttInv, TypeOK, Word, RoundsFit
    <2>2. QED
      BY <1>1, <2>1
  <1>5. \A U, V \in 0..hi, F \in 0..(Q - 1) :
            PairOf(U, V, F, FALSE)[1] \in 0..hi /\ PairOf(U, V, F, FALSE)[2] \in 0..hi
    BY <1>2, InversePair
  <1> HIDE DEF hi
  <1>6. TypeOK' /\ fn' = fn /\ \A j \in Coefs : p'[j] \in 0..hi
    BY <1>1, <1>2, <1>3, <1>4, <1>5, PlainStep
  <1>7. \A j \in Coefs : p'[j] < 2 * Q
    BY <1>1, <1>6 DEF hi
  <1>8. fn' \in Inverse /\ fn' \notin Forward /\ fn' # "NTTBarrett" /\ fn' # "InvNTTBarrett"
    BY <1>2, <1>6 DEF Inverse, Forward
  <1>9. QED
    BY <1>6, <1>7, <1>8 DEF NttInv, RoundsFit

LEMMA BarrettStep ==
    ASSUME NttInv, NTTBarrettRound \/ InvNTTBarrettRound
    PROVE  NttInv'
  <1>1. /\ Q \in Nat \ {0} /\ 8 * Q <= R /\ R \in Nat
        /\ Psi \in [Coefs -> 0..(Q - 1)] /\ PsiInv \in [Coefs -> 0..(Q - 1)]
    BY NttAssumption, RAssumption
  <1>2. CASE NTTBarrettRound
    <2>1. fn = "NTTBarrett" /\ fn \notin Forward /\ k < LogN /\ DoRound(EachPair(Psi, FALSE))
      BY <1>2 DEF NTTBarrettRound, PlainRound, Forward
    <2>2. 4 * Q \in Nat /\ 4 * Q < R /\ \A j \in Coefs : p[j] <= 4 * Q
      BY <1>1, <2>1 DEF NttInv, RoundsFit
    <2>3. TypeOK' /\ fn' = fn /\ \A j \in Coefs : p'[j] \in 0..(4 * Q)
      BY <1>1, <2>1, <2>2, BarrettPair, PlainStep
    <2>4. \A j \in Coefs : p'[j] <= 4 * Q
      BY <1>1, <2>3
    <2>5. QED
      BY <2>1, <2>3, <2>4 DEF NttInv, RoundsFit, Forward, Inverse
  <1>3. CASE InvNTTBarrettRound
    <2>1. fn = "InvNTTBarrett" /\ fn \notin Forward /\ k < LogN /\ DoRound(EachPair(PsiInv, FALSE))
      BY <1>3 DEF InvNTTBarrettRound, PlainRound, Forward
    <2>2. 2 * Q \in Nat /\ 2 * Q < R /\ \A j \in Coefs : p[j] <= 2 * Q
      BY <1>1, <2>1 DEF NttInv, RoundsFit
    <2>3. TypeOK' /\ fn' = fn /\ \A j \in Coefs : p'[j] \in 0..(2 * Q)
      BY <1>1, <2>1, <2>2, InverseBarrettPair, PlainStep
    <2>4. \A j \in Coefs : p'[j] <= 2 * Q
      BY <1>1, <2>3
    <2>5. QED
      BY <2>1, <2>3, <2>4 DEF NttInv, RoundsFit, Forward, Inverse
  <1>4. QED
    BY <1>2, <1>3

-----------------------------------------------------------------------------
(* The last pass *)

\* A last pass into 0..hi ends the transform there.
LEMMA FinishStep ==
    ASSUME NttInv, NEW hi \in Nat, hi < 2 * Q, NEW row \in [Coefs -> 0..hi],
           k = LogN, DoRound(row),
           fn \in Exact => hi < Q
    PROVE  NttInv' /\ EndsReduced'
  <1>1. Q \in Nat \ {0} /\ 8 * Q <= R /\ R \in Nat /\ LogN \in Nat
    BY NttAssumption, RAssumption
  <1>2. TypeOK' /\ fn' = fn /\ k' = LogN + 1 /\ \A j \in Coefs : p'[j] \in 0..hi
    BY <1>1, StepTyped DEF NttInv
  <1>3. \A j \in Coefs : p'[j] \in Nat /\ p'[j] < 2 * Q /\ (fn \in Exact => p'[j] < Q)
    BY <1>1, <1>2
  <1>4. ForwardTop' = 6 * Q
    BY <1>1, <1>2 DEF ForwardTop
  <1>5. RoundsFit'
    BY <1>1, <1>3, <1>4 DEF RoundsFit
  <1>6. QED
    BY <1>2, <1>3, <1>5 DEF NttInv, EndsReduced

LEMMA LastPass ==
    ASSUME NttInv, NTT \/ InvNTT \/ InvNTTLazy \/ NTTBarrett \/ InvNTTBarrett
    PROVE  NttInv' /\ EndsReduced'
  <1>1. /\ Q \in Nat \ {0} /\ 8 * Q <= R /\ 2 * Q <= R /\ R \in Nat /\ LogN \in Nat
        /\ QInv \in Nat /\ NInv \in 0..(Q - 1) /\ BredQ = BRedParams(Q)
    BY NttAssumption, RAssumption DEF Word
  <1>2. k = LogN /\ TypeOK
    BY DEF NttInv, NTT, InvNTT, InvNTTLazy, NTTBarrett, InvNTTBarrett, Finish
  <1>3. \A j \in Coefs : p[j] \in 0..(R - 1)
    BY <1>2 DEF TypeOK, Word
  <1>4. CASE NTT \/ NTTBarrett
    <2> DEFINE row == [j \in Coefs |-> BRedAdd(p[j], Q, BredQ)]
    <2>1. DoRound(row)
      BY <1>4 DEF NTT, NTTBarrett, Finish
    <2>2. \A j \in Coefs : BRedAdd(p[j], Q, BredQ) \in 0..(Q - 1)
      <3>1. ASSUME NEW x \in 0..(R - 1) PROVE BRedAdd(x, Q, BredQ) \in 0..(Q - 1)
        <4>1. BRedAddConstant(x, Q, BredQ) \in 0..((2 * Q) - 1)
          BY <1>1, BRedAddConstantRange
        <4>2. QED
          BY <1>1, <4>1, CRedRange DEF BRedAdd
      <3>2. QED
        BY <1>3, <3>1
    <2>3. row \in [Coefs -> 0..(Q - 1)] /\ Q - 1 \in Nat /\ Q - 1 < 2 * Q /\ Q - 1 < Q
      BY <1>1, <2>2
    <2> HIDE DEF row
    <2>4. QED
      BY <1>2, <2>1, <2>3, FinishStep
  <1>5. CASE InvNTT
    <2> DEFINE row == [j \in Coefs |-> MRed(p[j], NInv, Q, QInv)]
    <2>1. DoRound(row)
      BY <1>5 DEF InvNTT, Finish
    <2>2. \A j \in Coefs : MRed(p[j], NInv, Q, QInv) \in 0..(Q - 1)
      <3>1. ASSUME NEW x \in 0..(R - 1) PROVE MRed(x, NInv, Q, QInv) \in 0..(Q - 1)
        <4>1. x * NInv < Q * R
          <5>1. NInv * x < Q * R
            BY <1>1, ProductBelow
          <5>2. NInv * x = x * NInv
            BY <1>1
          <5>3. QED
            BY <5>1, <5>2
        <4>2. QED
          BY <1>1, <4>1, MRedRange
      <3>2. QED
        BY <1>3, <3>1
    <2>3. row \in [Coefs -> 0..(Q - 1)] /\ Q - 1 \in Nat /\ Q - 1 < 2 * Q /\ Q - 1 < Q
      BY <1>1, <2>2
    <2> HIDE DEF row
    <2>4. QED
      BY <1>2, <2>1, <2>3, FinishStep
  <1>6. CASE InvNTTLazy
    <2> DEFINE row == [j \in Coefs |-> MRedConstant(p[j], NInv, Q, QInv)]
    <2>1. DoRound(row) /\ fn \notin Exact
      BY <1>6 DEF InvNTTLazy, Finish, Exact
    <2>2. \A j \in Coefs : MRedConstant(p[j], NInv, Q, QInv) \in 0..((2 * Q) - 1)
      <3>1. \A j \in Coefs : p[j] \in 0..((8 * Q) - 1)
        <4>1. fn \in Inverse
          BY <1>6 DEF InvNTTLazy, Finish, Inverse
        <4>2. \A j \in Coefs : p[j] < 2 * Q
          BY <4>1 DEF NttInv, RoundsFit
        <4>3. QED
          BY <1>1, <1>3, <4>2
      <3>2. ASSUME NEW x \in 0..((8 * Q) - 1) PROVE MRedConstant(x, NInv, Q, QInv) \in 0..((2 * Q) - 1)
        BY <1>1, Twiddle
      <3>3. QED
        BY <3>1, <3>2
    <2>3. row \in [Coefs -> 0..((2 * Q) - 1)] /\ (2 * Q) - 1 \in Nat /\ (2 * Q) - 1 < 2 * Q
      BY <1>1, <2>2
    <2> HIDE DEF row
    <2>4. QED
      BY <1>2, <2>1, <2>3, FinishStep
  <1>7. CASE InvNTTBarrett
    <2> DEFINE row == [j \in Coefs |-> BRed(p[j], NInv, Q, BredQ)]
    <2>1. DoRound(row)
      BY <1>7 DEF InvNTTBarrett, Finish
    <2>2. \A j \in Coefs : BRed(p[j], NInv, Q, BredQ) \in 0..(Q - 1)
      <3>1. ASSUME NEW x \in 0..(R - 1) PROVE BRed(x, NInv, Q, BredQ) \in 0..(Q - 1)
        <4>1. NInv \in 0..(R - 1)
          BY <1>1
        <4>2. BRedConstant(x, NInv, Q, BredQ) \in 0..((2 * Q) - 1)
          BY <1>1, <4>1, BRedConstantRange
        <4>3. QED
          BY <1>1, <4>2, CRedRange DEF BRed
      <3>2. QED
        BY <1>3, <3>1
    <2>3. row \in [Coefs -> 0..(Q - 1)] /\ Q - 1 \in Nat /\ Q - 1 < 2 * Q /\ Q - 1 < Q
      BY <1>1, <2>2
    <2> HIDE DEF row
    <2>4. QED
      BY <1>2, <2>1, <2>3, FinishStep
  <1>8. QED
    BY <1>4, <1>5, <1>6, <1>7

\* NTTLazy ends with the row of its last round.
LEMMA LazyPass ==
    ASSUME NttInv, NTTLazy
    PROVE  NttInv' /\ EndsReduced'
  <1>1. Q \in Nat \ {0} /\ R \in Nat /\ LogN \in Nat /\ LogN > 1
    BY NttAssumption, RAssumption
  <1>2. fn = "NTTLazy" /\ k = LogN /\ p' = p /\ k' = LogN + 1 /\ fn' = fn /\ source' = source
    BY DEF NTTLazy, Finish, DoRound
  <1>3. TypeOK'
    BY <1>1, <1>2 DEF NttInv, TypeOK
  <1>4. ForwardTop = 6 * Q /\ ForwardTop' = 6 * Q
    BY <1>1, <1>2 DEF ForwardTop
  <1>5. RoundsFit'
    BY <1>2, <1>4 DEF NttInv, RoundsFit
  <1>6. fn' \notin Exact
    BY <1>2 DEF Exact
  <1>7. QED
    BY <1>3, <1>5, <1>6 DEF NttInv, EndsReduced

-----------------------------------------------------------------------------
(* The theorems *)

LEMMA StepInv == NttInv /\ [Next]_vars => NttInv'
  <1>1. SUFFICES ASSUME NttInv, [Next]_vars PROVE NttInv'
    OBVIOUS
  <1>2. CASE NTTFirstRound \/ NTTRound \/ NTTLastRound
    BY <1>1, <1>2, ForwardStep
  <1>3. CASE InvNTTRound \/ InvNTTLazyRound
    BY <1>1, <1>3, InverseRound
  <1>4. CASE NTTBarrettRound \/ InvNTTBarrettRound
    BY <1>1, <1>4, BarrettStep
  <1>5. CASE NTT \/ InvNTT \/ InvNTTLazy \/ NTTBarrett \/ InvNTTBarrett
    BY <1>1, <1>5, LastPass
  <1>6. CASE NTTLazy
    BY <1>1, <1>6, LazyPass
  <1>7. CASE UNCHANGED vars
    BY <1>1, <1>7 DEF vars, NttInv, TypeOK, RoundsFit, ForwardTop
  <1>8. QED
    BY <1>1, <1>2, <1>3, <1>4, <1>5, <1>6, <1>7 DEF Next

LEMMA AlwaysInv == Spec => []NttInv
  BY InitInv, StepInv, PTL DEF Spec

\* No round of a transform lets a coefficient outgrow its bound, so none wraps
\* around the word, whatever the input, the tables and the degree.
THEOREM NoOverflow == Spec => []RoundsFit
  <1>1. NttInv => RoundsFit
    BY DEF NttInv
  <1>2. QED
    BY <1>1, AlwaysInv, PTL

\* Between the last round and the end only a last pass runs, and it reduces.
LEMMA StepReduced == NttInv /\ EndsReduced /\ [Next]_vars => EndsReduced'
  <1>1. SUFFICES ASSUME NttInv, EndsReduced, [Next]_vars PROVE EndsReduced'
    OBVIOUS
  <1>2. LogN \in Nat /\ LogN > 1 /\ k \in 0..(LogN + 1)
    BY <1>1, NttAssumption DEF NttInv, TypeOK
  <1>3. CASE NTT \/ InvNTT \/ InvNTTLazy \/ NTTBarrett \/ InvNTTBarrett
    BY <1>1, <1>3, LastPass
  <1>4. CASE NTTLazy
    BY <1>1, <1>4, LazyPass
  <1>5. CASE UNCHANGED vars
    <2>1. k' = k /\ fn' = fn /\ p' = p
      BY <1>5 DEF vars
    <2>2. QED
      BY <1>1, <2>1 DEF EndsReduced
  <1>6. ASSUME k < LogN, k' = k + 1 PROVE EndsReduced'
    BY <1>2, <1>6 DEF EndsReduced
  <1>7. CASE NTTFirstRound \/ NTTRound \/ NTTLastRound
    <2>1. k = 0 \/ k \in 1..(LogN - 2) \/ k = LogN - 1
      BY <1>7 DEF NTTFirstRound, NTTRound, NTTLastRound
    <2>2. k < LogN
      BY <1>2, <2>1
    <2>3. k' = k + 1
      BY <1>7 DEF NTTFirstRound, NTTRound, NTTLastRound, ForwardRound, DoRound
    <2>4. QED
      BY <1>6, <2>2, <2>3
  <1>8. CASE InvNTTRound \/ InvNTTLazyRound \/ NTTBarrettRound \/ InvNTTBarrettRound
    BY <1>6, <1>8 DEF InvNTTRound, InvNTTLazyRound, NTTBarrettRound, InvNTTBarrettRound, PlainRound, DoRound
  <1>9. QED
    BY <1>1, <1>3, <1>4, <1>5, <1>7, <1>8 DEF Next

\* The exact transforms end below Q, whatever the lazily reduced input.
THEOREM CanonicalEnd == Spec => []EndsReduced
  <1>1. Init => EndsReduced
    BY NttAssumption DEF Init, EndsReduced
  <1>2. QED
    BY <1>1, StepReduced, AlwaysInv, PTL DEF Spec
-----------------------------------------------------------------------------
(* The root *)

\* The root the tables are made of.
Root == OutOfMForm(Psi[N \div 2])

\* The constants of the transform, and powers of two up to its degree.
LEMMA NttNumbers ==
    /\ Q \in Nat \ {0} /\ 2 <= Q /\ 2 * Q <= R /\ 8 * Q <= R /\ R \in Nat \ {0} /\ 2 <= R /\ Q < R
    /\ LogN \in Nat \ {0} /\ N \in Nat \ {0} /\ N = 2 * 2^(LogN - 1) /\ 2^(LogN - 1) \in Nat \ {0}
    /\ PowersDouble(LogN) /\ 2^0 = 1
    /\ QInv \in Nat /\ (Q * QInv) % R = 1 % R
  <1>1. 0 \in 0..W /\ 0 \in 0..(LogN - 1) /\ LogN - 1 - 0 = LogN - 1
    BY WAssumption, NttAssumption
  <1>2. 2^0 = 1
    BY <1>1, WordPowers
  <1>3. 2^(LogN - 1) \in Nat \ {0} /\ N = 2 * (1 * 2^(LogN - 1))
    BY <1>1, <1>2, PowersAssumption
  <1> DEFINE h == 2^(LogN - 1)
  <1>4. h \in Nat \ {0} /\ N = 2 * h /\ N \in Nat \ {0}
    <2>1. h \in Nat \ {0} /\ N = 2 * (1 * h)
      BY <1>3
    <2> HIDE DEF h
    <2>2. QED
      BY <2>1
  <1>5. PowersDouble(LogN)
    <2>1. SUFFICES ASSUME NEW e \in 0..LogN PROVE 2^e \in Nat \ {0} /\ (e > 0 => 2^e = 2 * 2^(e - 1))
      BY DEF PowersDouble
    <2>2. CASE e = LogN
      BY <1>3, <1>4, <2>2 DEF N
    <2>3. CASE e # LogN
      <3>1. e \in 0..(LogN - 1)
        BY NttAssumption, <2>3
      <3>2. QED
        BY <3>1, PowersAssumption
    <2>4. QED
      BY <2>2, <2>3
  <1>6. Q \in Nat \ {0} /\ 2 <= Q /\ 8 * Q <= R /\ R \in Nat \ {0} /\ LogN \in Nat \ {0}
    BY NttAssumption, RAssumption
  <1>7. 2 * Q <= R /\ 2 <= R /\ Q < R
    BY <1>6
  <1>8. QInv \in Nat /\ (Q * QInv) % R = 1
    BY NttAssumption, <1>6 DEF Word
  <1>9. 1 % R = 1
    BY <1>6, <1>7
  <1>10. QED
    BY <1>2, <1>4, <1>5, <1>6, <1>7, <1>8, <1>9

\* Out of the Montgomery form a table's entry is a residue.
LEMMA OutOfMFormRange ==
    ASSUME NEW x \in 0..(Q - 1)
    PROVE  OutOfMForm(x) \in 0..(Q - 1) /\ (OutOfMForm(x) * R) % Q = x % Q
  <1>1. x \in 0..(R - 1)
    BY NttNumbers
  <1>2. QED
    BY <1>1, NttNumbers, FromMontgomery DEF OutOfMForm

\* RootTo holds the powers of the root.
LEMMA RootToIs ==
    Root \in 0..(Q - 1) /\ \A e \in 0..(2 * N) : RootTo[e] = Pow(Root, e, Q)
  <1> DEFINE d == 2 * N
             to[e \in 0..(2 * N)] == IF e = 0 THEN 1 ELSE (to[e-1] * Root) % Q
             h == [e \in 0..(2 * N) |-> Pow(Root, e, Q)]
             H == {e \in 0..d : to[e] = Pow(Root, e, Q)}
  <1>1. d \in Nat /\ N \in Nat /\ Q \in Nat \ {0} /\ 2 <= Q
    BY NttNumbers
  <1>2. Root \in 0..(Q - 1)
    <2>1. N \div 2 \in Coefs
      BY NttNumbers DEF Coefs
    <2>2. Psi[N \div 2] \in 0..(Q - 1)
      BY <2>1, NttAssumption
    <2>3. QED
      BY <2>2, OutOfMFormRange DEF Root
  <1>3. Pow(Root, 0, Q) = 1
    <2>1. Root \in Int /\ 1 % Q = 1
      BY <1>1, <1>2
    <2>2. QED
      BY <1>1, <2>1, PowSteps
  <1>4. \A e \in 0..(2 * N) : e # 0 => Pow(Root, e, Q) = (Pow(Root, e - 1, Q) * Root) % Q
    <2>1. SUFFICES ASSUME NEW e \in 0..(2 * N), e # 0
                   PROVE  Pow(Root, e, Q) = (Pow(Root, e - 1, Q) * Root) % Q
      OBVIOUS
    <2>2. e - 1 \in Nat /\ (e - 1) + 1 = e /\ Root \in Int
      BY <1>1, <1>2, <2>1
    <2>3. Pow(Root, (e - 1) + 1, Q) = (Pow(Root, e - 1, Q) * Root) % Q
      BY <1>1, <2>2, PowSteps, Zenon
    <2>4. QED
      BY <2>2, <2>3
  <1>5. h = [e \in 0..(2 * N) |-> IF e = 0 THEN 1 ELSE (h[e-1] * Root) % Q]
    <2>1. \A e \in 0..(2 * N) : e # 0 => e - 1 \in 0..(2 * N)
      BY <1>1
    <2>2. \A e \in 0..(2 * N) : e # 0 => h[e - 1] = Pow(Root, e - 1, Q)
      BY <2>1
    <2>3. \A e \in 0..(2 * N) : Pow(Root, e, Q) = IF e = 0 THEN 1 ELSE (h[e-1] * Root) % Q
      BY <1>3, <1>4, <2>2
    <2>4. h = [e \in 0..(2 * N) |-> Pow(Root, e, Q)]
      OBVIOUS
    <2> HIDE DEF h
    <2>5. QED
      BY <2>3, <2>4, Zenon
  <1> HIDE DEF h
  <1>6. to = [e \in 0..(2 * N) |-> IF e = 0 THEN 1 ELSE (to[e-1] * Root) % Q]
    BY <1>5 DEF to
  <1> HIDE DEF to
  <1>7. 0 \in H
    <2>1. 0 \in 0..(2 * N) /\ to[0] = 1
      BY <1>1, <1>6
    <2>2. QED
      BY <1>3, <2>1
  <1>8. ASSUME NEW e \in 1..d, e - 1 \in H PROVE e \in H
    <2>1. e \in 0..(2 * N) /\ e # 0
      BY <1>1
    <2>2. to[e] = (to[e-1] * Root) % Q
      BY <1>6, <2>1
    <2>3. to[e - 1] = Pow(Root, e - 1, Q)
      BY <1>8
    <2>4. to[e] = Pow(Root, e, Q)
      BY <1>4, <2>1, <2>2, <2>3
    <2>5. QED
      BY <2>1, <2>4
  <1> HIDE DEF H
  <1>9. \A e \in 0..d : e \in H
    BY <1>1, <1>7, <1>8, Induction
  <1>10. RootTo = [e \in 0..(2 * N) |-> to[e]]
    BY DEF RootTo, Root, to
  <1>11. QED
    BY <1>2, <1>9, <1>10 DEF H

\* Half a turn changes the sign, and a whole one changes nothing.
LEMMA RootCycle ==
    ASSUME NEW e \in Nat, NEW c \in Nat
    PROVE  /\ Pow(Root, e, Q) \in 0..(Q - 1)
           /\ Pow(Root, e + N, Q) = (-Pow(Root, e, Q)) % Q
           /\ Pow(Root, e + (c * (2 * N)), Q) = Pow(Root, e, Q)
  <1> DEFINE x == Pow(Root, e, Q)
             d == 2 * N
  <1>1. Q \in Nat \ {0} /\ 2 <= Q /\ N \in Nat /\ d \in Nat /\ c * d \in Nat /\ Root \in Int
    BY NttNumbers, RootToIs
  <1>2. Pow(Root, N, Q) = Q - 1
    <2>1. N \in 0..(2 * N)
      BY <1>1
    <2>2. QED
      BY <2>1, RootToIs, TablesAssumption
  <1>3. x \in 0..(Q - 1)
    BY <1>1, PowSteps
  <1> HIDE DEF x
  <1>4. Pow(Root, e + N, Q) = (-x) % Q
    <2>1. Pow(Root, e + N, Q) = (Pow(Root, e, Q) * Pow(Root, N, Q)) % Q
      BY <1>1, PowPlus, Zenon
    <2>2. x * (Q - 1) = (-x) + (x * Q) /\ -x \in Int /\ x \in Int
      BY <1>1, <1>3
    <2>3. ((-x) + (x * Q)) % Q = (-x) % Q
      BY <1>1, <2>2, ModPlus, Zenon
    <2>4. QED
      BY <1>2, <2>1, <2>2, <2>3 DEF x
  <1>5. Pow(Root, d, Q) = 1
    <2>1. d = N + N
      BY <1>1
    <2>2. Pow(Root, N + N, Q) = (Pow(Root, N, Q) * Pow(Root, N, Q)) % Q
      BY <1>1, PowPlus, Zenon
    <2>3. (Q - 1) * (Q - 1) = 1 + ((Q - 2) * Q) /\ Q - 2 \in Int /\ 1 \in Int
      BY <1>1
    <2>4. (1 + ((Q - 2) * Q)) % Q = 1 % Q
      BY <1>1, <2>3, ModPlus, Zenon
    <2>5. 1 % Q = 1
      BY <1>1
    <2>6. QED
      BY <1>2, <2>1, <2>2, <2>3, <2>4, <2>5
  <1> HIDE DEF d
  <1>6. Pow(Root, c * d, Q) = 1
    <2>1. c * d = d * c
      BY <1>1
    <2>2. Pow(Root, d * c, Q) = Pow(Pow(Root, d, Q), c, Q)
      BY <1>1, PowTimes
    <2>3. QED
      BY <1>1, <1>5, <2>1, <2>2, PowOfOne
  <1>7. Pow(Root, e + (c * d), Q) = x
    <2>1. Pow(Root, e + (c * d), Q) = (Pow(Root, e, Q) * Pow(Root, c * d, Q)) % Q
      BY <1>1, PowPlus, Zenon
    <2>2. x * 1 = x /\ x % Q = x
      BY <1>1, <1>3
    <2>3. QED
      BY <1>6, <2>1, <2>2 DEF x
  <1>8. QED
    BY <1>3, <1>4, <1>7 DEF x, d

\* The exponent of value j, and the point at which the transform evaluates.
OddPower(j) == 2 * BitReverse64(j, LogN) + 1
Omega(j) == Pow(Root, OddPower(j), Q)

LEMMA ReversalRange ==
    ASSUME NEW j \in Nat
    PROVE  BitReverse64(j, LogN) \in 0..(N - 1) /\ OddPower(j) \in Nat
  <1>1. BitReverse64(j, LogN) \in 0..(N - 1) /\ N \in Nat
    BY NttNumbers, ReversedBelow DEF N
  <1>2. QED
    BY <1>1 DEF OddPower

\* The power 2^r of a round's distance, of the odd power of value j: the
\* exponent of the block's table entry, and half a turn when j is the second
\* of its pair.
PairExponent(j, r) ==
    BitReverse64(2^(LogN - 1 - r) + (j \div (2 * 2^r)), LogN) + (N * ((j \div 2^r) % 2))

\* Halving a quotient.
LEMMA HalfQuotient ==
    ASSUME NEW j \in Nat, NEW d \in Nat \ {0}
    PROVE  /\ j \div (2 * d) = (j \div d) \div 2
           /\ j \div d = (2 * (j \div (2 * d))) + ((j \div d) % 2)
           /\ j \div d \in Nat /\ j \div (2 * d) \in Nat /\ (j \div d) % 2 \in {0, 1}
  <1> DEFINE a == j \div d
             s == j % d
             b == a \div 2
             c == a % 2
             w == 2 * d
             z == (c * d) + s
  <1>1. a \in Nat /\ s \in 0..(d - 1) /\ j = (d * a) + s
    BY DivNat, Zenon
  <1> HIDE DEF a, s
  <1>2. b \in Nat /\ c \in {0, 1} /\ a = (2 * b) + c
    BY <1>1
  <1> HIDE DEF b, c
  <1>3. d * ((2 * b) + c) = ((2 * d) * b) + (c * d)
    BY <1>2
  <1>4. c * d = 0 \/ c * d = d
    BY <1>2
  <1>5. j = (w * b) + z /\ z \in 0..(w - 1) /\ w \in Nat \ {0}
    BY <1>1, <1>2, <1>3, <1>4
  <1> HIDE DEF w, z
  <1>6. j \div w = b
    BY <1>2, <1>5, DivModUnique
  <1>7. QED
    BY <1>1, <1>2, <1>6 DEF a, b, c, w

\* What the rounds' tables have to do with the points of evaluation.
LEMMA PairExponents ==
    ASSUME NEW j \in Coefs, NEW r \in 0..(LogN - 1)
    PROVE  \E e \in Nat : OddPower(j) * 2^r = PairExponent(j, r) + (e * (2 * N))
  <1> DEFINE n == LogN - 1
             H == {b \in 0..n : \E e \in Nat : OddPower(j) * 2^b = PairExponent(j, b) + (e * (2 * N))}
             h == 2^(LogN - 1)
  <1>1. j \in Nat /\ j < N /\ N = 2 * h /\ h \in Nat \ {0} /\ N \in Nat /\ n \in Nat /\ LogN \in Nat \ {0}
    BY NttNumbers DEF Coefs
  <1> HIDE DEF h
  <1>2. OddPower(j) \in Nat /\ BitReverse64(j, LogN) \in Nat
    BY <1>1, ReversalRange
  <1>3. 0 \in H
    <2> DEFINE y == j \div 2
               c == j % 2
    <2>1. y \in 0..(h - 1) /\ c \in {0, 1} /\ j = (2 * y) + c
      BY <1>1
    <2> HIDE DEF y, c
    <2>2. BitReverse64(y, LogN) \in Nat /\ 2 * BitReverse64(j, LogN) = BitReverse64(y, LogN) + (c * N)
      <3>1. y \in 0..(2^(LogN - 1) - 1) /\ 2^LogN = N
        BY <2>1 DEF h, N
      <3>2. /\ BitReverse64(y, LogN) \in Nat
            /\ 2 * BitReverse64((2 * y) + c, LogN) = BitReverse64(y, LogN) + (c * 2^LogN)
        BY <2>1, <3>1, NttNumbers, TwiceReversed
      <3>3. QED
        BY <2>1, <3>1, <3>2
    <2>3. BitReverse64(h + y, LogN) = BitReverse64(y, LogN) + 1
      <3>1. y \in 0..(2^(LogN - 1) - 1)
        BY <2>1 DEF h
      <3>2. QED
        BY <3>1, NttNumbers, HighestBitLast DEF h
    <2>4. 2^0 = 1 /\ LogN - 1 - 0 = LogN - 1 /\ 2 * 1 = 2 /\ j \div 1 = j
      BY NttNumbers, <1>1
    <2>5. PairExponent(j, 0) = BitReverse64(h + y, LogN) + (N * c)
      BY <2>4 DEF PairExponent, h, y, c
    <2>6. OddPower(j) * 2^0 = PairExponent(j, 0) + (0 * (2 * N))
      <3>1. OddPower(j) * 2^0 = OddPower(j)
        BY <2>4, <1>2
      <3>2. c * N = N * c /\ 0 * (2 * N) = 0
        BY <1>1, <2>1
      <3>3. QED
        BY <1>1, <2>1, <2>2, <2>3, <2>5, <3>1, <3>2 DEF OddPower
    <2>7. 0 \in 0..n /\ 0 \in Nat
      BY <1>1
    <2>8. QED
      BY <2>6, <2>7
  <1>4. ASSUME NEW b \in 1..n, b - 1 \in H PROVE b \in H
    <2> DEFINE d == 2^(b - 1)
               g == 2^(LogN - 1 - b)
               y == g + (j \div (2 * (2 * d)))
               c == (j \div (2 * d)) % 2
               f == (j \div d) % 2
    <2>1. /\ b \in 1..LogN /\ b - 1 \in 0..n /\ b \in 0..n /\ LogN - 1 - b \in 0..LogN
          /\ LogN - 1 - (b - 1) \in 1..LogN /\ (LogN - 1 - (b - 1)) - 1 = LogN - 1 - b
      BY <1>1
    <2>2. d \in Nat \ {0} /\ 2^b = 2 * d
      BY <2>1, NttNumbers, HalfPower
    <2>3. g \in Nat \ {0} /\ 2^(LogN - 1 - (b - 1)) = 2 * g
      BY <2>1, NttNumbers, HalfPower
    <2>4. N = 2 * ((2 * d) * g)
      BY <2>1, <2>2, PowersAssumption
    <2> HIDE DEF d, g
    <2>5. PICK e \in Nat : OddPower(j) * d = PairExponent(j, b - 1) + (e * (2 * N))
      BY <1>4 DEF d
    <2>6. j \div d \in Nat /\ f \in {0, 1}
      BY <1>1, <2>2, HalfQuotient
    <2>7. /\ j \div (2 * d) = (2 * (j \div (2 * (2 * d)))) + c
          /\ j \div (2 * (2 * d)) \in Nat /\ c \in {0, 1}
      <3> DEFINE w == 2 * d
      <3>1. w \in Nat \ {0}
        BY <2>2
      <3> HIDE DEF w
      <3>2. j \div w = (2 * (j \div (2 * w))) + ((j \div w) % 2) /\ j \div (2 * w) \in Nat /\ (j \div w) % 2 \in {0, 1}
        BY <1>1, <3>1, HalfQuotient
      <3>3. QED
        BY <3>2 DEF w
    <2>8. y \in 0..(h - 1)
      <3> DEFINE w == 2 * (2 * d)
                 a == j \div w
      <3>1. w \in Nat \ {0} /\ N = w * g /\ h = (2 * d) * g
        BY <1>1, <2>2, <2>3, <2>4
      <3> HIDE DEF w
      <3>2. a \in Nat /\ a < g
        BY <1>1, <2>3, <3>1, DivBelow
      <3> HIDE DEF a
      <3>3. g + a < 2 * g /\ 2 * g <= (2 * d) * g
        <4>1. 1 <= d
          BY <2>2
        <4>2. 1 * (2 * g) <= d * (2 * g)
          BY <2>2, <2>3, <4>1
        <4>3. d * (2 * g) = (2 * d) * g /\ 1 * (2 * g) = 2 * g
          BY <2>2, <2>3
        <4>4. QED
          BY <2>3, <3>2, <4>2, <4>3
      <3>4. g + a \in 0..(h - 1)
        BY <1>1, <2>3, <3>1, <3>2, <3>3
      <3>5. QED
        BY <3>4 DEF a, w
    <2>9. 2 * g + (j \div (2 * d)) = (2 * y) + c
      BY <2>3, <2>7
    <2> HIDE DEF y, c, f
    <2>10. /\ BitReverse64(y, LogN) \in Nat /\ BitReverse64((2 * y) + c, LogN) \in Nat
           /\ 2 * BitReverse64((2 * y) + c, LogN) = BitReverse64(y, LogN) + (c * N)
      <3>1. y \in 0..(2^(LogN - 1) - 1) /\ 2^LogN = N
        BY <2>8 DEF h, N
      <3>2. c \in {0, 1}
        BY <2>7 DEF c
      <3>3. QED
        BY <3>1, <3>2, NttNumbers, TwiceReversed
    <2>11. PairExponent(j, b - 1) = BitReverse64((2 * y) + c, LogN) + (N * f)
      BY <2>3, <2>9 DEF PairExponent, d, f
    <2>12. PairExponent(j, b) = BitReverse64(y, LogN) + (N * c)
      BY <2>2 DEF PairExponent, y, c, g
    <2>13. OddPower(j) * 2^b = PairExponent(j, b) + ((f + (2 * e)) * (2 * N))
      <3> DEFINE A == BitReverse64((2 * y) + c, LogN)
                 B == BitReverse64(y, LogN)
                 O == OddPower(j)
      <3>1. /\ A \in Nat /\ B \in Nat /\ O \in Nat /\ 2 * A = B + (c * N) /\ c \in Nat /\ f \in Nat
            /\ O * d = (A + (N * f)) + (e * (2 * N))
        BY <1>2, <2>5, <2>6, <2>7, <2>10, <2>11 DEF f, c
      <3> HIDE DEF A, B, O
      <3>2. O * (2 * d) = 2 * (O * d)
        BY <2>2, <3>1
      <3>3. 2 * ((A + (N * f)) + (e * (2 * N))) = (2 * A) + ((f + (2 * e)) * (2 * N))
        BY <1>1, <3>1
      <3>4. c * N = N * c /\ N * c \in Int /\ (f + (2 * e)) * (2 * N) \in Int
        BY <1>1, <3>1
      <3>5. O * (2 * d) = (B + (N * c)) + ((f + (2 * e)) * (2 * N))
        BY <3>1, <3>2, <3>3, <3>4
      <3>6. QED
        BY <2>2, <2>12, <3>5 DEF B, O
    <2>14. f + (2 * e) \in Nat
      BY <2>6 DEF f
    <2>15. QED
      BY <2>1, <2>13, <2>14
  <1> HIDE DEF H
  <1>5. \A b \in 0..n : b \in H
    BY <1>1, <1>3, <1>4, Induction
  <1>6. QED
    BY <1>5 DEF H

\* The power 2^r of a point of evaluation is, up to the sign, what a round at
\* distance 2^r multiplies by.
LEMMA OmegaPower ==
    ASSUME NEW j \in Coefs, NEW r \in 0..(LogN - 1), NEW F,
           F = Psi[2^(LogN - 1 - r) + (j \div (2 * 2^r))]
    PROVE  /\ OutOfMForm(F) \in 0..(Q - 1) /\ F \in 0..(Q - 1)
           /\ Pow(Omega(j), 2^r, Q)
                = IF (j \div 2^r) % 2 = 0 THEN OutOfMForm(F) ELSE (-OutOfMForm(F)) % Q
  <1> DEFINE i == 2^(LogN - 1 - r) + (j \div (2 * 2^r))
             b == BitReverse64(i, LogN)
             c == (j \div 2^r) % 2
             d == 2^r
  <1>1. d \in Nat \ {0} /\ 2^(LogN - 1 - r) \in Nat \ {0} /\ N = 2 * (d * 2^(LogN - 1 - r))
    BY PowersAssumption
  <1>2. j \in Nat /\ N \in Nat /\ Q \in Nat \ {0} /\ Root \in Int
    BY NttNumbers, RootToIs DEF Coefs
  <1>3. i \in Coefs
    <2> DEFINE g == 2^(LogN - 1 - r)
    <2>1. d \in Nat \ {0} /\ g \in Nat \ {0} /\ N = 2 * (g * d)
      BY <1>1
    <2> HIDE DEF d, g
    <2>2. g + (j \div (2 * d)) \in Coefs
      BY <2>1, PairsInRow
    <2>3. QED
      BY <2>2 DEF d, g
  <1>4. c \in {0, 1}
    <2> HIDE DEF d
    <2>1. (j \div d) % 2 \in {0, 1}
      BY <1>1, <1>2, HalfQuotient
    <2>2. QED
      BY <2>1 DEF d
  <1> HIDE DEF i
  <1>5. i \in Nat /\ F = Psi[i] /\ F \in 0..(Q - 1)
    BY <1>3, NttAssumption DEF i, Coefs
  <1>6. b \in 0..(N - 1) /\ b \in 0..(2 * N) /\ b \in Nat
    <2>1. b \in 0..(N - 1)
      BY <1>5, ReversalRange
    <2>2. QED
      BY <1>2, <2>1
  <1>7. OutOfMForm(F) = Pow(Root, b, Q)
    BY <1>3, <1>5, <1>6, RootToIs, TablesAssumption
  <1>8. Pow(Omega(j), d, Q) = Pow(Root, OddPower(j) * d, Q)
    BY <1>1, <1>2, ReversalRange, PowTimes, Zenon DEF Omega
  <1>9. PICK e \in Nat : OddPower(j) * d = PairExponent(j, r) + (e * (2 * N))
    BY PairExponents
  <1>10. PairExponent(j, r) = b + (N * c)
    BY DEF PairExponent, i
  <1> HIDE DEF b, c, d
  <1>11. b + (N * c) \in Nat
    BY <1>2, <1>4, <1>6
  <1>12. Pow(Omega(j), d, Q) = Pow(Root, b + (N * c), Q)
    BY <1>8, <1>9, <1>10, <1>11, RootCycle
  <1>13. c = 0 => b + (N * c) = b
    BY <1>2, <1>6
  <1>14. c = 1 => b + (N * c) = b + N
    BY <1>2, <1>6
  <1>15. OutOfMForm(F) \in 0..(Q - 1)
    BY <1>5, OutOfMFormRange
  <1>16. Pow(Root, b + N, Q) = (-Pow(Root, b, Q)) % Q
    BY <1>6, RootCycle
  <1>17. Pow(Omega(j), d, Q) = IF c = 0 THEN OutOfMForm(F) ELSE (-OutOfMForm(F)) % Q
    BY <1>4, <1>7, <1>12, <1>13, <1>14, <1>16
  <1>18. QED
    BY <1>5, <1>15, <1>17 DEF c, d

\* A Montgomery product by an entry of a table multiplies by what the entry
\* stands for.
LEMMA TwiddleIs ==
    ASSUME NEW V \in 0..(R - 1), NEW F \in 0..(Q - 1)
    PROVE  /\ MRedConstant(V, F, Q, QInv) \in Nat /\ MRed(V, F, Q, QInv) \in Nat
           /\ MRedConstant(V, F, Q, QInv) % Q = (V * OutOfMForm(F)) % Q
           /\ MRed(V, F, Q, QInv) % Q = (V * OutOfMForm(F)) % Q
  <1> DEFINE f == OutOfMForm(F)
             x == MRedConstant(V, F, Q, QInv)
             y == MRed(V, F, Q, QInv)
  <1>1. /\ Q \in Nat \ {0} /\ 2 <= Q /\ 2 * Q <= R /\ R \in Nat \ {0} /\ 2 <= R
        /\ QInv \in Nat /\ (Q * QInv) % R = 1 % R /\ V \in Nat /\ F \in Nat
        /\ V \in Int /\ F \in Int /\ R \in Int /\ V * F \in Int
    BY NttNumbers
  <1>2. V * F < Q * R
    <2>1. F * V < Q * R /\ F * V = V * F
      BY <1>1, ProductBelow
    <2>2. QED
      BY <2>1
  <1>3. x \in Nat /\ y \in Nat
    <2>1. x \in 1..((2 * Q) - 1) /\ y \in 0..(Q - 1)
      BY <1>1, <1>2, MRedConstantRange, MRedRange
    <2>2. QED
      BY <1>1, <2>1
  <1>4. (x * R) % Q = (V * F) % Q /\ (y * R) % Q = (V * F) % Q
    BY <1>1, <1>2, MRedConstantIs, MontgomeryProduct
  <1>5. f \in Int /\ (f * R) % Q = F % Q
    BY OutOfMFormRange
  <1>6. PICK v \in 0..(Q - 1) : (v * R) % Q = 1
    BY <1>1, RadixInverse
  <1>7. v \in Int /\ x \in Int /\ y \in Int
    BY <1>3
  <1> HIDE DEF f, x, y
  <1>8. ASSUME NEW z \in Int, NEW g \in Int, (z * R) % Q = g % Q PROVE z % Q = (g * v) % Q
    <2>1. Q \in Nat \ {0}
      BY <1>1
    <2>2. v \in Int
      BY <1>7
    <2>3. QED
      BY ONLY WithoutRadix, <1>6, <1>8, <2>1, <2>2
  <1>9. x % Q = ((V * F) * v) % Q /\ y % Q = ((V * F) * v) % Q /\ f % Q = (F * v) % Q
    BY <1>1, <1>4, <1>5, <1>7, <1>8, Zenon
  <1>10. (V * F) * v = (F * v) * V /\ F * v \in Int /\ V * f = f * V
    BY <1>1, <1>5, <1>7
  <1>11. ((f % Q) * V) % Q = (f * V) % Q /\ (((F * v) % Q) * V) % Q = ((F * v) * V) % Q
    BY <1>1, <1>5, <1>10, ModProd, Zenon
  <1>12. (V * f) % Q = ((V * F) * v) % Q
    BY <1>9, <1>10, <1>11
  <1>13. QED
    BY <1>3, <1>9, <1>12 DEF f, x, y

-----------------------------------------------------------------------------
(* Pairs, modulo Q *)

\* A forward butterfly: the sum and the difference of U and V times the factor.
LEMMA ForwardPairIs ==
    ASSUME fn \in Forward, NEW reduce \in BOOLEAN, NEW U \in 0..((8 * Q) - 1), NEW V \in 0..((8 * Q) - 1),
           NEW F \in 0..(Q - 1), reduce \/ U < 6 * Q
    PROVE  /\ PairOf(U, V, F, reduce)[1] % Q = (U + (V * OutOfMForm(F))) % Q
           /\ PairOf(U, V, F, reduce)[2] % Q = (U - (V * OutOfMForm(F))) % Q
  <1> DEFINE X == IF reduce THEN Less(U, 4 * Q) ELSE U
             Y == MRedConstant(V, F, Q, QInv)
             z == V * OutOfMForm(F)
  <1>1. Q \in Nat \ {0} /\ 8 * Q <= R /\ R \in Nat \ {0} /\ V \in 0..(R - 1) /\ U \in Int /\ 4 \in Int
    BY NttNumbers
  <1>2. Y \in Int /\ Y % Q = z % Q /\ z \in Int
    <2>1. Y \in Nat /\ Y % Q = z % Q
      BY <1>1, TwiddleIs, Zenon
    <2>2. OutOfMForm(F) \in Int /\ V \in Int
      BY OutOfMFormRange
    <2> HIDE DEF Y
    <2>3. QED
      BY <2>1, <2>2
  <1>3. Y \in 1..((2 * Q) - 1)
    BY Twiddle
  <1>4. PairOf(U, V, F, reduce) = << Wrap(X + Y), Wrap(X + 2 * Q - Y) >>
    BY DEF PairOf, butterfly, Forward, Inverse
  <1>5. X \in Nat /\ X + (2 * Q) <= R /\ (X = U \/ X = U - (4 * Q))
    BY <1>1 DEF Less
  <1> HIDE DEF X, Y, z
  <1>6. X % Q = U % Q
    <2>1. (U - (4 * Q)) % Q = U % Q
      BY <1>1, ModMinus, Zenon
    <2>2. QED
      BY <1>5, <2>1
  <1>7. Wrap(X + Y) = X + Y /\ Wrap(X + 2 * Q - Y) = X + 2 * Q - Y
    <2>1. X + Y \in 0..(R - 1) /\ X + 2 * Q - Y \in 0..(R - 1)
      BY <1>1, <1>3, <1>5
    <2>2. QED
      BY <2>1, WrapRange
  <1>8. X \in Int /\ X - Y \in Int /\ 2 \in Int
    BY <1>2, <1>5
  <1>9. ((X % Q) + (Y % Q)) % Q = (X + Y) % Q /\ ((U % Q) + (z % Q)) % Q = (U + z) % Q
    BY <1>1, <1>2, <1>8, ModSum, Zenon
  <1>10. ((X % Q) - (Y % Q)) % Q = (X - Y) % Q /\ ((U % Q) - (z % Q)) % Q = (U - z) % Q
    BY <1>1, <1>2, <1>8, ModDiff, Zenon
  <1>11. ((X - Y) + (2 * Q)) % Q = (X - Y) % Q
    BY <1>1, <1>8, ModPlus, Zenon
  <1>12. X + 2 * Q - Y = (X - Y) + (2 * Q)
    BY <1>1, <1>2, <1>8
  <1>13. (X + Y) % Q = (U + z) % Q /\ (X + 2 * Q - Y) % Q = (U - z) % Q
    BY <1>2, <1>6, <1>9, <1>10, <1>11, <1>12
  <1>14. QED
    BY <1>4, <1>7, <1>13 DEF z

\* An inverse butterfly: the sum, and the difference times the factor.
LEMMA InversePairIs ==
    ASSUME fn \in Inverse, NEW reduce \in BOOLEAN, NEW U \in 0..((2 * Q) - 1), NEW V \in 0..((2 * Q) - 1),
           NEW F \in 0..(Q - 1)
    PROVE  /\ PairOf(U, V, F, reduce)[1] % Q = (U + V) % Q
           /\ PairOf(U, V, F, reduce)[2] % Q = ((U - V) * OutOfMForm(F)) % Q
  <1> DEFINE f == OutOfMForm(F)
             Y == U + 4 * Q - V
  <1>1. Q \in Nat \ {0} /\ 8 * Q <= R /\ R \in Nat \ {0} /\ U \in Int /\ V \in Int /\ U - V \in Int /\ U + V \in Int
    BY NttNumbers
  <1>2. U + V \in 0..(R - 1) /\ Y \in 0..(R - 1)
    BY <1>1
  <1>3. Wrap(U + V) = U + V /\ Wrap(U + 4 * Q - V) = Y
    BY <1>2, WrapRange
  <1>4. PairOf(U, V, F, reduce)
            = << Less(Wrap(U + V), 2 * Q), MRedConstant(Wrap(U + 4 * Q - V), F, Q, QInv) >>
    BY DEF PairOf, invbutterfly, Forward, Inverse
  <1>5. Less(U + V, 2 * Q) % Q = (U + V) % Q
    <2>1. ((U + V) - (2 * Q)) % Q = (U + V) % Q
      <3>1. 2 \in Int
        OBVIOUS
      <3>2. QED
        BY <1>1, <3>1, ModMinus, Zenon
    <2>2. QED
      BY <2>1 DEF Less
  <1>6. f \in Int /\ MRedConstant(Y, F, Q, QInv) % Q = (Y * f) % Q
    BY <1>2, TwiddleIs, OutOfMFormRange
  <1>7. Y = (U - V) + (4 * Q) /\ Y \in Int /\ 4 \in Int
    BY <1>1
  <1> HIDE DEF f, Y
  <1>8. ((U - V) + (4 * Q)) % Q = (U - V) % Q
    BY <1>1, <1>7, ModPlus, Zenon
  <1>9. ((Y % Q) * f) % Q = (Y * f) % Q /\ (((U - V) % Q) * f) % Q = ((U - V) * f) % Q
    BY <1>1, <1>6, <1>7, ModProd, Zenon
  <1>10. (Y * f) % Q = ((U - V) * f) % Q
    BY <1>7, <1>8, <1>9
  <1>11. QED
    BY <1>3, <1>4, <1>5, <1>6, <1>10 DEF f

-----------------------------------------------------------------------------
(* A round, modulo Q *)

\* The polynomial in a block's s coefficients, at the point of value j.
BlockAt(row, j, s) == [l \in 0..(s - 1) |-> row[((j \div s) * s) + l] * Pow(Omega(j), l, Q)]
Eval(row, j, s) == Total(BlockAt(row, j, s), s) % Q

\* A number d * a + l with l < d is in block a.
LEMMA InBlock ==
    ASSUME NEW d \in Nat \ {0}, NEW a \in Nat, NEW l \in 0..(d - 1)
    PROVE  ((a * d) + l) \div d = a
  <1>1. a * d = d * a /\ a \in Int
    OBVIOUS
  <1>2. ((d * a) + l) \div d = a
    BY <1>1, DivModUnique
  <1>3. QED
    BY <1>1, <1>2

\* A row falls into blocks of s coefficients, or into those of pairs d apart.
Blocks(s) == s \in Nat \ {0} /\ \E h \in Nat \ {0} : N = s * h
Pairs(d) == d \in Nat \ {0} /\ \E g \in Nat \ {0} : N = 2 * (g * d)

\* The block of pairs d apart that j is in begins with First(j, d), and the half
\* of it that j is in with Mine(j, d).
First(j, d) == (j \div (2 * d)) * (2 * d)
Mine(j, d) == (j \div d) * d

\* The pairs of the block of j: two coefficients at distance d are the first and
\* the second of one, and the half of the block that j is in is either the
\* first ones or the second ones.
LEMMA BlockPairs ==
    ASSUME NEW d \in Nat \ {0}, Pairs(d), NEW j \in Coefs, NEW l \in 0..(d - 1), NEW b, b = First(j, d)
    PROVE  /\ Mine(j, d) + l = IF (j \div d) % 2 = 0 THEN b + l ELSE b + (d + l)
           /\ b + l \in Coefs /\ b + (d + l) \in Coefs /\ (b + (d + l)) - d = b + l
           /\ (b + l) + d = b + (d + l)
           /\ ((b + l) \div d) % 2 = 0 /\ ((b + (d + l)) \div d) % 2 = 1
           /\ (b + l) \div (2 * d) = j \div (2 * d)
           /\ (b + (d + l)) \div (2 * d) = j \div (2 * d)
  <1> DEFINE a == j \div (2 * d)
             w == 2 * d
             c == (j \div d) % 2
  <1>0. PICK g \in Nat \ {0} : N = 2 * (g * d)
    BY DEF Pairs
  <1>16. b = a * w
    BY DEF First
  <1>1. j \in Nat /\ j < N
    BY NttNumbers DEF Coefs
  <1>2. j \div d = (2 * a) + c /\ a \in Nat /\ c \in {0, 1}
    BY <1>1, HalfQuotient
  <1>3. w \in Nat \ {0} /\ N = w * g
    BY <1>0
  <1>4. a < g
    <2> HIDE DEF w
    <2>1. j \div w \in Nat /\ j \div w < g
      BY <1>1, <1>3, DivBelow
    <2>2. QED
      BY <2>1 DEF w
  <1> HIDE DEF a, c
  <1>5. b \in Nat /\ b + w <= N
    <2>1. (a + 1) * w <= g * w
      BY <1>2, <1>3, <1>4
    <2>2. (a + 1) * w = b + w /\ g * w = w * g
      BY <1>16, <1>2, <1>3
    <2>3. QED
      BY <1>16, <1>2, <1>3, <2>1, <2>2
  <1>6. ((2 * a) + c) * d = b + (c * d)
    BY <1>16, <1>2
  <1>7. b + l = ((2 * a) * d) + l /\ b + (d + l) = (((2 * a) + 1) * d) + l /\ 2 * a \in Nat /\ (2 * a) + 1 \in Nat
    BY <1>16, <1>2
  <1>8. (b + l) \div d = 2 * a /\ (b + (d + l)) \div d = (2 * a) + 1
    <2>1. (((2 * a) * d) + l) \div d = 2 * a /\ ((((2 * a) + 1) * d) + l) \div d = (2 * a) + 1
      BY <1>7, InBlock, Zenon
    <2>2. QED
      BY <1>7, <2>1
  <1>9. (2 * a) % 2 = 0 /\ ((2 * a) + 1) % 2 = 1
    BY <1>2
  <1>10. l \in 0..(w - 1) /\ d + l \in 0..(w - 1)
    OBVIOUS
  <1> HIDE DEF w
  <1>11. (b + l) \div w = a /\ (b + (d + l)) \div w = a
    <2>1. ((a * w) + l) \div w = a /\ ((a * w) + (d + l)) \div w = a
      BY <1>2, <1>3, <1>10, InBlock, Zenon
    <2>2. QED
      BY <1>16, <2>1
  <1>12. /\ b + l \in Coefs /\ b + (d + l) \in Coefs /\ (b + (d + l)) - d = b + l
         /\ (b + l) + d = b + (d + l)
    <2>1. QED
      BY <1>3, <1>5, <1>10, NttNumbers DEF Coefs
  <1>13. ((b + l) \div d) % 2 = 0 /\ ((b + (d + l)) \div d) % 2 = 1
    BY <1>8, <1>9
  <1>14. Mine(j, d) + l = IF c = 0 THEN b + l ELSE b + (d + l)
    <2>1. Mine(j, d) = b + (c * d)
      BY <1>2, <1>6 DEF Mine
    <2>2. QED
      BY <1>2, <1>5, <2>1
  <1>15. QED
    BY <1>11, <1>12, <1>13, <1>14 DEF a, c, w

\* A block of s coefficients at a point: its terms are integers.
LEMMA BlockTerms ==
    ASSUME NEW s, Blocks(s), NEW j \in Coefs,
           NEW row \in [Coefs -> Word], NEW l \in 0..(s - 1)
    PROVE  /\ ((j \div s) * s) + l \in Coefs /\ row[((j \div s) * s) + l] \in Int
           /\ BlockAt(row, j, s)[l] = row[((j \div s) * s) + l] * Pow(Omega(j), l, Q)
           /\ Pow(Omega(j), l, Q) \in 0..(Q - 1) /\ Pow(Omega(j), l, Q) \in Int
           /\ BlockAt(row, j, s)[l] \in Int
  <1> DEFINE a == j \div s
  <1>0. PICK h \in Nat \ {0} : N = s * h
    BY DEF Blocks
  <1>1. s \in Nat \ {0} /\ j \in Nat /\ j < N /\ Q \in Nat \ {0} /\ R \in Nat \ {0} /\ l \in Nat
    BY NttNumbers DEF Coefs, Blocks
  <1>2. a \in Nat /\ a < h
    BY <1>0, <1>1, DivBelow
  <1> HIDE DEF a
  <1>3. (a * s) + l \in Coefs
    <2>1. (a + 1) * s <= h * s
      BY <1>1, <1>2
    <2>2. (a + 1) * s = (a * s) + s /\ h * s = s * h /\ a * s \in Nat
      BY <1>1, <1>2
    <2>3. QED
      BY <1>0, <1>1, <2>1, <2>2 DEF Coefs
  <1>4. row[(a * s) + l] \in Int
    <2>1. row[(a * s) + l] \in Word
      BY <1>3
    <2>2. QED
      BY <1>1, <2>1 DEF Word
  <1>5. Omega(j) \in Int
    <2>1. OddPower(j) \in Nat
      BY <1>1, ReversalRange
    <2>2. Omega(j) \in 0..(Q - 1)
      BY <2>1, RootCycle DEF Omega
    <2>3. QED
      BY <1>1, <2>2
  <1>6. Pow(Omega(j), l, Q) \in 0..(Q - 1)
    BY <1>1, <1>5, PowSteps, Zenon
  <1>7. Pow(Omega(j), l, Q) \in Int
    BY <1>1, <1>6
  <1>8. BlockAt(row, j, s)[l] = row[(a * s) + l] * Pow(Omega(j), l, Q)
    BY DEF BlockAt, a
  <1>9. BlockAt(row, j, s)[l] \in Int
    BY <1>4, <1>7, <1>8
  <1>10. QED
    BY <1>3, <1>4, <1>6, <1>7, <1>8, <1>9 DEF a

\* The terms of old's block of pairs d apart, and those of new's half of it.
HalvesTerms(old, new, j, d, l) ==
    /\ Pow(Omega(j), l, Q) \in Int /\ Pow(Omega(j), d + l, Q) \in Int /\ Pow(Omega(j), d, Q) \in Int
    /\ Congruent(Pow(Omega(j), d + l, Q), Pow(Omega(j), d, Q) * Pow(Omega(j), l, Q), Q)
    /\ old[First(j, d) + l] \in Int /\ old[First(j, d) + (d + l)] \in Int
    /\ new[Mine(j, d) + l] \in Int
    /\ BlockAt(old, j, 2 * d)[l] = old[First(j, d) + l] * Pow(Omega(j), l, Q)
    /\ BlockAt(old, j, 2 * d)[d + l] = old[First(j, d) + (d + l)] * Pow(Omega(j), d + l, Q)
    /\ BlockAt(new, j, d)[l] = new[Mine(j, d) + l] * Pow(Omega(j), l, Q)
    /\ BlockAt(old, j, 2 * d)[l] \in Int /\ BlockAt(old, j, 2 * d)[d + l] \in Int
    /\ BlockAt(new, j, d)[l] \in Int

\* Two terms d apart in a block of 2d, and the term of the half block of j at
\* the same place.
LEMMA BlockHalves ==
    ASSUME NEW d \in Nat \ {0}, Pairs(d), NEW j \in Coefs,
           NEW old \in [Coefs -> Word], NEW new \in [Coefs -> Word], NEW l \in 0..(d - 1)
    PROVE  HalvesTerms(old, new, j, d, l)
  <1> DEFINE e == 2 * d
             x == Pow(Omega(j), l, Q)
             y == Pow(Omega(j), d + l, Q)
             w == Pow(Omega(j), d, Q)
  <1>0. PICK g \in Nat \ {0} : N = 2 * (g * d)
    BY DEF Pairs
  <1>1. /\ Blocks(e) /\ Blocks(d)
        /\ l \in 0..(e - 1) /\ d + l \in 0..(e - 1) /\ l \in Nat /\ d \in Nat
    <2>1. e \in Nat \ {0} /\ N = e * g /\ 2 * g \in Nat \ {0} /\ N = d * (2 * g)
      BY <1>0
    <2> HIDE DEF e
    <2>2. Blocks(e) /\ Blocks(d)
      BY <2>1 DEF Blocks
    <2>3. QED
      BY <2>2 DEF e
  <1>2. (j \div d) * d = Mine(j, d) /\ (j \div e) * e = First(j, d)
    BY DEF First, Mine
  <1>3. /\ new[((j \div d) * d) + l] \in Int /\ BlockAt(new, j, d)[l] \in Int
        /\ BlockAt(new, j, d)[l] = new[((j \div d) * d) + l] * x /\ x \in Int
    <2> HIDE DEF e
    <2>1. QED
      BY <1>1, BlockTerms, Zenon
  <1>4. /\ old[((j \div e) * e) + l] \in Int /\ BlockAt(old, j, e)[l] \in Int
        /\ BlockAt(old, j, e)[l] = old[((j \div e) * e) + l] * x
    <2> HIDE DEF e
    <2>1. QED
      BY <1>1, BlockTerms, Zenon
  <1>5. /\ old[((j \div e) * e) + (d + l)] \in Int /\ BlockAt(old, j, e)[d + l] \in Int
        /\ BlockAt(old, j, e)[d + l] = old[((j \div e) * e) + (d + l)] * y /\ y \in Int
    <2> HIDE DEF e
    <2>1. QED
      BY <1>1, BlockTerms, Zenon
  <1>6. Q \in Nat \ {0} /\ Omega(j) \in Int
    <2>1. j \in Nat
      BY NttNumbers DEF Coefs
    <2>2. OddPower(j) \in Nat /\ Q \in Nat \ {0}
      BY <2>1, NttNumbers, ReversalRange
    <2>3. Omega(j) \in 0..(Q - 1)
      BY <2>2, RootCycle DEF Omega
    <2>4. QED
      BY <2>2, <2>3
  <1>7. w \in Int
    <2>1. w \in 0..(Q - 1)
      BY <1>1, <1>6, PowSteps, Zenon
    <2>2. QED
      BY <1>6, <2>1
  <1>8. y = (w * x) % Q
    BY <1>1, <1>6, PowPlus, Zenon
  <1> HIDE DEF x, y, w
  <1>9. Congruent(y, w * x, Q)
    <2>1. w * x \in Int
      BY <1>3, <1>7
    <2>2. Congruent((w * x) % Q, w * x, Q)
      BY <1>6, <2>1, CongruentIs, Zenon
    <2>3. QED
      BY <1>8, <2>2
  <1>10. QED
    BY <1>2, <1>3, <1>4, <1>5, <1>7, <1>9 DEF e, x, y, w, HalvesTerms

\* What a forward round makes of a block of 2d coefficients leaves its value.
LEMMA HalvesAdd ==
    ASSUME NEW d \in Nat \ {0}, Pairs(d), NEW j \in Coefs,
           NEW old \in [Coefs -> Word], NEW new \in [Coefs -> Word],
           \A l \in 0..(d - 1) :
               Congruent(new[Mine(j, d) + l],
                         old[First(j, d) + l] + (Pow(Omega(j), d, Q) * old[First(j, d) + (d + l)]), Q)
    PROVE  Eval(old, j, 2 * d) = Eval(new, j, d)
  <1> DEFINE f == BlockAt(old, j, 2 * d)
             h == BlockAt(new, j, d)
  <1>1. Q \in Nat \ {0} /\ d \in Nat /\ 1 \in Int
    BY NttNumbers
  <1>2. ASSUME NEW l \in 0..(d - 1)
        PROVE  /\ f[l] \in Int /\ f[d + l] \in Int /\ h[l] \in Int
               /\ Congruent(f[l] + f[d + l], 1 * h[l], Q)
    <2> DEFINE x == Pow(Omega(j), l, Q)
               y == Pow(Omega(j), d + l, Q)
               w == Pow(Omega(j), d, Q)
               A == old[First(j, d) + l]
               B == old[First(j, d) + (d + l)]
               C == new[Mine(j, d) + l]
    <2>1. /\ x \in Int /\ y \in Int /\ w \in Int /\ Congruent(y, w * x, Q)
          /\ A \in Int /\ B \in Int /\ C \in Int
          /\ f[l] = A * x /\ f[d + l] = B * y /\ h[l] = C * x
          /\ f[l] \in Int /\ f[d + l] \in Int /\ h[l] \in Int
      <3>1. HalvesTerms(old, new, j, d, l)
        BY BlockHalves, Zenon
      <3>2. QED
        BY <3>1, Zenon DEF HalvesTerms
    <2>2. Congruent(C, A + (w * B), Q)
      OBVIOUS
    <2> HIDE DEF A, B, C, x, y, w, f, h
    <2>3. Congruent((A * x) + (B * y), 1 * (C * x), Q)
      BY <1>1, <2>1, <2>2, TwoTerms, Zenon
    <2>4. Congruent(f[l] + f[d + l], 1 * h[l], Q)
      BY <2>1, <2>3
    <2>5. QED
      BY <2>1, <2>4
  <1> HIDE DEF f, h
  <1>3. \A l \in 0..((2 * d) - 1) : f[l] \in Int
    <2>1. SUFFICES ASSUME NEW l \in 0..((2 * d) - 1) PROVE f[l] \in Int
      OBVIOUS
    <2>2. CASE l < d
      BY <1>2, <2>2
    <2>3. CASE l >= d
      <3>1. l - d \in 0..(d - 1) /\ d + (l - d) = l
        BY <2>3
      <3>2. f[d + (l - d)] \in Int
        BY <1>2, <3>1
      <3>3. QED
        BY <3>1, <3>2
    <2>4. QED
      BY <2>2, <2>3
  <1>4. Congruent(Total(f, 2 * d), 1 * Total(h, d), Q)
    BY <1>1, <1>2, <1>3, TotalFolds, Zenon
  <1>5. Total(h, d) \in Int
    <2>1. d \in 0..d /\ \A l \in 0..(d - 1) : h[l] \in Int
      BY <1>2
    <2>2. QED
      BY <1>1, <2>1, TotalSteps
  <1>6. 1 * Total(h, d) = Total(h, d)
    BY <1>5
  <1>7. QED
    BY <1>4, <1>6 DEF Eval, f, h, Congruent

\* What an inverse round makes of a half block of d coefficients doubles its
\* value.
LEMMA HalvesMerge ==
    ASSUME NEW d \in Nat \ {0}, Pairs(d), NEW j \in Coefs,
           NEW old \in [Coefs -> Word], NEW new \in [Coefs -> Word], NEW g \in Int,
           Congruent(Pow(Omega(j), d, Q) * g, IF (j \div d) % 2 = 0 THEN 1 ELSE -1, Q),
           \A l \in 0..(d - 1) :
               /\ Congruent(new[First(j, d) + l], old[First(j, d) + l] + old[First(j, d) + (d + l)], Q)
               /\ Congruent(new[First(j, d) + (d + l)],
                            (old[First(j, d) + l] - old[First(j, d) + (d + l)]) * g, Q)
    PROVE  Eval(new, j, 2 * d) = (2 * Total(BlockAt(old, j, d), d)) % Q
  <1> DEFINE f == BlockAt(new, j, 2 * d)
             h == BlockAt(old, j, d)
  <1>1. Q \in Nat \ {0} /\ d \in Nat /\ 2 \in Int
    BY NttNumbers
  <1>2. ASSUME NEW l \in 0..(d - 1)
        PROVE  /\ f[l] \in Int /\ f[d + l] \in Int /\ h[l] \in Int
               /\ Congruent(f[l] + f[d + l], 2 * h[l], Q)
    <2> DEFINE x == Pow(Omega(j), l, Q)
               y == Pow(Omega(j), d + l, Q)
               w == Pow(Omega(j), d, Q)
               A == old[First(j, d) + l]
               B == old[First(j, d) + (d + l)]
               C == old[Mine(j, d) + l]
               D == new[First(j, d) + l]
               E == new[First(j, d) + (d + l)]
               v == IF (j \div d) % 2 = 0 THEN 1 ELSE -1
    <2>1. /\ x \in Int /\ y \in Int /\ w \in Int /\ Congruent(y, w * x, Q)
          /\ D \in Int /\ E \in Int /\ C \in Int
          /\ f[l] = D * x /\ f[d + l] = E * y /\ h[l] = C * x
          /\ f[l] \in Int /\ f[d + l] \in Int /\ h[l] \in Int
      <3>1. HalvesTerms(new, old, j, d, l)
        BY BlockHalves, Zenon
      <3>2. QED
        BY <3>1, Zenon DEF HalvesTerms
    <2>2. A \in Int /\ B \in Int
      <3>1. HalvesTerms(old, new, j, d, l)
        BY BlockHalves, Zenon
      <3>2. QED
        BY <3>1, Zenon DEF HalvesTerms
    <2>3. C = Sided(v, A, B)
      <3>1. Mine(j, d) + l = IF (j \div d) % 2 = 0 THEN First(j, d) + l ELSE First(j, d) + (d + l)
        BY BlockPairs
      <3>2. QED
        BY <3>1 DEF Sided
    <2>4. v \in Signs /\ Congruent(w * g, v, Q) /\ Congruent(D, A + B, Q) /\ Congruent(E, (A - B) * g, Q)
      BY DEF Signs
    <2> HIDE DEF A, B, C, D, E, v, x, y, w, f, h
    <2>5. Congruent((D * x) + (E * y), 2 * (Sided(v, A, B) * x), Q)
      BY <1>1, <2>1, <2>2, <2>4, TwoTermsBack, Zenon
    <2>6. Congruent(f[l] + f[d + l], 2 * h[l], Q)
      BY <2>1, <2>3, <2>5
    <2>7. QED
      BY <2>1, <2>6
  <1> HIDE DEF f, h
  <1>3. \A l \in 0..((2 * d) - 1) : f[l] \in Int
    <2>1. SUFFICES ASSUME NEW l \in 0..((2 * d) - 1) PROVE f[l] \in Int
      OBVIOUS
    <2>2. CASE l < d
      BY <1>2, <2>2
    <2>3. CASE l >= d
      <3>1. l - d \in 0..(d - 1) /\ d + (l - d) = l
        BY <2>3
      <3>2. f[d + (l - d)] \in Int
        BY <1>2, <3>1
      <3>3. QED
        BY <3>1, <3>2
    <2>4. QED
      BY <2>2, <2>3
  <1>4. Congruent(Total(f, 2 * d), 2 * Total(h, d), Q)
    BY <1>1, <1>2, <1>3, TotalFolds, Zenon
  <1>5. QED
    BY <1>4 DEF Eval, f, h, Congruent

\* The pairs of a round's blocks.
LEMMA RoundPairs ==
    ASSUME k \in 0..(LogN - 1)
    PROVE  /\ Round \in 0..(LogN - 1) /\ LogN - 1 - Round \in 0..(LogN - 1)
           /\ t \in Nat \ {0} /\ Pairs(t) /\ t = 2^(LogN - 1 - Round)
           /\ m = 2^(LogN - 1 - (LogN - 1 - Round))
  <1>1. Round \in 0..(LogN - 1)
    BY NttAssumption DEF Round
  <1>2. t \in Nat \ {0} /\ m \in Nat \ {0} /\ N = 2 * (m * t)
    BY <1>1, PowersAssumption DEF t, m
  <1>3. LogN - 1 - Round \in 0..(LogN - 1) /\ LogN - 1 - (LogN - 1 - Round) = Round
    BY <1>1, NttAssumption
  <1>4. QED
    BY <1>1, <1>2, <1>3 DEF Pairs, t, m

\* The pairs of the block of j after a round.
LEMMA RowOfRound ==
    ASSUME k \in 0..(LogN - 1), NEW table, NEW reduce, DoRound(EachPair(table, reduce)),
           NEW j \in Coefs, NEW l \in 0..(t - 1), NEW F, F = table[m + j \div (2 * t)]
    PROVE  /\ First(j, t) + l \in Coefs /\ First(j, t) + (t + l) \in Coefs
           /\ p'[First(j, t) + l]
                = PairOf(p[First(j, t) + l], p[First(j, t) + (t + l)], F, reduce)[1]
           /\ p'[First(j, t) + (t + l)]
                = PairOf(p[First(j, t) + l], p[First(j, t) + (t + l)], F, reduce)[2]
  <1> DEFINE b == First(j, t)
  <1>1. t \in Nat \ {0} /\ Pairs(t)
    BY RoundPairs
  <1> HIDE DEF b
  <1>2. /\ b + l \in Coefs /\ b + (t + l) \in Coefs /\ (b + (t + l)) - t = b + l
        /\ (b + l) + t = b + (t + l)
        /\ ((b + l) \div t) % 2 = 0 /\ ((b + (t + l)) \div t) % 2 = 1
        /\ (b + l) \div (2 * t) = j \div (2 * t)
        /\ (b + (t + l)) \div (2 * t) = j \div (2 * t)
    <2> HIDE DEF t
    <2>1. QED
      BY <1>1, BlockPairs DEF b
  <1>3. p' = EachPair(table, reduce)
    BY DEF DoRound
  <1> HIDE DEF t
  <1>4. EachPair(table, reduce)[b + l] = PairOf(p[b + l], p[b + (t + l)], F, reduce)[1]
    BY <1>2 DEF EachPair
  <1>5. EachPair(table, reduce)[b + (t + l)] = PairOf(p[b + l], p[b + (t + l)], F, reduce)[2]
    BY <1>2 DEF EachPair
  <1>6. QED
    BY <1>2, <1>3, <1>4, <1>5 DEF b

\* A forward round keeps the value of every block, at half the length.
LEMMA ForwardKeeps ==
    ASSUME NttInv, p' \in [Coefs -> Word], NEW reduce \in BOOLEAN, ForwardRound(reduce),
           k \in 0..(LogN - 1), \A i \in Coefs : p[i] < 8 * Q /\ (reduce \/ p[i] < 6 * Q),
           NEW j \in Coefs
    PROVE  Eval(p, j, 2 * t) = Eval(p', j, t)
  <1> DEFINE r == LogN - 1 - Round
             F == Psi[m + j \div (2 * t)]
             f == OutOfMForm(F)
             w == Pow(Omega(j), t, Q)
  <1>1. fn \in Forward /\ DoRound(EachPair(Psi, reduce)) /\ p \in [Coefs -> Word]
    BY DEF ForwardRound, NttInv, TypeOK
  <1>2. t \in Nat \ {0} /\ Pairs(t) /\ r \in 0..(LogN - 1) /\ t = 2^r /\ m = 2^(LogN - 1 - r)
    BY RoundPairs
  <1>3. Q \in Nat \ {0} /\ R \in Nat
    BY NttNumbers
  <1>4. /\ f \in 0..(Q - 1) /\ F \in 0..(Q - 1)
        /\ w = IF (j \div t) % 2 = 0 THEN f ELSE (-f) % Q
    BY <1>2, OmegaPower
  <1> HIDE DEF F, r, t, m
  <1>5. SUFFICES ASSUME NEW l \in 0..(t - 1)
                 PROVE  Congruent(p'[Mine(j, t) + l],
                                  p[First(j, t) + l] + (w * p[First(j, t) + (t + l)]), Q)
    BY <1>1, <1>2, HalvesAdd
  <1> DEFINE U == p[First(j, t) + l]
             V == p[First(j, t) + (t + l)]
  <1>6. /\ First(j, t) + l \in Coefs /\ First(j, t) + (t + l) \in Coefs
        /\ p'[First(j, t) + l] = PairOf(U, V, F, reduce)[1]
        /\ p'[First(j, t) + (t + l)] = PairOf(U, V, F, reduce)[2]
    BY <1>1, RowOfRound DEF F
  <1>7. U \in 0..((8 * Q) - 1) /\ V \in 0..((8 * Q) - 1) /\ (reduce \/ U < 6 * Q)
    <2>1. \A i \in Coefs : p[i] \in Nat
      BY <1>1, <1>3 DEF Word
    <2>2. QED
      BY <1>3, <1>6, <2>1
  <1>8. Mine(j, t) + l = IF (j \div t) % 2 = 0 THEN First(j, t) + l ELSE First(j, t) + (t + l)
    BY <1>2, BlockPairs
  <1> HIDE DEF U, V
  <1> DEFINE z == V * f
  <1>9. PairOf(U, V, F, reduce)[1] % Q = (U + z) % Q /\ PairOf(U, V, F, reduce)[2] % Q = (U - z) % Q
    BY <1>1, <1>4, <1>7, ForwardPairIs
  <1> HIDE DEF f
  <1>10. f \in Int /\ U \in Int /\ V \in Int /\ z \in Int /\ -f \in Int
    BY <1>4, <1>7
  <1>11. CASE (j \div t) % 2 = 0
    <2>1. U + (w * V) = U + z
      BY <1>4, <1>10, <1>11
    <2>2. p'[Mine(j, t) + l] = PairOf(U, V, F, reduce)[1]
      BY <1>6, <1>8, <1>11
    <2>3. QED
      BY <1>9, <2>1, <2>2 DEF Congruent, U, V
  <1>12. CASE (j \div t) % 2 # 0
    <2>1. w = (-f) % Q /\ w \in Int
      BY <1>3, <1>4, <1>10, <1>12
    <2> HIDE DEF w
    <2>2. Congruent(w, -f, Q) /\ Congruent(V, V, Q) /\ Congruent(U, U, Q)
      BY <1>3, <1>10, <2>1, CongruentIs, Zenon
    <2>3. w * V \in Int /\ (-f) * V \in Int /\ U + ((-f) * V) = U - z /\ U + (w * V) \in Int /\ U - z \in Int
      BY <1>10, <2>1
    <2>4. Congruent(w * V, (-f) * V, Q)
      BY <1>3, <1>10, <2>1, <2>2, CongruentProduct, Zenon
    <2>5. Congruent(U + (w * V), U + ((-f) * V), Q)
      BY <1>3, <1>10, <2>2, <2>3, <2>4, CongruentSum, Zenon
    <2>6. p'[Mine(j, t) + l] = PairOf(U, V, F, reduce)[2]
      BY <1>6, <1>8, <1>12
    <2>7. QED
      BY <1>9, <2>3, <2>5, <2>6 DEF Congruent, U, V, w
  <1>13. QED
    BY <1>11, <1>12

\* An inverse round doubles the value of every block, at twice the length.
LEMMA InverseDoubles ==
    ASSUME NttInv, p' \in [Coefs -> Word], fn \in Inverse, NEW reduce \in BOOLEAN, DoRound(EachPair(PsiInv, reduce)),
           k \in 0..(LogN - 1), NEW j \in Coefs
    PROVE  Eval(p', j, 2 * t) = (2 * Total(BlockAt(p, j, t), t)) % Q
  <1> DEFINE r == LogN - 1 - Round
             i == m + j \div (2 * t)
             F == Psi[i]
             G == PsiInv[i]
             f == OutOfMForm(F)
             g == OutOfMForm(G)
             w == Pow(Omega(j), t, Q)
             v == IF (j \div t) % 2 = 0 THEN 1 ELSE -1
  <1>1. p \in [Coefs -> Word] /\ \A l \in Coefs : p[l] < 2 * Q
    BY DEF NttInv, TypeOK, RoundsFit
  <1>2. t \in Nat \ {0} /\ Pairs(t) /\ r \in 0..(LogN - 1) /\ t = 2^r /\ m = 2^(LogN - 1 - r)
    BY RoundPairs
  <1>3. Q \in Nat \ {0} /\ R \in Nat
    BY NttNumbers
  <1>4. /\ f \in 0..(Q - 1) /\ F \in 0..(Q - 1)
        /\ w = IF (j \div t) % 2 = 0 THEN f ELSE (-f) % Q
    BY <1>2, OmegaPower
  <1>5. i \in Coefs
    <2>1. m \in Nat \ {0} /\ N = 2 * (m * t)
      BY <1>2, PowersAssumption, RoundPairs DEF t, m
    <2> HIDE DEF t, m
    <2>2. QED
      BY <1>2, <2>1, PairsInRow
  <1>6. G \in 0..(Q - 1) /\ g \in 0..(Q - 1) /\ (f * g) % Q = 1
    <2>1. PsiInv \in [Coefs -> 0..(Q - 1)]
      BY NttAssumption
    <2> HIDE DEF i
    <2>2. G \in 0..(Q - 1)
      BY <1>5, <2>1
    <2>3. QED
      BY <1>5, <2>2, OutOfMFormRange, TablesAssumption
  <1> HIDE DEF F, G, r, t, m, i
  <1>7. f \in Int /\ g \in Int /\ -f \in Int /\ f * g \in Int /\ (-f) * g = -(f * g) /\ w \in Int
    <2>1. f \in Int /\ g \in Int
      BY <1>4, <1>6
    <2> HIDE DEF f, g
    <2>2. QED
      BY <1>3, <1>4, <2>1
  <1> HIDE DEF f, g, w
  <1>8. Congruent(w * g, v, Q)
    <2>1. 1 % Q = 1
      BY NttNumbers
    <2>2. CASE (j \div t) % 2 = 0
      BY <1>4, <1>6, <2>1, <2>2 DEF Congruent
    <2>3. CASE (j \div t) % 2 # 0
      <3>1. w = (-f) % Q
        BY <1>4, <2>3
      <3>2. Congruent(w, -f, Q) /\ Congruent(g, g, Q)
        BY <1>3, <1>7, <3>1, CongruentIs, Zenon
      <3>3. Congruent(w * g, (-f) * g, Q)
        BY <1>3, <1>7, <3>2, CongruentProduct, Zenon
      <3>4. (-(f * g)) % Q = (-1) % Q
        <4>1. (-((f * g) % Q)) % Q = (-(f * g)) % Q
          BY <1>3, <1>7, ModNeg, Zenon
        <4>2. QED
          BY <1>6, <4>1
      <3>5. QED
        BY <1>7, <2>3, <3>3, <3>4 DEF Congruent
    <2>4. QED
      BY <2>2, <2>3
  <1>9. SUFFICES ASSUME NEW l \in 0..(t - 1)
                 PROVE  /\ Congruent(p'[First(j, t) + l], p[First(j, t) + l] + p[First(j, t) + (t + l)], Q)
                        /\ Congruent(p'[First(j, t) + (t + l)],
                                     (p[First(j, t) + l] - p[First(j, t) + (t + l)]) * g, Q)
    BY <1>1, <1>2, <1>7, <1>8, HalvesMerge DEF w
  <1> DEFINE U == p[First(j, t) + l]
             V == p[First(j, t) + (t + l)]
  <1>10. /\ First(j, t) + l \in Coefs /\ First(j, t) + (t + l) \in Coefs
         /\ p'[First(j, t) + l] = PairOf(U, V, G, reduce)[1]
         /\ p'[First(j, t) + (t + l)] = PairOf(U, V, G, reduce)[2]
    BY RowOfRound DEF G, i
  <1>11. U \in 0..((2 * Q) - 1) /\ V \in 0..((2 * Q) - 1)
    <2>1. \A l2 \in Coefs : p[l2] \in Nat
      BY <1>1, <1>3 DEF Word
    <2>2. QED
      BY <1>1, <1>3, <1>10, <2>1
  <1> HIDE DEF U, V
  <1>12. /\ PairOf(U, V, G, reduce)[1] % Q = (U + V) % Q
         /\ PairOf(U, V, G, reduce)[2] % Q = ((U - V) * OutOfMForm(G)) % Q
    BY <1>6, <1>11, InversePairIs
  <1>13. QED
    BY <1>10, <1>12 DEF Congruent, U, V, g

-----------------------------------------------------------------------------
(* What the transforms compute *)

\* A block of one coefficient has its value.
LEMMA OneCoefficient ==
    ASSUME NEW row \in [Coefs -> Word], NEW j \in Coefs
    PROVE  Eval(row, j, 1) = row[j] % Q
  <1> DEFINE f == BlockAt(row, j, 1)
  <1>1. Blocks(1) /\ 0 \in 0..(1 - 1) /\ j \in Nat /\ Q \in Nat \ {0} /\ 2 <= Q
    <2>1. N = 1 * N /\ N \in Nat \ {0} /\ 1 \in Nat \ {0}
      BY NttNumbers
    <2>2. Blocks(1)
      BY <2>1 DEF Blocks
    <2>3. QED
      BY <2>2, NttNumbers DEF Coefs
  <1>2. f[0] = row[((j \div 1) * 1) + 0] * Pow(Omega(j), 0, Q) /\ f[0] \in Int /\ row[((j \div 1) * 1) + 0] \in Int
    BY <1>1, BlockTerms, Zenon
  <1>3. ((j \div 1) * 1) + 0 = j
    BY <1>1
  <1>4. Pow(Omega(j), 0, Q) = 1
    <2>1. OddPower(j) \in Nat
      BY <1>1, ReversalRange
    <2>2. Omega(j) \in Int /\ 0 \in Nat /\ 1 % Q = 1
      <3>1. Omega(j) \in 0..(Q - 1)
        BY <2>1, RootCycle DEF Omega
      <3>2. Omega(j) \in Int
        BY <3>1
      <3>3. QED
        BY <1>1, <3>2
    <2>3. Pow(Omega(j), 0, Q) = 1 % Q
      BY <1>1, <2>2, PowSteps, Zenon
    <2>4. QED
      BY <2>2, <2>3
  <1>5. f[0] = row[j] /\ row[j] \in Int
    BY <1>2, <1>3, <1>4
  <1> HIDE DEF f
  <1>6. Total(f, 1) = f[0]
    <2>1. \A i \in 0..(1 - 1) : f[i] \in Int
      BY <1>2
    <2>2. Total(f, 0) = 0 /\ Total(f, 1) = Total(f, 1 - 1) + f[1 - 1]
      <3>1. 1 \in Nat /\ 1 \in 1..1
        OBVIOUS
      <3>2. QED
        BY <2>1, <3>1, TotalSteps
    <2>3. QED
      BY <1>2, <2>2
  <1>7. QED
    BY <1>5, <1>6 DEF Eval, f

\* ValueAt is the value of the whole row.
LEMMA ValueAtIs ==
    ASSUME NEW a \in [Coefs -> Word], NEW j \in Coefs
    PROVE  ValueAt(a, j) = Eval(a, j, N)
  <1> DEFINE B == BlockAt(a, j, N)
             term(i) == (a[i-1] % Q) * RootTo[((2 * BitReverse64(j, LogN) + 1) * (i-1)) % (2 * N)]
             sum[i \in 0..N] ==
                IF i = 0 THEN 0
                ELSE (sum[i-1] + (a[i-1] % Q) * RootTo[((2 * BitReverse64(j, LogN) + 1) * (i-1)) % (2 * N)]) % Q
             h == [i \in 0..N |-> Total(B, i) % Q]
             H == {i \in 0..N : sum[i] = Total(B, i) % Q}
  <1>1. /\ N \in Nat \ {0} /\ N \in Nat /\ 2 * N \in Nat \ {0} /\ Q \in Nat \ {0} /\ 0 % Q = 0
        /\ j \in Nat /\ j < N /\ Root \in Int
    BY NttNumbers, RootToIs DEF Coefs
  <1>2. Blocks(N)
    <2>1. N = N * 1 /\ 1 \in Nat \ {0}
      BY <1>1
    <2>2. QED
      BY <1>1, <2>1 DEF Blocks
  <1>3. OddPower(j) \in Nat /\ OddPower(j) = 2 * BitReverse64(j, LogN) + 1
    BY <1>1, ReversalRange DEF OddPower
  <1>4. ASSUME NEW l \in 0..(N - 1)
        PROVE  /\ B[l] \in Int /\ l \in Coefs /\ a[l] \in Int /\ B[l] = a[l] * Pow(Omega(j), l, Q)
               /\ Pow(Omega(j), l, Q) \in Int
    <2>1. /\ B[l] \in Int /\ a[((j \div N) * N) + l] \in Int
          /\ B[l] = a[((j \div N) * N) + l] * Pow(Omega(j), l, Q) /\ Pow(Omega(j), l, Q) \in Int
      BY <1>2, BlockTerms, Zenon
    <2>2. ((j \div N) * N) + l = l
      <3>1. j \div N = 0
        BY <1>1
      <3>2. QED
        BY <1>1, <3>1
    <2>3. QED
      BY <2>1, <2>2 DEF Coefs
  <1> HIDE DEF B
  <1>5. ASSUME NEW l \in 0..(N - 1)
        PROVE  RootTo[(OddPower(j) * l) % (2 * N)] = Pow(Omega(j), l, Q)
    <2> DEFINE d == 2 * N
               x == OddPower(j) * l
               e == x % d
               c == x \div d
    <2>1. x \in Nat /\ l \in Nat
      BY <1>3
    <2> HIDE DEF x
    <2>2. e \in 0..(d - 1) /\ c \in Nat /\ x = (d * c) + e
      <3> HIDE DEF d
      <3>1. d \in Nat \ {0}
        BY <1>1 DEF d
      <3>2. QED
        BY <2>1, <3>1, DivNat
    <2> HIDE DEF e, c
    <2>3. e \in 0..(2 * N) /\ e \in Nat /\ x = e + (c * (2 * N))
      BY <1>1, <2>2
    <2>4. RootTo[e] = Pow(Root, e, Q)
      BY <2>3, RootToIs
    <2>5. Pow(Root, e + (c * (2 * N)), Q) = Pow(Root, e, Q)
      BY <2>2, <2>3, RootCycle
    <2>6. Pow(Root, OddPower(j) * l, Q) = Pow(Omega(j), l, Q)
      BY <1>1, <1>3, <2>1, PowTimes, Zenon DEF Omega
    <2>7. QED
      BY <2>3, <2>4, <2>5, <2>6 DEF e, x, d
  <1>6. /\ Total(B, 0) = 0 /\ \A i \in 0..N : Total(B, i) \in Int
        /\ \A i \in 1..N : Total(B, i) = Total(B, i - 1) + B[i - 1]
    BY <1>1, <1>4, TotalSteps
  <1>7. ASSUME NEW i \in 0..N, i # 0
        PROVE  Total(B, i) % Q
                 = ((Total(B, i - 1) % Q) + (a[i-1] % Q)
                      * RootTo[((2 * BitReverse64(j, LogN) + 1) * (i-1)) % (2 * N)]) % Q
    <2> DEFINE l == i - 1
               x == Pow(Omega(j), l, Q)
               T == Total(B, l)
               b == a[l]
    <2>1. l \in 0..(N - 1) /\ i \in 1..N /\ l \in 0..N
      BY <1>1, <1>7
    <2>2. T \in Int /\ Total(B, i) = T + B[l] /\ x \in Int /\ b \in Int /\ B[l] = b * x
      BY <1>4, <1>6, <2>1
    <2>3. RootTo[((2 * BitReverse64(j, LogN) + 1) * l) % (2 * N)] = x
      BY <1>3, <1>5, <2>1
    <2> HIDE DEF l, x, T, b
    <2>4. T % Q \in Int /\ b % Q \in Int /\ (b % Q) * x \in Int /\ b * x \in Int
      <3>1. T % Q \in Int /\ b % Q \in Int
        BY <1>1, <2>2
      <3>2. QED
        BY <2>2, <3>1
    <2>5. Congruent(T % Q, T, Q) /\ Congruent(b % Q, b, Q) /\ Congruent(x, x, Q)
      BY <1>1, <2>2, CongruentIs, Zenon
    <2>6. Congruent((b % Q) * x, b * x, Q)
      BY <1>1, <2>2, <2>4, <2>5, CongruentProduct, Zenon
    <2>7. Congruent((T % Q) + ((b % Q) * x), T + (b * x), Q)
      BY <1>1, <2>2, <2>4, <2>5, <2>6, CongruentSum, Zenon
    <2>8. QED
      BY <2>2, <2>3, <2>7 DEF Congruent, l, T, b
  <1>8. h = [i \in 0..N |->
                IF i = 0 THEN 0
                ELSE (h[i-1] + (a[i-1] % Q) * RootTo[((2 * BitReverse64(j, LogN) + 1) * (i-1)) % (2 * N)]) % Q]
    <2>1. \A i \in 0..N : i # 0 => i - 1 \in 0..N
      BY <1>1
    <2>2. \A i \in 0..N : i # 0 => h[i - 1] = Total(B, i - 1) % Q
      BY <2>1
    <2> HIDE DEF h
    <2>3. \A i \in 0..N : Total(B, i) % Q =
                IF i = 0 THEN 0
                ELSE (h[i-1] + (a[i-1] % Q) * RootTo[((2 * BitReverse64(j, LogN) + 1) * (i-1)) % (2 * N)]) % Q
      BY <1>1, <1>6, <1>7, <2>2
    <2>4. h = [i \in 0..N |-> Total(B, i) % Q]
      BY DEF h
    <2>5. QED
      BY <2>3, <2>4, Zenon
  <1> HIDE DEF h
  <1>9. sum = [i \in 0..N |->
                IF i = 0 THEN 0
                ELSE (sum[i-1] + (a[i-1] % Q) * RootTo[((2 * BitReverse64(j, LogN) + 1) * (i-1)) % (2 * N)]) % Q]
    BY <1>8 DEF sum
  <1>10. ValueAt(a, j) = sum[N]
    BY DEF ValueAt
  <1> HIDE DEF sum
  <1>11. 0 \in H
    <2>1. 0 \in 0..N
      BY <1>1
    <2>2. sum[0] = 0
      BY <1>9, <2>1
    <2>3. QED
      BY <1>1, <1>6, <2>1, <2>2
  <1>12. ASSUME NEW i \in 1..N, i - 1 \in H PROVE i \in H
    <2>1. i \in 0..N /\ i # 0
      BY <1>1
    <2>2. sum[i] = (sum[i-1] + (a[i-1] % Q) * RootTo[((2 * BitReverse64(j, LogN) + 1) * (i-1)) % (2 * N)]) % Q
      BY <1>9, <2>1
    <2>3. sum[i - 1] = Total(B, i - 1) % Q
      BY <1>12
    <2>4. sum[i] = Total(B, i) % Q
      BY <1>7, <2>1, <2>2, <2>3
    <2>5. QED
      BY <2>1, <2>4
  <1> HIDE DEF H
  <1>13. \A i \in 0..N : i \in H
    BY <1>1, <1>11, <1>12, Induction
  <1>14. N \in 0..N
    BY <1>1
  <1>15. QED
    BY <1>10, <1>13, <1>14 DEF H, Eval, B

-----------------------------------------------------------------------------
(* The invariant of the values *)

\* A forward transform keeps the values of its blocks, which shrink to single
\* coefficients; an inverse one doubles them, while the blocks grow to the row.
EvalInv ==
    /\ fn \in Forward /\ k <= LogN =>
           \A j \in Coefs : Eval(p, j, 2^(LogN - k)) = ValueAt(source, j)
    /\ fn \in Inverse /\ k <= LogN =>
           \A j \in Coefs : Eval(p, j, 2^k) = (2^k * source[j]) % Q
    /\ ComputesTransform

\* No transform is both forward and inverse.
LEMMA Directions ==
    /\ \A f \in Forward : f \notin Inverse
    /\ "NTT" \in Forward /\ "NTTLazy" \in Forward
    /\ "InvNTT" \in Inverse /\ "InvNTTLazy" \in Inverse
    /\ "NTTBarrett" \notin Forward \cup Inverse /\ "InvNTTBarrett" \notin Forward \cup Inverse
  BY DEF Forward, Inverse

\* The blocks before and after a round.
LEMMA RoundSizes ==
    ASSUME k \in 0..(LogN - 1)
    PROVE  /\ fn \in Forward => 2 * t = 2^(LogN - k) /\ t = 2^(LogN - (k + 1))
           /\ fn \in Inverse => t = 2^k /\ 2 * t = 2^(k + 1) /\ t \in Int
  <1>1. LogN \in Nat /\ k + 1 \in 1..LogN /\ (k + 1) - 1 = k /\ LogN - k \in 1..LogN
        /\ (LogN - k) - 1 = LogN - (k + 1)
    BY NttNumbers
  <1>2. CASE fn \in Forward
    <2>1. LogN - 1 - Round = LogN - (k + 1) /\ fn \notin Inverse
      BY <1>1, <1>2, Directions DEF Round
    <2>2. 2^(LogN - k) = 2 * 2^(LogN - (k + 1))
      BY <1>1, NttNumbers, HalfPower
    <2>3. QED
      BY <2>1, <2>2 DEF t
  <1>3. CASE fn \in Inverse
    <2>1. fn \notin Forward /\ fn # "NTTBarrett"
      BY <1>3, Directions
    <2>2. LogN - 1 - Round = k
      BY <1>1, <2>1 DEF Round
    <2>3. 2^(k + 1) = 2 * 2^k /\ 2^k \in Nat \ {0}
      BY <1>1, NttNumbers, HalfPower
    <2>4. QED
      BY <2>1, <2>2, <2>3 DEF t
  <1>4. QED
    BY <1>2, <1>3

LEMMA InitEval == Init => EvalInv
  <1>1. SUFFICES ASSUME Init PROVE EvalInv
    OBVIOUS
  <1>2. k = 0 /\ p = source /\ p \in [Coefs -> Word] /\ LogN \in Nat /\ 2^0 = 1
    <2>1. NttInv
      BY <1>1, InitInv
    <2>2. QED
      BY <1>1, <2>1, NttNumbers DEF Init, NttInv, TypeOK
  <1>3. \A j \in Coefs : Eval(p, j, 2^(LogN - k)) = ValueAt(source, j)
    <2>1. 2^(LogN - k) = N
      BY <1>2 DEF N
    <2>2. QED
      BY <1>2, <2>1, ValueAtIs
  <1>4. \A j \in Coefs : Eval(p, j, 2^k) = (2^k * source[j]) % Q
    <2>1. SUFFICES ASSUME NEW j \in Coefs PROVE Eval(p, j, 2^k) = (2^k * source[j]) % Q
      OBVIOUS
    <2>2. 2^k = 1 /\ p[j] \in Int
      BY <1>2 DEF Word
    <2>3. Eval(p, j, 1) = p[j] % Q
      BY <1>2, OneCoefficient
    <2>4. QED
      BY <1>2, <2>2, <2>3
  <1>5. k # LogN + 1
    BY <1>2
  <1>6. QED
    BY <1>3, <1>4, <1>5 DEF EvalInv, ComputesTransform

\* A round that keeps or doubles the values of the blocks keeps the invariant.
LEMMA RoundKeeps ==
    ASSUME EvalInv, k \in 0..(LogN - 1), k' = k + 1, fn' = fn, source' = source,
           fn \in Forward => \A j \in Coefs : Eval(p', j, t) = Eval(p, j, 2 * t),
           fn \in Inverse => \A j \in Coefs : Eval(p', j, 2 * t) = (2^(k + 1) * source[j]) % Q
    PROVE  EvalInv'
  <1>1. k <= LogN /\ k' # LogN + 1
    BY NttNumbers
  <1>2. fn' \in Forward => \A j \in Coefs : Eval(p', j, 2^(LogN - k')) = ValueAt(source', j)
    BY <1>1, RoundSizes DEF EvalInv
  <1>3. fn' \in Inverse => \A j \in Coefs : Eval(p', j, 2^k') = (2^k' * source'[j]) % Q
    BY RoundSizes
  <1>4. ComputesTransform'
    BY <1>1 DEF ComputesTransform
  <1>5. QED
    BY <1>2, <1>3, <1>4 DEF EvalInv

\* Every round of a forward transform is within the bounds of its butterfly.
LEMMA ForwardEval ==
    ASSUME NttInv, NttInv', EvalInv, NTTFirstRound \/ NTTRound \/ NTTLastRound
    PROVE  EvalInv'
  <1>1. LogN \in Nat /\ LogN > 1 /\ Q \in Nat \ {0}
    BY NttAssumption
  <1>2. PICK reduce \in BOOLEAN :
            /\ ForwardRound(reduce)
            /\ k \in 0..(LogN - 1)
            /\ reduce \/ k = 0 \/ k % 2 = 1
    <2>1. CASE NTTFirstRound
      <3>1. ForwardRound(FALSE) /\ k = 0
        BY <2>1, Zenon DEF NTTFirstRound
      <3>2. k \in 0..(LogN - 1)
        BY <1>1, <3>1
      <3>3. QED
        BY <3>1, <3>2, Zenon
    <2>2. CASE NTTRound
      <3>1. Reduces \in BOOLEAN /\ (Reduces \/ k % 2 = 1) /\ k \in 0..(LogN - 1)
        BY <1>1, <2>2 DEF NTTRound, Reduces
      <3>2. QED
        BY <2>2, <3>1 DEF NTTRound
    <2>3. CASE NTTLastRound
      <3>1. ForwardRound(TRUE) /\ k = LogN - 1
        BY <2>3, Zenon DEF NTTLastRound
      <3>2. k \in 0..(LogN - 1)
        BY <1>1, <3>1
      <3>3. QED
        BY <3>1, <3>2, Zenon
    <2>4. QED
      BY <2>1, <2>2, <2>3
  <1>3. fn \in Forward /\ fn \notin Inverse /\ k' = k + 1 /\ fn' = fn /\ source' = source
    BY <1>2, Directions DEF ForwardRound, DoRound
  <1>4. \A i \in Coefs : p[i] < 8 * Q /\ (reduce \/ p[i] < 6 * Q)
    <2>1. ForwardTop \in Nat /\ ForwardTop <= 8 * Q /\ (reduce \/ ForwardTop <= 6 * Q)
      BY <1>1, <1>2 DEF ForwardTop
    <2>2. \A i \in Coefs : p[i] < ForwardTop /\ p[i] \in Nat
      BY <1>3, NttNumbers DEF NttInv, TypeOK, RoundsFit, Word
    <2>3. QED
      BY <1>1, <2>1, <2>2
  <1>5. p' \in [Coefs -> Word]
    BY DEF NttInv, TypeOK
  <1>6. \A j \in Coefs : Eval(p', j, t) = Eval(p, j, 2 * t)
    BY <1>2, <1>4, <1>5, ForwardKeeps
  <1>7. QED
    BY <1>2, <1>3, <1>6, RoundKeeps

LEMMA InverseEval ==
    ASSUME NttInv, NttInv', EvalInv, InvNTTRound \/ InvNTTLazyRound
    PROVE  EvalInv'
  <1>1. /\ fn \in Inverse /\ fn \notin Forward /\ k \in 0..(LogN - 1)
        /\ DoRound(EachPair(PsiInv, FALSE)) /\ k' = k + 1 /\ fn' = fn /\ source' = source
    <2>1. fn \in Inverse /\ k < LogN /\ DoRound(EachPair(PsiInv, FALSE))
      BY Directions DEF InvNTTRound, InvNTTLazyRound, PlainRound
    <2>2. k \in Nat /\ LogN \in Nat
      BY NttNumbers DEF NttInv, TypeOK
    <2>3. QED
      BY <2>1, <2>2, Directions DEF DoRound
  <1>2. p' \in [Coefs -> Word] /\ p \in [Coefs -> Word] /\ source \in Inputs
    BY DEF NttInv, TypeOK
  <1>3. ASSUME NEW j \in Coefs
        PROVE  Eval(p', j, 2 * t) = (2^(k + 1) * source[j]) % Q
    <2> DEFINE T == Total(BlockAt(p, j, t), t)
               s == source[j]
               x == 2^k
    <2>1. Q \in Nat \ {0} /\ LogN \in Nat
      BY NttNumbers
    <2>2. T \in Int
      <3>1. t \in Nat \ {0} /\ Pairs(t)
        BY <1>1, RoundPairs
      <3> HIDE DEF t
      <3>2. \A l \in 0..(t - 1) : BlockAt(p, j, t)[l] \in Int
        BY <1>2, <3>1, BlockHalves, Zenon DEF HalvesTerms
      <3>3. t \in 0..t
        BY <3>1
      <3>4. QED
        BY <3>1, <3>2, <3>3, TotalSteps
    <2>3. Eval(p', j, 2 * t) = (2 * T) % Q
      BY <1>1, <1>2, InverseDoubles
    <2>4. T % Q = (x * s) % Q
      BY <1>1, <2>1, RoundSizes DEF EvalInv, Eval
    <2>5. x \in Int /\ 2^(k + 1) = 2 * x
      <3>1. k + 1 \in 1..LogN /\ (k + 1) - 1 = k
        BY <1>1, <2>1
      <3>2. QED
        BY <3>1, NttNumbers, HalfPower
    <2>6. s \in Int
      BY <1>2, NttAssumption
    <2> HIDE DEF T, s, x
    <2>7. x * s \in Int /\ 2 * (x * s) = (2 * x) * s /\ 2 \in Int
      BY <2>5, <2>6
    <2>8. Congruent(T, x * s, Q) /\ Congruent(2, 2, Q)
      BY <2>4 DEF Congruent
    <2>9. Congruent(2 * T, 2 * (x * s), Q)
      BY <2>1, <2>2, <2>7, <2>8, CongruentProduct, Zenon
    <2>10. QED
      BY <2>3, <2>5, <2>7, <2>9 DEF Congruent, s
  <1>4. QED
    BY <1>1, <1>3, RoundKeeps

\* The last pass of a forward transform keeps the residues, the values of blocks
\* of one coefficient.
LEMMA ForwardEnds ==
    ASSUME NttInv, EvalInv, NTT \/ NTTLazy
    PROVE  EvalInv'
  <1>1. /\ fn \in Forward /\ fn \notin Inverse /\ k = LogN
        /\ k' = LogN + 1 /\ fn' = fn /\ source' = source
    BY Directions DEF NTT, NTTLazy, Finish, DoRound
  <1>2. LogN \in Nat /\ Q \in Nat \ {0} /\ 2 * Q <= R /\ BredQ = BRedParams(Q)
        /\ p \in [Coefs -> Word] /\ 2^0 = 1
    BY NttNumbers, NttAssumption DEF NttInv, TypeOK
  <1>3. ASSUME NEW j \in Coefs PROVE p'[j] % Q = ValueAt(source, j)
    <2>1. Eval(p, j, 2^(LogN - k)) = ValueAt(source, j) /\ LogN - k = 0
      BY <1>1, <1>2 DEF EvalInv
    <2>2. Eval(p, j, 1) = p[j] % Q
      BY <1>2, OneCoefficient
    <2>3. p[j] \in 0..(R - 1)
      BY <1>2 DEF Word
    <2>4. p'[j] % Q = p[j] % Q
      <3>1. CASE NTT
        <4>1. p'[j] = BRedAdd(p[j], Q, BredQ)
          BY <3>1 DEF NTT, Finish, DoRound
        <4>2. p'[j] = p[j] % Q
          BY <1>2, <2>3, <4>1, BarrettReduction
        <4>3. \A a \in Int : (a % Q) % Q = a % Q
          BY <1>2, ModSmall, Zenon
        <4>4. QED
          BY <2>3, <4>2, <4>3
      <3>2. CASE NTTLazy
        BY <3>2 DEF NTTLazy, Finish, DoRound
      <3>3. QED
        BY <3>1, <3>2
    <2>5. QED
      BY <1>2, <2>1, <2>2, <2>4
  <1>4. ~(k' <= LogN)
    BY <1>1, <1>2
  <1>5. ComputesTransform'
    BY <1>1, <1>3 DEF ComputesTransform
  <1>6. QED
    BY <1>1, <1>4, <1>5 DEF EvalInv

\* A row multiplied by c has its values multiplied by c.
LEMMA EvalTimes ==
    ASSUME NEW old \in [Coefs -> Word], NEW new \in [Coefs -> Word], NEW c \in Int, NEW j \in Coefs,
           \A i \in Coefs : new[i] % Q = (old[i] * c) % Q
    PROVE  Eval(new, j, N) = (c * Eval(old, j, N)) % Q
  <1> DEFINE f == BlockAt(new, j, N)
             h == BlockAt(old, j, N)
  <1>1. Q \in Nat \ {0} /\ N \in Nat \ {0} /\ N \in Nat
    BY NttNumbers
  <1>2. Blocks(N)
    <2>1. N = N * 1 /\ 1 \in Nat \ {0}
      BY <1>1
    <2>2. QED
      BY <1>1, <2>1 DEF Blocks
  <1>3. ASSUME NEW l \in 0..(N - 1)
        PROVE  f[l] \in Int /\ h[l] \in Int /\ Congruent(f[l], c * h[l], Q)
    <2> DEFINE i == ((j \div N) * N) + l
               a == old[i]
               b == new[i]
               x == Pow(Omega(j), l, Q)
    <2>1. /\ i \in Coefs /\ a \in Int /\ b \in Int /\ f[l] = b * x /\ h[l] = a * x
          /\ x \in Int /\ f[l] \in Int /\ h[l] \in Int
      BY <1>2, BlockTerms, Zenon
    <2>2. Congruent(b, a * c, Q)
      BY <2>1 DEF Congruent
    <2> HIDE DEF i, a, b, x, f, h
    <2>3. a * c \in Int /\ (a * c) * x = c * (a * x)
      BY <2>1
    <2>4. Congruent(x, x, Q)
      BY <1>1, <2>1, CongruentIs, Zenon
    <2>5. Congruent(b * x, (a * c) * x, Q)
      BY <1>1, <2>1, <2>2, <2>3, <2>4, CongruentProduct, Zenon
    <2>6. QED
      BY <2>1, <2>3, <2>5
  <1> HIDE DEF f, h
  <1>4. Congruent(Total(f, N), c * Total(h, N), Q)
    <2>1. /\ \A i \in 0..(N - 1) : f[i] \in Int
          /\ \A i \in 0..(N - 1) : h[i] \in Int
          /\ \A i \in 0..(N - 1) : Congruent(f[i], c * h[i], Q)
      BY <1>3
    <2>2. QED
      BY <1>1, <2>1, TotalTimes, Zenon
  <1>5. Total(h, N) \in Int
    <2>1. N \in 0..N /\ \A i \in 0..(N - 1) : h[i] \in Int
      BY <1>1, <1>3
    <2>2. QED
      BY <1>1, <2>1, TotalSteps, Zenon
  <1> DEFINE T == Total(h, N)
  <1> HIDE DEF T
  <1>6. (c * (T % Q)) % Q = (c * T) % Q
    <2>1. T \in Int
      BY <1>5 DEF T
    <2>2. Congruent(T % Q, T, Q) /\ Congruent(c, c, Q) /\ T % Q \in Int
      <3>1. T % Q \in Int
        BY <1>1, <2>1
      <3>2. QED
        BY <1>1, <2>1, <3>1, CongruentIs, Zenon
    <2>3. Congruent(c * (T % Q), c * T, Q)
      BY <1>1, <2>1, <2>2, CongruentProduct, Zenon
    <2>4. QED
      BY <2>3 DEF Congruent
  <1>7. QED
    BY <1>4, <1>6 DEF Eval, Congruent, f, h, T

\* The last pass of an inverse transform takes out the factor N = 2^LogN that
\* its rounds have put in.
LEMMA InverseEnds ==
    ASSUME NttInv, NttInv', EvalInv, InvNTT \/ InvNTTLazy
    PROVE  EvalInv'
  <1> DEFINE c == OutOfMForm(NInv)
  <1>1. /\ fn \in Inverse /\ fn \notin Forward /\ k = LogN
        /\ k' = LogN + 1 /\ fn' = fn /\ source' = source
    BY Directions DEF InvNTT, InvNTTLazy, Finish, DoRound
  <1>2. /\ LogN \in Nat /\ Q \in Nat \ {0} /\ 2 <= Q /\ NInv \in 0..(Q - 1)
        /\ p \in [Coefs -> Word] /\ p' \in [Coefs -> Word] /\ source \in [Coefs -> 0..(4 * Q - 1)]
        /\ N \in Nat \ {0}
    BY NttNumbers, NttAssumption DEF NttInv, TypeOK
  <1>3. c \in 0..(Q - 1) /\ c \in Int /\ (c * N) % Q = 1
    <2>1. c \in 0..(Q - 1)
      BY <1>2, OutOfMFormRange
    <2>2. c \in Int
      BY <1>2, <2>1
    <2>3. QED
      BY <2>1, <2>2, TablesAssumption
  <1>4. \A i \in Coefs : p'[i] % Q = (p[i] * c) % Q
    <2>1. SUFFICES ASSUME NEW i \in Coefs PROVE p'[i] % Q = (p[i] * c) % Q
      OBVIOUS
    <2>2. p[i] \in 0..(R - 1)
      BY <1>2 DEF Word
    <2>3. p'[i] = MRed(p[i], NInv, Q, QInv) \/ p'[i] = MRedConstant(p[i], NInv, Q, QInv)
      BY DEF InvNTT, InvNTTLazy, Finish, DoRound
    <2>4. QED
      BY <1>2, <2>2, <2>3, TwiddleIs
  <1> HIDE DEF c
  <1>5. ASSUME NEW j \in Coefs PROVE ValueAt(p', j) = source[j] % Q
    <2> DEFINE s == source[j]
    <2>1. ValueAt(p', j) = Eval(p', j, N)
      BY <1>2, ValueAtIs
    <2>2. Eval(p', j, N) = (c * Eval(p, j, N)) % Q
      BY <1>2, <1>3, <1>4, EvalTimes
    <2>3. Eval(p, j, N) = (N * s) % Q
      <3>1. Eval(p, j, 2^k) = (2^k * source[j]) % Q
        BY <1>1, <1>2 DEF EvalInv
      <3>2. QED
        BY <1>1, <3>1 DEF N
    <2>4. s \in Int
      BY <1>2
    <2> HIDE DEF s
    <2>5. (c * ((N * s) % Q)) % Q = s % Q
      <3> DEFINE z == N * s
      <3>1. z \in Int /\ c * z = (c * N) * s /\ c * N \in Int /\ 1 * s = s /\ N \in Int
        BY <1>2, <1>3, <2>4
      <3> HIDE DEF z
      <3>2. z % Q \in Int /\ 1 % Q = 1 /\ 1 \in Int
        BY <1>2, <3>1
      <3>3. Congruent(z % Q, z, Q) /\ Congruent(c, c, Q) /\ Congruent(s, s, Q)
        BY <1>2, <1>3, <2>4, <3>1, CongruentIs, Zenon
      <3>4. Congruent(c * N, 1, Q)
        BY <1>3, <3>2 DEF Congruent
      <3>5. Congruent(c * (z % Q), c * z, Q) /\ Congruent((c * N) * s, 1 * s, Q)
        BY <1>2, <1>3, <2>4, <3>1, <3>2, <3>3, <3>4, CongruentProduct, Zenon
      <3>6. QED
        BY <3>1, <3>5 DEF Congruent, z
    <2>6. QED
      BY <2>1, <2>2, <2>3, <2>5 DEF s
  <1>6. ~(k' <= LogN)
    BY <1>1, <1>2
  <1>7. ComputesTransform'
    BY <1>1, <1>5 DEF ComputesTransform
  <1>8. QED
    BY <1>1, <1>6, <1>7 DEF EvalInv

\* The Barrett forms make no promise about values.
LEMMA BarrettKeeps ==
    ASSUME NTTBarrettRound \/ InvNTTBarrettRound \/ NTTBarrett \/ InvNTTBarrett
    PROVE  EvalInv'
  <1>1. fn' = fn /\ fn \notin Forward \cup Inverse
    BY Directions DEF NTTBarrettRound, InvNTTBarrettRound, NTTBarrett, InvNTTBarrett,
                      PlainRound, Finish, DoRound
  <1>2. QED
    BY <1>1 DEF EvalInv, ComputesTransform

LEMMA StepEval == NttInv /\ NttInv' /\ EvalInv /\ [Next]_vars => EvalInv'
  <1>1. SUFFICES ASSUME NttInv, NttInv', EvalInv, [Next]_vars PROVE EvalInv'
    OBVIOUS
  <1>2. CASE NTTFirstRound \/ NTTRound \/ NTTLastRound
    BY <1>1, <1>2, ForwardEval
  <1>3. CASE InvNTTRound \/ InvNTTLazyRound
    BY <1>1, <1>3, InverseEval
  <1>4. CASE NTT \/ NTTLazy
    BY <1>1, <1>4, ForwardEnds
  <1>5. CASE InvNTT \/ InvNTTLazy
    BY <1>1, <1>5, InverseEnds
  <1>6. CASE NTTBarrettRound \/ InvNTTBarrettRound \/ NTTBarrett \/ InvNTTBarrett
    BY <1>6, BarrettKeeps
  <1>7. CASE UNCHANGED vars
    BY <1>1, <1>7 DEF vars, EvalInv, ComputesTransform
  <1>8. QED
    BY <1>1, <1>2, <1>3, <1>4, <1>5, <1>6, <1>7 DEF Next

\* The transforms compute what they are for, for every degree, modulus, root and
\* input: NTT and NTTLazy end with the values of the input at the odd powers of
\* the root, in bit-reversed order, and InvNTT and InvNTTLazy with the polynomial
\* that has the input for its values.
THEOREM TransformIsRight == Spec => []ComputesTransform
  <1>1. EvalInv => ComputesTransform
    BY DEF EvalInv
  <1>2. QED
    BY <1>1, InitEval, StepEval, AlwaysInv, PTL DEF Spec

==============================================================================
