--------------------------------- MODULE Rns ---------------------------------
(****************************************************************************)
(* Changes of basis and divisions in residue form: ring_basis_extension.go  *)
(* and ring_scaling.go of crypto/ring.  Every function but the transforms   *)
(* treats each coefficient alike and apart from the others, so a state is   *)
(* one coefficient: its residues (rows) by the moduli of a basis.  In the   *)
(* transform domain it is the coefficient of a constant polynomial, whose   *)
(* transform has that residue, plus a multiple of the modulus, everywhere.  *)
(****************************************************************************)
EXTENDS Words, Sequences

CONSTANTS Q, P,      \* the moduli of the two rings
          T,         \* the plaintext moduli: odd primes, or powers of two
          ExtendedLevels, \* how many rows a polynomial may have when it is extended
          Precision, \* a floating-point sum of fractions is off by at most 1 / Precision
          Inputs(_)  \* the integers a basis starts with
VARIABLES rows, moduli, op
vars == << rows, moduli, op >>

Level(l) == SubSeq(Q, 1, l)                   \* the basis of a polynomial with l rows
Product(s) == LET upto[k \in 0..Len(s)] == IF k = 0 THEN 1 ELSE s[k] * upto[k-1] IN upto[Len(s)]
Sum(s) == LET upto[k \in 0..Len(s)] == IF k = 0 THEN 0 ELSE s[k] + upto[k-1] IN upto[Len(s)]
Moduli == {Q[i] : i \in DOMAIN Q} \cup {P[j] : j \in DOMAIN P}
Odd(t) == t % 2 = 1

ASSUME RnsAssumption ==
    /\ Precision \in Nat /\ Precision > 1
    /\ ExtendedLevels \subseteq DOMAIN Q
    /\ Q \in Seq(Nat) /\ P \in Seq(Nat) /\ T \subseteq Nat
    /\ Len(Q) > 1 /\ Len(P) > 0
    /\ \A i, j \in DOMAIN (Q \o P) : i # j => (Q \o P)[i] # (Q \o P)[j]
    /\ \A q \in Moduli \cup {t \in T : Odd(t)} :
           q > 2 /\ getFactors(q) = {q} /\ 8 * q < R
    /\ \A t \in T : Odd(t) \/ \E k \in 1..(W - 1) : t = 2^k
    /\ \A t \in T, i \in DOMAIN Q : t # Q[i]

\* The bases of a polynomial, and those an extension starts from.
Bases == {Level(l) : l \in DOMAIN Q} \cup {Level(l) \o P : l \in DOMAIN Q} \cup {P}
         \cup {<< t >> : t \in T}
Sources == {P} \cup UNION {{SubSeq(Q, i, j) : j \in (i + 1)..Len(Q)} : i \in DOMAIN Q}
ASSUME InputsAssumption == \A m \in Bases : Inputs(m) \subseteq Nat
\* Facts of distinct primes, and of one prime, that the provers lack.
ASSUME Inverses ==
    \A A \in Bases \cup Sources \cup {Q \o << t >> : t \in {u \in T : Odd(u)}} : \A i \in DOMAIN A :
        \E y \in 0..(A[i] - 1) : (((Product(A) \div A[i]) % A[i]) * y) % A[i] = 1 % A[i]
ASSUME Fermat ==
    \A q \in Moduli \cup {t \in T : Odd(t)} : \A x \in 1..(q - 1) : (Pow(x, q - 2, q) * x) % q = 1

bredParams == [q \in Moduli \cup T |-> BRedParams(q)]
mredParams == [q \in Moduli \cup T |-> MRedParams(q)]
ToMont(x, q) == MForm(x, q, bredParams[q])
ModInverse(x, q) == CHOOSE y \in 0..(q - 1) : (x * y) % q = 1 % q

MultiplesSlip(A, b) ==                                \* a slip in Multiples
    LET upto[i \in 0..Len(A)] == IF i = 0 THEN 0 ELSE upto[i-1] + (b - (Product(A) % b))
    IN  [i \in 0..Len(A) |-> upto[i]]
\* -v * product of A modulo b, for v from 0 to the number of moduli.
Multiples(A, b) ==
    LET upto[i \in 0..Len(A)] == IF i = 0 THEN 0 ELSE CRed(upto[i-1] + (b - (Product(A) % b)), b)
    IN  [i \in 0..Len(A) |-> upto[i]]
\* The tables of an extension from the moduli A to the moduli B.
basisextenderparameters(A, B) ==
    LET a == Product(A)
    IN  [from      |-> A,
         to        |-> B,
         qibMont   |-> [i \in DOMAIN A |-> ToMont(ModInverse((a \div A[i]) % A[i], A[i]), A[i])],
         qispjMont |-> [j \in DOMAIN B |-> [i \in DOMAIN A |-> ToMont((a \div A[i]) % B[j], B[j])]],
         qpjInv    |-> [j \in DOMAIN B |-> Multiples(A, B[j])]]
genModDownParams(keep, drop) ==
    [i \in DOMAIN keep |-> ToMont(ModExp(Product(drop) % keep[i], keep[i] - 2, keep[i]), keep[i])]
paramsQP == basisextenderparameters(Q, P)
paramsPQ == basisextenderparameters(P, Q)
modDownParamsPQ == genModDownParams(Q, P)
modDownParamsQP == genModDownParams(P, Q)

\* The error of a floating-point sum of fractions over a, in units of 1 / a.
Slack(a) == (a \div Precision) + 1
\* The digits y_i of x, and the integer part of the sum of y_i / q_i, which the
\* code computes in floating point.
digits(x, params) ==
    [i \in DOMAIN x |-> LET q == params.from[i] IN MRed(x[i], params.qibMont[i], q, mredParams[q])]
reconstructRNS(y, params) ==
    LET a == Product(params.from)
        sum == Sum([i \in DOMAIN y |-> y[i] * (a \div params.from[i])])
    IN  IF sum = 0 THEN {0}
        ELSE {s \div a : s \in {e \in (sum - Slack(a))..(sum + Slack(a)) : e >= 0}}

multSumSlip(y, v, j, params) ==                       \* a slip in multSum
    LET b == params.to[j]
        sum == Sum([i \in DOMAIN y |-> y[i] * params.qispjMont[j][i]])
    IN  Wrap(Hi(sum) - Hi(Wrap(Lo(sum) * mredParams[b]) * b) + b)
\* The digits times the cofactors modulo the j-th target, reduced once at the
\* end, less v times the product.
multSum(y, v, j, params) ==
    LET b == params.to[j]
        sum == Sum([i \in DOMAIN y |-> y[i] * params.qispjMont[j][i]])
    IN  Wrap(Hi(sum) - Hi(Wrap(Lo(sum) * mredParams[b]) * b) + b + params.qpjInv[j][v])

\* The possible first n rows of x in the target basis.
modUpExact(x, n, params) ==
    LET y == digits(x, params) IN
    {[j \in 1..n |-> multSum(y, v, j, params)] : v \in reconstructRNS(y, params)}

\* A transform of the constant x modulo q, as module Ntt bounds it: the forward
\* one takes words below 4q, the lazy ones add multiples of q.
NTT(x, q) == IF x < 4 * q THEN x % q ELSE x
NTTLazy(x, q) == IF x < 4 * q THEN {y \in 0..(6 * q - 1) : y % q = x % q} ELSE 0..(R - 1)
InvNTTLazy(x, q) == {y \in 1..(2 * q - 1) : y % q = x % q}

Become(name, m, x) == op' = name /\ moduli' = m /\ rows' = x
Canonical(n) == \A i \in 1..n : rows[i] < moduli[i]
Lazy(n) == \A i \in 1..n : rows[i] < 2 * moduli[i]
KeptRows(n) == SubSeq(rows, 1, n)
LastRows(n) == SubSeq(rows, Len(rows) - n + 1, Len(rows))

Init == /\ moduli \in {Level(l) : l \in DOMAIN Q} \cup {Level(l) \o P : l \in DOMAIN Q} \cup {P}
        /\ \E value \in Inputs(moduli) : rows = [i \in DOMAIN moduli |-> value % moduli[i]]
        /\ op = << "Init" >>

\* What callers do between an extension, which leaves words above its moduli,
\* and a division: a transform there and back, or Reduce.
Reduce ==
    /\ ~Canonical(Len(rows))
    /\ rows' = [i \in DOMAIN rows |-> BRedAdd(rows[i], moduli[i], bredParams[moduli[i]])]
    /\ UNCHANGED << moduli, op >>

OneOfEach(S) == {f \in [DOMAIN S -> UNION {S[i] : i \in DOMAIN S}] : \A i \in DOMAIN S : f[i] \in S[i]}
\* Or a transform there and lazily back, to which a sample may have been added:
\* encryption, key switching and the product of ciphertexts divide such rows.
LeaveLazy ==
    /\ Canonical(Len(rows))
    /\ rows' \in OneOfEach([i \in DOMAIN rows |->
           {y \in 0..(2 * moduli[i] - 1) : y % moduli[i] = rows[i]}])
    /\ UNCHANGED << moduli, op >>

ModUpSplitQP ==
    /\ \E l \in ExtendedLevels : moduli = Level(l)
    /\ \E p \in modUpExact(rows, Len(P), paramsQP) : Become(<< "Convert" >>, moduli \o P, rows \o p)
ModUpSplitPQ ==
    /\ moduli = P
    /\ \E q \in modUpExact(rows, Len(Q), paramsPQ) : Become(<< "Convert" >>, Q, q)

\* A division takes y, congruent to the remainder, from a kept row x < 2q and
\* multiplies by the inverse of the divisor; y is any of ys[i] in row i.
quotient(y, x, q, inv) == MRed(Wrap(y + 2 * q - x), q - inv, q, mredParams[q])
Quotients(name, ys, inv, basis) ==
    /\ Lazy(Len(basis))
    /\ \E x \in OneOfEach([i \in DOMAIN basis |->
               {quotient(y, rows[i], basis[i], inv[i]) : y \in ys[i]}]) : Become(name, basis, x)

ModDownPQ ==                                          \* and ModDownSplitPQ
    \E n \in DOMAIN Q :
        /\ moduli = Level(n) \o P
        /\ \E y \in modUpExact(LastRows(Len(P)), n, paramsPQ) :
               Quotients(<< "ModDown" >>, [i \in 1..n |-> {y[i]}], modDownParamsPQ, Level(n))
ModDownNTTPQ ==                                       \* and ModDownSplitNTTPQ
    /\ moduli = Q \o P
    /\ \E x \in OneOfEach([j \in DOMAIN P |-> InvNTTLazy(rows[Len(Q) + j], P[j])]) :
          \E y \in modUpExact(x, Len(Q), paramsPQ) :
              Quotients(<< "ModDown" >>, [i \in DOMAIN Q |-> NTTLazy(y[i], Q[i])], modDownParamsPQ, Q)
ModDownSplitQP ==
    /\ moduli = Q \o P
    /\ \A j \in DOMAIN P : LastRows(Len(P))[j] < 2 * P[j]
    /\ \E y \in modUpExact(KeptRows(Len(Q)), Len(P), paramsQP) :
          Become(<< "ModDown" >>, P, [j \in DOMAIN P |->
              quotient(y[j], LastRows(Len(P))[j], P[j], modDownParamsQP[j])])

\* Divisions of a polynomial by the last of its moduli.
Leveled == \E l \in 2..Len(Q) : moduli = Level(l)
Last == moduli[Len(moduli)]
rescaleParams(last, q) == ToMont(ModExp(last, q - 2, q), q)
Shorter(x) == SubSeq(x, 1, Len(x) - 1)

divFloorSlip(x) ==                                    \* a slip in divFloor
    [i \in 1..Len(x) |->
        quotient(BRedAdd(x[Len(x)], Q[i], bredParams[Q[i]]), x[i], Q[i], rescaleParams(Q[Len(x)], Q[i]))]
divFloor(x) ==
    [i \in 1..(Len(x) - 1) |->
        quotient(BRedAdd(x[Len(x)], Q[i], bredParams[Q[i]]), x[i], Q[i], rescaleParams(Q[Len(x)], Q[i]))]
halved(q) == (q - 1) \div 2
\* The last row plus half its modulus, and what takes that half away again.
centred(x) == CRed(x[Len(x)] + halved(Q[Len(x)]), Q[Len(x)])
uncentre(last, q) == q - BRedAdd(halved(last), q, bredParams[q])
divRound(x) ==
    [i \in 1..(Len(x) - 1) |->
        quotient(centred(x) + uncentre(Q[Len(x)], Q[i]), x[i], Q[i], rescaleParams(Q[Len(x)], Q[i]))]
Many(Division(_), x, n) ==
    LET after[k \in 0..n] == IF k = 0 THEN x ELSE Division(after[k-1]) IN after[n]

DivFloorByLastModulusMany ==
    \E n \in 1..(Len(rows) - 1) :
        /\ Leveled /\ Canonical(Len(rows))
        /\ Become(<< "DivFloor" >>, Level(Len(rows) - n), Many(divFloor, rows, n))
DivRoundByLastModulusMany ==
    \E n \in 1..(Len(rows) - 1) :
        /\ Leveled /\ Canonical(Len(rows))
        /\ Become(<< "DivRound" >>, Level(Len(rows) - n), Many(divRound, rows, n))
DivFloorByLastModulusNTT ==
    /\ Leveled
    /\ \E r \in InvNTTLazy(rows[Len(rows)], Last) :
          LET basis == Shorter(moduli) IN
          Quotients(<< "DivFloorNTT" >>, [i \in DOMAIN basis |-> NTTLazy(r, basis[i])],
                    [i \in DOMAIN basis |-> rescaleParams(Last, basis[i])], basis)
DivRoundByLastModulusNTT ==
    /\ Leveled /\ Canonical(Len(rows))
    /\ LET basis == Shorter(moduli) IN
       Quotients(<< "DivRound" >>,
                 [i \in DOMAIN basis |->
                     NTTLazy(centred(rows) + uncentre(Last, basis[i]), basis[i])],
                 [i \in DOMAIN basis |-> rescaleParams(Last, basis[i])], basis)

\* The digit of number g (from 0) modulo alpha consecutive moduli, in basis QP.
alpha == Len(P)
xalpha(g) == IF (g + 1) * alpha <= Len(Q) THEN alpha ELSE Len(Q) % alpha
DecomposeAndSplit ==
    \E g \in 0..(Len(Q) - 1) :
        LET level == Len(rows) - 1
            st == g * alpha
            index == IF level >= xalpha(g) + st THEN xalpha(g) - 2 ELSE (level - 1) % alpha
            group == SubSeq(Q, st + 1, st + index + 2)
            params == basisextenderparameters(group, Q \o P)
            y == digits(SubSeq(rows, st + 1, st + index + 2), params)
            target(j) == IF j <= Len(rows) THEN j ELSE Len(Q) + j - Len(rows)
            single == (st + xalpha(g) > level + 1 /\ (level + 1) % alpha = 1) \/ xalpha(g) = 1
        IN  /\ \E l \in DOMAIN Q : moduli = Level(l)
            /\ st <= level /\ Canonical(Len(rows))
            /\ IF single
               THEN Become(<< "Digit", st + 1, st + 1 >>, moduli \o P,
                           [j \in 1..(Len(rows) + alpha) |-> rows[st + 1]])
               ELSE \E v \in reconstructRNS(y, params) :
                      Become(<< "Digit", st + 1, st + index + 2 >>, moduli \o P,
                             [j \in 1..(Len(rows) + alpha) |-> multSum(y, v, target(j), params)])

\* Scaling by t / Q: RNSScaler in residues, for odd t; SimpleScaler, which no
\* caller makes, over the integers and in floating point.
qHalf == Product(Q) \div 2
DivByQOverTRounded ==
    \E t \in {u \in T : Odd(u)} :
        LET u == bredParams[t]
            qInv == MForm(ModExp(Product(Q) % t, t - 2, t), t, u)
            times(i) == MRed(rows[i], ToMont(BRedAdd(t, Q[i], bredParams[Q[i]]), Q[i]), Q[i], mredParams[Q[i]])
            x == [i \in DOMAIN Q |-> CRed(times(i) + (qHalf % Q[i]), Q[i])]
        IN  /\ moduli = Q
            /\ \E y \in modUpExact(x, 1, basisextenderparameters(Q, << t >>)) :
                  Become(<< "Scale" >>, << t >>,
                         << MRed(Wrap(t - (qHalf % t) + y[1]), t - qInv, t, mredParams[t]) >>)

CrtFactor == [m \in Bases |-> [i \in DOMAIN m |->
    LET co == Product(m) \div m[i] IN (co * ModInverse(co % m[i], m[i])) % Product(m)]]
Reconstructed(x, m) ==
    Sum([i \in DOMAIN x |-> (x[i] % m[i]) * CrtFactor[m][i]])
    % Product(m)
\* p1BI: the square of the product of Q in a new scaler, and what its last call
\* made of this coefficient later on; the sum of the residues is added to it.
p1BI(t) == {Product(Q) * Product(Q)} \cup 0..t
reconstructThenScale ==
    \E t \in T : \E kept \in p1BI(t) :
        LET x == t * ((kept + Reconstructed(rows, Q)) % Product(Q))
            r == x % Product(Q)
        IN  /\ moduli = Q
            /\ Become(<< "SimpleScale" >>, << t >>,
                      << x \div Product(Q) + (IF 2 * r >= Product(Q) THEN 1 ELSE 0) >>)

\* The integer and fractional parts of t times the i-th digit over Q[i]: wi, in
\* Montgomery form unless t is a power of two, and the numerator of ti.
barre == [i \in DOMAIN Q |-> ModInverse((Product(Q) \div Q[i]) % Q[i], Q[i])]
wi(t, i) == LET w == (barre[i] * t) \div Q[i] IN IF Odd(t) THEN ToMont(w, t) ELSE w
ti(t, i) == (barre[i] * t) % Q[i]
reducealgoMul(t, x, y) == IF Odd(t) THEN MRed(x, y, t, mredParams[t]) ELSE Wrap(x * y) % t
reducealgoAdd(t, x) == IF Odd(t) THEN BRedAdd(x, t, bredParams[t]) ELSE x % t
reconstructAndScale ==
    \E t \in T :
        LET a == Wrap(Sum([i \in DOMAIN Q |-> reducealgoMul(t, wi(t, i), rows[i])]))
            sum == Sum([i \in DOMAIN Q |-> rows[i] * ti(t, i) * (Product(Q) \div Q[i])])
        IN  /\ moduli = Q
            /\ \E e \in (sum + qHalf - Slack(Product(Q)))..(sum + qHalf + Slack(Product(Q))) :
                  /\ e >= 0
                  /\ Become(<< "Scale" >>, << t >>,
                            << reducealgoAdd(t, Wrap(a + (e \div Product(Q)))) >>)

Next == \/ Reduce \/ LeaveLazy
        \/ ModUpSplitQP \/ ModUpSplitPQ
        \/ ModDownPQ \/ ModDownNTTPQ \/ ModDownSplitQP
        \/ DivFloorByLastModulusMany \/ DivRoundByLastModulusMany
        \/ DivFloorByLastModulusNTT \/ DivRoundByLastModulusNTT
        \/ DecomposeAndSplit
        \/ DivByQOverTRounded \/ reconstructThenScale \/ reconstructAndScale
Spec == Init /\ [][Next]_vars
-----------------------------------------------------------------------------
\* Every row is a word.
TypeOK == moduli \in Bases /\ rows \in [DOMAIN moduli -> 0..(R - 1)]

\* Every row stays near twice its modulus m: an extension from n moduli q adds
\* n*q*m/R at most, so that a transform, a reduction or another extension takes
\* the row without wrapping.  Only a digit of one modulus is copied to the
\* others as it is.
RowsFit ==
    \A i \in DOMAIN rows :
        \/ \E q \in Moduli, n \in {Len(Q), Len(P)} : R * rows[i] < moduli[i] * (2 * R + n * q)
        \/ op[1] = "Digit" /\ op[2] = op[3] /\ rows[i] < Q[op[2]]

\* What the word-size steps take for granted of the moduli: an extension stays
\* below four times a modulus, which a transform takes; no modulus of Q is twice
\* an earlier one; and, for the floating-point scaling by an odd t, a word holds
\* the sum of the rows over their moduli, each scaled by less than t.
ModuliFit ==
    /\ \A q \in Moduli : Len(Q) * q <= 2 * R /\ Len(P) * q <= 2 * R
    /\ \A i, j \in DOMAIN Q : i < j => Q[j] < 2 * Q[i]
    /\ \A t \in T, q \in Moduli, n \in {Len(Q), Len(P)} :
          Odd(t) => Sum(Q) * (2 * R + n * q) + (R * Len(Q)) * t < R * R

\* In residues as over the integers: whatever word-size and floating-point
\* steps an extension, a digit, a division or a scaling takes, it moves the
\* integer behind the rows as Scaling says.
Integers == INSTANCE Scaling WITH
    value <- Reconstructed(rows, moduli)
ImplementsScaling == Integers!Spec
=============================================================================
