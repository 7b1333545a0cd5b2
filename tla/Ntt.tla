--------------------------------- MODULE Ntt ---------------------------------
(****************************************************************************)
(* The transforms of crypto/ring/ring_ntt.go on one row of N = 2^LogN       *)
(* coefficients modulo Q: NTT, NTTLazy, InvNTT, InvNTTLazy and the two      *)
(* Barrett forms.  A transform is a first round into the output, the other  *)
(* rounds in place, and a last pass; a step here is one round.  The unrolled*)
(* branches for t >= 8, t = 4, t = 2 and t = 1 do the same to every pair of *)
(* coefficients at distance t, and differ in when they reduce.              *)
(****************************************************************************)
EXTENDS Words

CONSTANTS LogN, Q, QInv, BredQ,  \* log of the degree, modulus and its reduction parameters
          Psi, PsiInv, NInv,     \* the tables of genNTTParams for this modulus
          Inputs,                \* rows to transform, lazily reduced ones included
          Transforms             \* the transforms to run
VARIABLES fn,      \* the transform
          source,  \* its input
          p,       \* the output row so far
          k        \* rounds done; LogN + 1 once the last pass is done
vars == << fn, source, p, k >>

N == 2^LogN
Coefs == 0..(N - 1)
Word == 0..(R - 1)

ASSUME NttAssumption ==
    /\ LogN \in Nat /\ LogN > 1
    /\ Q \in Nat \ {0, 1} /\ 8 * Q <= R
    /\ QInv \in Word /\ (Q * QInv) % R = 1 /\ NInv \in 0..(Q - 1)
    /\ BredQ = BRedParams(Q)
    /\ Psi \in [Coefs -> 0..(Q - 1)] /\ PsiInv \in [Coefs -> 0..(Q - 1)]
    /\ Inputs \subseteq [Coefs -> 0..(4 * Q - 1)]

\* Facts of powers of two that the provers lack.
ASSUME PowersAssumption ==
    \A r \in 0..(LogN - 1) : /\ 2^r \in Nat \ {0} /\ 2^(LogN - 1 - r) \in Nat \ {0}
                             /\ N = 2 * (2^r * 2^(LogN - 1 - r))
                             /\ r > 0 => 2^r = 2 * 2^(r - 1)

\* The powers of the root the tables are made of, Psi[N \div 2] in Montgomery form.
OutOfMForm(x) == InvMForm(x, Q, QInv)
RootTo ==
    LET root == OutOfMForm(Psi[N \div 2])
        to[e \in 0..(2 * N)] == IF e = 0 THEN 1 ELSE (to[e-1] * root) % Q
    IN  [e \in 0..(2 * N) |-> to[e]]
\* genNTTParams: powers of a 2N-th root of unity at the reversals of their
\* exponents, their inverses, and the inverse of N.
ASSUME TablesAssumption ==
    /\ RootTo[N] = Q - 1
    /\ \A j \in Coefs : /\ OutOfMForm(Psi[j]) = RootTo[BitReverse64(j, LogN)]
                        /\ (OutOfMForm(Psi[j]) * OutOfMForm(PsiInv[j])) % Q = 1
    /\ (OutOfMForm(NInv) * N) % Q = 1

Forward == {"NTT", "NTTLazy"}
Inverse == {"InvNTT", "InvNTTLazy"}

\* Round r of a forward transform works on 2^r blocks of 2t coefficients, and
\* an inverse one runs through the rounds backwards.
Round == IF fn \in Forward \cup {"NTTBarrett"} THEN k ELSE LogN - 1 - k
m == 2^Round
t == 2^(LogN - 1 - Round)

\* The new values of a pair U, V: sum and difference, 4Q less if asked.
Less(U, bound) == IF U >= bound THEN U - bound ELSE U
butterfly(U, V, F, reduce) ==
    LET X == IF reduce THEN Less(U, 4 * Q) ELSE U
        Y == MRedConstant(V, F, Q, QInv)
    IN  << Wrap(X + Y), Wrap(X + 2 * Q - Y) >>
invbutterfly(U, V, F) ==
    << Less(Wrap(U + V), 2 * Q), MRedConstant(Wrap(U + 4 * Q - V), F, Q, QInv) >>
butterflyBarrett(U, V, F) ==
    LET X == IF U > 2 * Q THEN U - 2 * Q ELSE U
        Y == BRedConstant(V, F, Q, BredQ)
    IN  << Wrap(X + Y), Wrap(X + 2 * Q - Y) >>
invbutterflyBarrett(U, V, F) ==
    LET X == Wrap(U + V)
    IN  << IF X > 2 * Q THEN X - 2 * Q ELSE X, BRedConstant(Wrap(U + 2 * Q - V), F, Q, BredQ) >>

\* What a round does to a pair with the factor F.
PairOf(U, V, F, reduce) ==
    CASE fn \in Forward -> butterfly(U, V, F, reduce)
      [] fn \in Inverse -> invbutterfly(U, V, F)
      [] fn = "NTTBarrett" -> butterflyBarrett(U, V, F)
      [] OTHER -> invbutterflyBarrett(U, V, F)

EachPairSlip(table, reduce) ==                        \* a slip in EachPair
    [j \in Coefs |->
        LET F == table[m + (m - 1) - j \div (2 * t)]
        IN  IF (j \div t) % 2 = 0 THEN PairOf(p[j], p[j + t], F, reduce)[1]
            ELSE PairOf(p[j - t], p[j], F, reduce)[2]]
\* One round: the pairs at distance t, block i with the factor table[m + i].
EachPair(table, reduce) ==
    [j \in Coefs |->
        LET F == table[m + j \div (2 * t)]
        IN  IF (j \div t) % 2 = 0 THEN PairOf(p[j], p[j + t], F, reduce)[1]
            ELSE PairOf(p[j - t], p[j], F, reduce)[2]]

ReducesSlip == FALSE                                  \* a slip in Reduces
\* Between the first round and the last, every other one reduces.
Reduces == k % 2 = 0

\* Callers give the forward transforms words below 4Q, the others below 2Q.
Init == /\ fn \in Transforms
        /\ source \in Inputs
        /\ fn \notin Forward => \A j \in Coefs : source[j] < 2 * Q
        /\ p = source
        /\ k = 0

DoRound(row) == /\ p' = row
                /\ k' = k + 1
                /\ UNCHANGED << fn, source >>
ForwardRound(reduce) == fn \in Forward /\ DoRound(EachPair(Psi, reduce))
\* The first round goes from input to output unreduced; the round at distance
\* 1 always reduces.
NTTFirstRound == k = 0 /\ ForwardRound(FALSE)
NTTRound == k \in 1..(LogN - 2) /\ ForwardRound(Reduces)
NTTLastRound == k = LogN - 1 /\ ForwardRound(TRUE)
PlainRound(f, table) == fn = f /\ k < LogN /\ DoRound(EachPair(table, FALSE))
InvNTTRound == PlainRound("InvNTT", PsiInv)
InvNTTLazyRound == PlainRound("InvNTTLazy", PsiInv)
NTTBarrettRound == PlainRound("NTTBarrett", Psi)
InvNTTBarrettRound == PlainRound("InvNTTBarrett", PsiInv)

\* The last pass: an exact reduction, the factor 1/N, or nothing.
Finish(f, row) == fn = f /\ k = LogN /\ DoRound(row)
NTT == Finish("NTT", [j \in Coefs |-> BRedAdd(p[j], Q, BredQ)])
NTTLazy == Finish("NTTLazy", p)
InvNTT == Finish("InvNTT", [j \in Coefs |-> MRed(p[j], NInv, Q, QInv)])
InvNTTLazy == Finish("InvNTTLazy", [j \in Coefs |-> MRedConstant(p[j], NInv, Q, QInv)])
NTTBarrett == Finish("NTTBarrett", [j \in Coefs |-> BRedAdd(p[j], Q, BredQ)])
InvNTTBarrett == Finish("InvNTTBarrett", [j \in Coefs |-> BRed(p[j], NInv, Q, BredQ)])

Next == \/ NTTFirstRound \/ NTTRound \/ NTTLastRound
        \/ InvNTTRound \/ InvNTTLazyRound
        \/ NTTBarrettRound \/ InvNTTBarrettRound
        \/ NTT \/ NTTLazy \/ InvNTT \/ InvNTTLazy \/ NTTBarrett \/ InvNTTBarrett
Spec == Init /\ [][Next]_vars
-----------------------------------------------------------------------------
\* The state has its types: a transform, an input, a row of words, a round.
TypeOK == /\ fn \in Transforms
          /\ source \in Inputs
          /\ p \in [Coefs -> Word]
          /\ k \in 0..(LogN + 1)

\* Between reductions a forward coefficient may reach 8Q, and a word holds it;
\* an inverse one stays below 2Q, the bound its butterfly asks of both sides.
ForwardTop == IF k = 0 THEN 4 * Q ELSE IF k % 2 = 1 \/ k >= LogN THEN 6 * Q ELSE 8 * Q
RoundsFit ==
    \A j \in Coefs :
        /\ fn \in Forward => p[j] < ForwardTop
        /\ fn \in Inverse => p[j] < 2 * Q
        /\ fn = "NTTBarrett" => p[j] <= 4 * Q
        /\ fn = "InvNTTBarrett" => p[j] <= 2 * Q

\* The exact transforms end with canonical residues.
Exact == {"NTT", "InvNTT", "NTTBarrett", "InvNTTBarrett"}
EndsReduced == k = LogN + 1 /\ fn \in Exact => \A j \in Coefs : p[j] < Q

\* The polynomial a at the (2i+1)-th power of the root, i the reversal of j.
ValueAt(a, j) ==
    LET sum[i \in 0..N] ==
            IF i = 0 THEN 0
            ELSE (sum[i-1] + (a[i-1] % Q) * RootTo[((2 * BitReverse64(j, LogN) + 1) * (i-1)) % (2 * N)]) % Q
    IN  sum[N]

\* A forward transform evaluates its input at the odd powers of a 2N-th root
\* of unity; an inverse one finds the polynomial with these values.  (Not the
\* Barrett forms, which nothing calls: they multiply by the table's factors in
\* Montgomery form, which only MRed takes out again.)
ComputesTransform ==
    k = LogN + 1 =>
        \A j \in Coefs : /\ fn \in Forward => p[j] % Q = ValueAt(source, j)
                         /\ fn \in Inverse => ValueAt(p, j) = source[j] % Q

==============================================================================
