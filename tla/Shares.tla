------------------------------- MODULE Shares -------------------------------
(****************************************************************************)
(* The arithmetic of a vote: crypto/party/party.go over crypto/dbfv's       *)
(* SecretShare.go, publickey_gen.go and decryption.go and crypto/bfv's      *)
(* encoder and encryptor.  A polynomial is its constant coefficient, one    *)
(* residue (row) per modulus, in Montgomery form where the code keeps it    *)
(* so.  Every step reads messages and a phone's own fields only, and module *)
(* VoteRound shows who runs it when: here the phones take each step         *)
(* together.                                                                *)
(****************************************************************************)
EXTENDS Words, Sequences, FiniteSets, FiniteSetsExt, Functions

CONSTANTS Qi, Pi,     \* the moduli of the ciphertexts, and the special ones
          T,          \* the plaintext modulus
          N, t,       \* the number of parties and the threshold
          Streams,    \* what the parties' random sources may yield
          Errors,     \* the errors of their key parts
          Ballots,    \* [ticket, u, e0, e1]: a vote and the errors it is hidden with
          Smudges     \* the errors of the decryption shares
VARIABLES dealt,      \* dealt[p][r]: the secret share p has for r
          ski,        \* each party's share of the joint key, in Montgomery form
          pki,        \* its part of the public key
          pk,         \* the public key, <<>> before GenPk
          ballot,     \* what each party voted, with its errors
          ciphertext, \* the pair it sent
          result,     \* cd.result, the running sum
          share,      \* decryption shares, by the parties that take part
          count       \* what FinaDec returns
vars == << dealt, ski, pki, pk, ballot, ciphertext, result, share, count >>

Parties == 1..N
Moduli == Qi \o Pi
Product(s) == FoldFunction(LAMBDA a, b : a * b, 1, s)

\* Sizes up to the samplers' bound, below every modulus, and signs: 1 for plus.
Gaussian == (0..(Min({Moduli[i] : i \in DOMAIN Moduli}) - 1)) \X {0, 1}

ASSUME SharesAssumption ==
    /\ N \in Nat /\ t \in 1..N /\ T \in Nat \ {0, 1} /\ Len(Qi) > 0 /\ Len(Pi) > 0
    /\ \A i, j \in DOMAIN Moduli : i # j => Moduli[i] # Moduli[j]
    /\ \A i \in DOMAIN Moduli :
           Moduli[i] > N /\ getFactors(Moduli[i]) = {Moduli[i]} /\ 8 * Moduli[i] < R /\ N * Moduli[i] < R
    /\ Streams \subseteq [Parties -> Nat] /\ Errors \subseteq [Parties -> Gaussian] /\ Smudges \subseteq Gaussian
    /\ \A b \in Ballots : /\ b.ticket \in 0..(T - 1) /\ b.u \in {-1, 0, 1}
                          /\ b.e0 \in Gaussian /\ b.e1 \in Gaussian

\* Rows: one residue per modulus, and the integer they stand for.  ModInverse
\* leaves a multiple of q as it is, which is 0 modulo q.
bredParams == [i \in DOMAIN Moduli |-> BRedParams(Moduli[i])]
mredParams == [i \in DOMAIN Moduli |-> MRedParams(Moduli[i])]
Small(e) == [i \in DOMAIN Moduli |-> e % Moduli[i]]
InMForm(x) == [i \in DOMAIN x |-> MForm(x[i], Moduli[i], bredParams[i])]
Add(x, y) == [i \in DOMAIN x |-> CRed(x[i] + y[i], Moduli[i])]
MulCoeffsMontgomery(x, y) ==
    [i \in DOMAIN x |-> MRed(x[i], y[i], Moduli[i], mredParams[i])]
OverQ(x) == SubSeq(x, 1, Len(Qi))
ModInverse(x, q) == IF x % q = 0 THEN 0 ELSE CHOOSE y \in 1..(q - 1) : (x * y) % q = 1
CrtFactor == [n \in {Len(Qi), Len(Moduli)} |->
    LET m == Product(SubSeq(Moduli, 1, n))
    IN  [i \in 1..n |-> (m \div Moduli[i]) * ModInverse(m \div Moduli[i], Moduli[i])]]
Value(x) == FoldFunction(LAMBDA s, a : s + a, 0, [i \in DOMAIN x |-> (x[i] % Moduli[i]) * CrtFactor[Len(x)][i]])
            % Product(SubSeq(Moduli, 1, Len(x)))

\* The samplers: an error is a size and a sign, a ternary value comes in
\* Montgomery form.
ReadLvl(e) == [i \in DOMAIN Moduli |-> IF e[2] = 1 THEN e[1] ELSE Moduli[i] - e[1]]
ReadAndAdd(x, e) == Add(x, ReadLvl(e))
Ternary(u) == InMForm(Small(u))

\* ModDownPQ and the scaling by T/Q as module Rns has them, but for the unit
\* that a misread remainder moves a quotient by.
ModDown(x) == OverQ(Small(Value(x) \div Product(Pi)))
DivByQOverTRounded(x) == ((T * Value(x) + Product(Qi) \div 2) \div Product(Qi)) % T

-----------------------------------------------------------------------------
(* SecretShare.go *)

\* The value at x of the polynomial with these coefficients, by Horner's rule.
poly(q, x, index) ==
    LET temp[i \in DOMAIN index] ==
            IF i = Len(index) THEN index[i] ELSE temp[i+1] * x + index[i]
    IN  temp[1] % q

\* rand.Int63n(q), for the k-th coefficient and the j-th modulus.
Int63n(stream, j, k) == (stream * (j + k)) % Moduli[j]
genShare(secret, stream, j) ==
    LET index == [k \in 1..t |-> IF k = 1 THEN secret ELSE Int63n(stream, j, k)]
    IN  [i \in Parties |-> poly(Moduli[j], i, index) % Moduli[j]]

\* The flag of a coefficient is a secret of the one party randomList gives it
\* to; the others share zero.
Flags == {0, 1, 2}
secret(flag, j) ==
    LET q == Moduli[j]
    IN  MForm(CASE flag = 0 -> 0 [] flag = 1 -> 1 [] flag = 2 -> q - 1, q, bredParams[j])
innerLoop(p, c, flag, stream, j) ==
    genShare(IF p = (c % N) + 1 THEN secret(flag, j) ELSE 0, stream, j)
DKGGenMatrixSingle(p, c, flag, stream) ==
    LET matrix == [j \in DOMAIN Moduli |-> innerLoop(p, c, flag, stream, j)]
    IN  [r \in Parties |-> [j \in DOMAIN Moduli |-> matrix[j][r]]]

CombineSlip(dkgShare) ==                              \* a slip in Combine
    [j \in DOMAIN Moduli |-> MapThenSumSet(LAMBDA p : dkgShare[p][j] % Moduli[j], DOMAIN dkgShare) % Qi[1]]
Combine(dkgShare) ==
    [j \in DOMAIN Moduli |->
        Wrap(MapThenSumSet(LAMBDA p : dkgShare[p][j] % Moduli[j], DOMAIN dkgShare)) % Moduli[j]]

\* Lagrange's coefficients at 0 for the points index.
genCoffee(index, i, q) ==
    LET others == index \ {i}
        nume == ProductSet({-j : j \in others})
        deno == ProductSet({i - j : j \in others})
    IN  ((nume % q) * ModInverse(deno, q)) % q
GenCoffee == [index \in SUBSET Parties |->
    [i \in index |-> [j \in DOMAIN Moduli |-> genCoffee(index, i, Moduli[j])]]]
NewPolyFromCoeffs(coeffs) == InMForm(coeffs)

-----------------------------------------------------------------------------
(* One step of all the parties each *)

Zero == << OverQ(Small(0)), OverQ(Small(0)) >>        \* NewCiphertext
Init == /\ dealt = << >> /\ ski = << >> /\ pki = << >> /\ pk = << >>
        /\ ballot = << >> /\ ciphertext = << >> /\ share = << >> /\ count = << >>
        /\ result = Zero

GenSecretShare ==
    /\ dealt = << >>
    /\ \E c \in Parties, flag \in Flags, stream \in Streams :
          dealt' = [p \in Parties |-> DKGGenMatrixSingle(p, c, flag, stream[p])]
    /\ UNCHANGED << ski, pki, pk, ballot, ciphertext, result, share, count >>

GenSki ==
    /\ dealt # << >> /\ ski = << >>
    /\ ski' = [r \in Parties |-> Combine([p \in Parties |-> dealt[p][r]])]
    /\ UNCHANGED << dealt, pki, pk, ballot, ciphertext, result, share, count >>

\* The polynomial every party draws from the same keyed source.
A == Small(7)
\* A part of the public key: e - A * ski.
GenShare(sk, e) ==
    LET known == MulCoeffsMontgomery(sk, A)
    IN  [i \in DOMAIN Moduli |-> CRed((ReadLvl(e)[i] % Moduli[i]) + (Moduli[i] - known[i]), Moduli[i])]
GenPki ==
    /\ ski # << >> /\ pki = << >>
    /\ \E e \in Errors : pki' = [p \in Parties |-> GenShare(ski[p], e[p])]
    /\ UNCHANGED << dealt, ski, pk, ballot, ciphertext, result, share, count >>

GenPublicKeySlip(shares) == FoldFunction(Add, Small(0), shares) \* a slip in GenPublicKey
\* The parts, weighted so that what they know of the key adds up.
GenPublicKey(shares) ==
    LET coeffs == GenCoffee[DOMAIN shares] IN
    FoldFunction(Add, Small(0),
        [p \in DOMAIN shares |-> MulCoeffsMontgomery(shares[p], NewPolyFromCoeffs(coeffs[p]))])
GenPk ==
    /\ pki # << >> /\ pk = << >>
    /\ pk' = << GenPublicKey(pki), A >>
    /\ UNCHANGED << dealt, ski, pki, ballot, ciphertext, result, share, count >>

\* encoder.go and encryptor.go: the ticket times Q/T, plus an encryption of
\* zero made in QP and divided by P.
deltaMont == InMForm(OverQ(Small(Product(Qi) \div T)))
scaleUp(x) == MulCoeffsMontgomery([i \in DOMAIN Qi |-> x], deltaMont)
encrypt(b) ==
    LET half(e, k) == ModDown(ReadAndAdd(MulCoeffsMontgomery(Ternary(b.u), k), e))
    IN  << Add(half(b.e0, pk[1]), scaleUp(b.ticket)), half(b.e1, pk[2]) >>
Encrypt ==
    /\ pk # << >> /\ ballot = << >>
    /\ ballot' \in [Parties -> Ballots]
    /\ ciphertext' = [p \in Parties |-> encrypt(ballot'[p])]
    /\ UNCHANGED << dealt, ski, pki, pk, result, share, count >>

CountVotes(ciphertexts) ==
    FoldFunction(LAMBDA ct, sum : << Add(ct[1], sum[1]), Add(ct[2], sum[2]) >>,
                 result, ciphertexts)
EvalAdd ==
    /\ ciphertext # << >> /\ result = Zero
    /\ result' = CountVotes(ciphertext)
    /\ UNCHANGED << dealt, ski, pki, pk, ballot, ciphertext, share, count >>

\* A decryption share: coefficient * ski * c1, with an error, divided by P.
genShareDelta(skDelta, e) ==
    LET c1 == [i \in DOMAIN Qi |-> MRedConstant(result[2][i], skDelta[i], Qi[i], mredParams[i])]
        timesP == MulCoeffsMontgomery(c1, InMForm(OverQ(Small(Product(Pi)))))
        wide == [i \in DOMAIN Moduli |->
                    IF i \in DOMAIN Qi THEN timesP[i] + ReadLvl(e)[i] ELSE ReadLvl(e)[i]]
    IN  ModDown(wide)
PartDecSlip(p, index, e) ==                           \* a slip in PartDec
    genShareDelta(OverQ(MulCoeffsMontgomery(ski[p], NewPolyFromCoeffs(GenCoffee[Parties][p]))), e)
PartDec(p, index, e) ==
    genShareDelta(OverQ(MulCoeffsMontgomery(ski[p], NewPolyFromCoeffs(GenCoffee[index][p]))), e)
PartialDecryptions ==
    /\ result # Zero /\ share = << >>
    /\ \E index \in SUBSET Parties :
          /\ Cardinality(index) >= t
          /\ \E e \in [index -> Smudges] : share' = [p \in index |-> PartDec(p, index, e[p])]
    /\ UNCHANGED << dealt, ski, pki, pk, ballot, ciphertext, result, count >>

\* AggregateShares, FinialDec and the decoder.
FinaDec ==
    /\ share # << >> /\ count = << >>
    /\ LET combined == FoldFunction(Add, OverQ(Small(0)), share)
       IN  count' = << DivByQOverTRounded(Add(result[1], combined)) >>
    /\ UNCHANGED << dealt, ski, pki, pk, ballot, ciphertext, result, share >>

Next == GenSecretShare \/ GenSki \/ GenPki \/ GenPk \/ Encrypt \/ EvalAdd
        \/ PartialDecryptions \/ FinaDec
Spec == Init /\ [][Next]_vars
-----------------------------------------------------------------------------
\* The integer nearest 0 that rows stand for.
Centred(x) == LET m == Product(SubSeq(Moduli, 1, Len(x)))
              IN  IF 2 * Value(x) > m THEN Value(x) - m ELSE Value(x)
\* What interpolation by the parties of index makes of their shares.
Joint(index) ==
    LET coeffs == GenCoffee[index] IN
    FoldFunction(Add, Small(0),
        [p \in index |-> MulCoeffsMontgomery(ski[p], NewPolyFromCoeffs(coeffs[p]))])
\* The joint key itself, out of Montgomery form.
Key == MulCoeffsMontgomery(Joint(Parties), Small(1))

\* Any t parties hold the joint key, and it is the same for all of them and
\* small, by all the moduli at once: the key innerLoop drew.
KeyIsShared ==
    ski # << >> =>
        /\ Centred(Key) \in {-1, 0, 1}
        /\ \A index \in SUBSET Parties :
               Cardinality(index) >= t => Joint(index) = Joint(Parties)

\* The public key hides zero under the joint key: what is left is the parts'
\* errors, times coefficients that are small because every party's part is in
\* (GenPk with a subset may multiply an error by a fraction modulo Q).
PublicKeyFits ==
    pk # << >> =>
        LET rest == Add(pk[1], MulCoeffsMontgomery(Joint(Parties), pk[2]))
            largest == Max({e[p][1] : e \in Errors, p \in Parties})
        IN  Centred(rest) \in -((2^N - 1) * largest)..((2^N - 1) * largest)

\* Whichever t or more parties take part, FinaDec returns the sum of the
\* tickets: the count of VoteRound's Decrypts.
DecryptsSum ==
    count # << >> =>
        count[1] = MapThenSumSet(LAMBDA p : ballot[p].ticket, Parties) % T
=============================================================================
