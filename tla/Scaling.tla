------------------------------- MODULE Scaling -------------------------------
(****************************************************************************)
(* What crypto/ring/ring_basis_extension.go and ring_scaling.go make of one *)
(* coefficient over the integers: an integer known modulo the product M of  *)
(* some moduli is moved to other moduli, or divided and rounded.  Where the *)
(* code takes an integer part in floating point, an integer within Slack of *)
(* a multiple of its modulus may be read on the other side of it.           *)
(****************************************************************************)
EXTENDS Integers, Sequences

CONSTANTS Bases,     \* the sequences of moduli in use
          Precision  \* a quotient within 1 / Precision of an integer may be taken for it
VARIABLES value, moduli,
          op         \* the last operation
vars == << value, moduli, op >>

Product(s) == LET upto[k \in 0..Len(s)] == IF k = 0 THEN 1 ELSE s[k] * upto[k-1] IN upto[Len(s)]
M == Product(moduli)

Slack(m) == (m \div Precision) + 1
\* x in 0..m-1 may be read as x + c*m.
Misread(x, m) == {0} \cup {c \in {1} : x < Slack(m)} \cup {c \in {-1} : x >= m - Slack(m)}

\* The same integer, or its residue by some of the moduli, in a new basis.
Convert(to) ==
    /\ op' = << "Convert" >>
    /\ \E c \in Misread(value, M) : value' = (value + c * M) % Product(to)
Digit(i, j, to) ==
    LET d == Product(SubSeq(moduli, i, j)) IN
    /\ op' = << "Digit", i, j >>
    /\ \E c \in Misread(value % d, d) : value' = ((value % d) + c * d) % Product(to)

\* Division by the moduli that go, rounded down (the comments on four of the
\* five ModDown functions say rounded); ModDown may misread the remainder r, and
\* the division in the transform domain may take r + d for r.
Divide(name, to, Off(_, _)) ==
    LET d == M \div Product(to) IN
    /\ op' = << name >>
    /\ M % Product(to) = 0
    /\ \E c \in Off(value % d, d) : value' = ((value \div d) - c) % Product(to)
ModDown(to) == Divide("ModDown", to, Misread)
DivFloor(to) == Divide("DivFloor", to, LAMBDA r, d : {0})
DivFloorNTT(to) == Divide("DivFloorNTT", to, LAMBDA r, d : {0, 1})

\* Division by one modulus after the other, rounded each time to the nearest.
DivRound(to) ==
    LET quotient[n \in Len(to)..Len(moduli)] ==
            IF n = Len(moduli) THEN value
            ELSE (quotient[n+1] + (moduli[n+1] - 1) \div 2) \div moduli[n+1]
    IN  /\ op' = << "DivRound" >>
        /\ M % Product(to) = 0
        /\ value' = quotient[Len(to)] % Product(to)

\* round(t * value / M) modulo t.
Scale(t) ==
    LET x == t * value + M \div 2 IN
    /\ op' = << "Scale" >>
    /\ \E c \in Misread(x % M, M) : value' = ((x \div M) - c) % t

\* The same by SimpleScaler, of an integer that has grown by what the scaler
\* kept: nothing at first, and then its previous result, which is at most t.
SimpleScale(t) ==
    /\ op' = << "SimpleScale" >>
    /\ \E kept \in 0..t : value' = ((t * (value + kept) + M \div 2) \div M) % t

Init == moduli \in Bases /\ value \in 0..(M - 1) /\ op = << "Init" >>
Next ==
    \E to \in Bases :
        /\ moduli' = to
        /\ \/ Convert(to) \/ ModDown(to) \/ DivFloor(to) \/ DivFloorNTT(to) \/ DivRound(to)
           \/ \E i, j \in DOMAIN moduli : i <= j /\ Digit(i, j, to)
           \/ \E t \in {to[1]} : to = << t >> /\ (Scale(t) \/ SimpleScale(t))
Spec == Init /\ [][Next]_vars
=============================================================================
