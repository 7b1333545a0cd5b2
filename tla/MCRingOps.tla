------------------------------ MODULE MCRingOps ------------------------------
(* The smallest ring NewRing accepts over the two smallest primes for it, on *)
(* words of eleven bits: 8q is still below 2^11, as it is below 2^64.        *)
EXTENDS RingOps
MCModulus == << 97, 193 >>

Spread(step, base, top(_)) ==
    [p   |-> [i \in Rows |-> [j \in Coefs |-> (base + j * step) % top(i)]],
     top |-> [i \in Rows |-> top(i)]]
\* The corners of a row: 0, 1, q - 1 and what lies between.
Corners == [p   |-> [i \in Rows |-> [j \in Coefs |-> (j * (Modulus[i] - 1)) \div (N - 1)]],
            top |-> Modulus]
\* Residues left unreduced, up to the largest word.
Lazy == Spread(133, R - 1, LAMBDA i : R)
Tripled == Spread(41, 5, LAMBDA i : 3 * Modulus[i])
Reversed == [Corners EXCEPT !.p = [i \in Rows |-> [j \in Coefs |-> Corners.p[i][(5 * j + 3) % N]]]]
\* Corners again, but for one q more in every other coefficient.
Twin == [p   |-> [i \in Rows |-> [j \in Coefs |-> Corners.p[i][j] + (j % 2) * Modulus[i]]],
         top |-> [i \in Rows |-> 2 * Modulus[i]]]
MCStart == {[a |-> Corners, b |-> Reversed, c |-> Corners],
            [a |-> Lazy, b |-> Reversed, c |-> Tripled],
            [a |-> Tripled, b |-> Lazy, c |-> Reversed],
            [a |-> Corners, b |-> Twin, c |-> Corners]}
MCScalars == {13, 27}
MCPerRow == << 5, 6 >>
\* Some above every modulus.
MCSigned == [j \in Coefs |-> (j - 8) * 37]
==============================================================================
