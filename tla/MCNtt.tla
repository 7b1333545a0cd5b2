-------------------------------- MODULE MCNtt --------------------------------
(* 32 coefficients are the fewest that pass through every branch on t; 449    *)
(* leaves room for nine of it, and not ten, in a word of twelve bits.         *)
EXTENDS Ntt
MCQ == 449
Tables == INSTANCE Ring WITH Modulus <- << MCQ >>
MCQInv == Tables!MredParams[1]
MCBredQ == Tables!BredParams[1]
MCPsi == Tables!NttPsi[1]
MCPsiInv == Tables!NttPsiInv[1]
MCNInv == Tables!NttNInv[1]
\* The largest values everywhere, single monomials, and mixtures.
MCInputs ==
    {[j \in Coefs |-> c] : c \in {MCQ - 1, 2 * MCQ - 1, 4 * MCQ - 1}}
    \cup {[j \in Coefs |-> IF j = d THEN MCQ - 1 ELSE 0] : d \in {0, 1, N - 1}}
    \cup {[j \in Coefs |-> (j * s + 5) % top] : s \in {37, 211}, top \in {MCQ, 2 * MCQ, 4 * MCQ}}
    \cup {[j \in Coefs |-> IF (j \div d) % 2 = 0 THEN 2 * MCQ - 1 ELSE 0] : d \in {1, 2, 8, 16}}
MCTransforms == {"NTT", "NTTLazy", "InvNTT", "InvNTTLazy", "NTTBarrett", "InvNTTBarrett"}
==============================================================================
