-------------------------------- MODULE MCRns --------------------------------
(* Rings of three and two moduli, in words of eight bits.  Small bases are    *)
(* tried with all their integers, larger ones with every 1009th and some next *)
(* to a multiple of the product of P.                                         *)
EXTENDS Rns
MCQ == << 11, 5, 7 >>
MCP == << 13, 3 >>
MCT == {3, 4}
MCInputs(m) ==
    {x \in 0..(Product(m) - 1) :
        \/ Product(m) <= Product(Q)
        \/ x % 1009 = 0
        \/ (x \div Product(P)) % 50 = 0 /\ (x + 2) % Product(P) < 4}
FullLevel == {Len(Q)}
ASSUME ModuliFit
==============================================================================
