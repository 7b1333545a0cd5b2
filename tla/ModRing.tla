------------------------------- MODULE ModRing -------------------------------
(****************************************************************************)
(* What the functions of crypto/ring/ring_operations.go promise: three      *)
(* polynomials of Z_q[X]/(X^N + 1), one row of residues per modulus q, and  *)
(* calls that replace one of them, or its first rows, by the result of a    *)
(* ring operation.  There are no words, no Montgomery or Barrett            *)
(* reductions and no lazily reduced coefficients here.                      *)
(****************************************************************************)
EXTENDS Integers, Bits

CONSTANTS Modulus,   \* the moduli
          Degree,      \* the number of coefficients
          Radix      \* the factor of the Montgomery domain
VARIABLES val,       \* register -> row -> coefficient -> residue
          call       \* the last call: op, rows 1..lvl, destination, argument

Rows == DOMAIN Modulus
Coefs == 0..(Degree - 1)
RadixInv == [i \in Rows |-> CHOOSE v \in 0..(Modulus[i] - 1) : (v * Radix) % Modulus[i] = 1]

Init == /\ val \in [{"a", "b", "c"} -> [Rows -> [Coefs -> Int]]]
        /\ call.op = "none"

\* The call writes into dst the rows F makes of a, b and the old dst.
DoesRow(op, F(_, _, _, _)) ==
    /\ call'.op = op
    /\ val' = [val EXCEPT ![call'.dst] =
                  [i \in Rows |-> IF i > call'.lvl THEN @[i]
                                  ELSE F(val.a[i], val.b[i], @[i], i)]]
\* The same, coefficient by coefficient.
Does(op, F(_, _, _, _)) ==
    DoesRow(op, LAMBDA x, y, z, i : [j \in Coefs |-> F(x[j], y[j], z[j], i) % Modulus[i]])

\* Coefficient j of x times y, X^N being -1.
NegacyclicProduct(x, y, i) ==
    [j \in Coefs |->
        LET term(k) == IF k <= j THEN x[k] * y[j - k] ELSE -(x[k] * y[Degree + j - k])
            sum[k \in 0..Degree] == IF k = 0 THEN 0 ELSE sum[k-1] + term(k-1)
        IN  sum[Degree] % Modulus[i]]
\* Coefficient j of x times X^n, 0 <= n < 2N.
TimesMonomial(x, n, i) ==
    [j \in Coefs |-> LET k == (j - n) % (2 * Degree)
                     IN (IF k < Degree THEN x[k] ELSE -x[k - Degree]) % Modulus[i]]

Arithmetic ==
    \/ Does("add", LAMBDA x, y, z, i : x + y)
    \/ Does("sub", LAMBDA x, y, z, i : x - y)
    \/ Does("neg", LAMBDA x, y, z, i : -x)
    \/ Does("copy", LAMBDA x, y, z, i : x)
    \/ Does("mul", LAMBDA x, y, z, i : x * y)
    \/ Does("muladd", LAMBDA x, y, z, i : z + x * y)
    \/ Does("montmul", LAMBDA x, y, z, i : ((x * y) % Modulus[i]) * RadixInv[i])
    \/ Does("montmuladd", LAMBDA x, y, z, i : z + ((x * y) % Modulus[i]) * RadixInv[i])
    \/ Does("montmulsub", LAMBDA x, y, z, i : z - ((x * y) % Modulus[i]) * RadixInv[i])
    \/ Does("tomont", LAMBDA x, y, z, i : x * Radix)
    \/ Does("frommont", LAMBDA x, y, z, i : x * RadixInv[i])
    \/ Does("addscalar", LAMBDA x, y, z, i : x + call'.arg)
    \/ Does("mulscalar", LAMBDA x, y, z, i : x * (call'.arg % Modulus[i]))
    \/ Does("pow2", LAMBDA x, y, z, i : x * (2^call'.arg % Modulus[i]))
    \/ Does("mod", LAMBDA x, y, z, i : x % call'.arg)
    \/ Does("and", LAMBDA x, y, z, i : And(x, call'.arg))
    \/ Does("or", LAMBDA x, y, z, i : Or(x, call'.arg))
    \/ Does("xor", LAMBDA x, y, z, i : Xor(x, call'.arg))
    \/ DoesRow("vecmul", LAMBDA x, y, z, i :
           [j \in Coefs |-> (x[j] * call'.arg[j] * RadixInv[i]) % Modulus[i]])
    \/ DoesRow("vecmuladd", LAMBDA x, y, z, i :
           [j \in Coefs |-> (z[j] + x[j] * call'.arg[j] * RadixInv[i]) % Modulus[i]])

Structure ==
    \/ DoesRow("product", LAMBDA x, y, z, i : NegacyclicProduct(x, y, i))
    \/ DoesRow("montproduct", LAMBDA x, y, z, i :
           [j \in Coefs |-> (NegacyclicProduct(x, y, i)[j] * RadixInv[i]) % Modulus[i]])
    \/ DoesRow("monomial", LAMBDA x, y, z, i : TimesMonomial(x, call'.arg % (2 * Degree), i))
    \/ DoesRow("shift", LAMBDA x, y, z, i : [j \in Coefs |-> x[(j + call'.arg) % Degree]])
    \/ DoesRow("permute", LAMBDA x, y, z, i : [j \in Coefs |-> x[call'.arg[j]]])
    \/ DoesRow("const", LAMBDA x, y, z, i :
           [j \in Coefs |-> IF j = 0 THEN (call'.arg[i] * Radix) % Modulus[i] ELSE 0])
    \/ DoesRow("set", LAMBDA x, y, z, i : [j \in Coefs |-> call'.arg[j] % Modulus[i]])
    \/ DoesRow("setmont", LAMBDA x, y, z, i :
           [j \in Coefs |-> ((call'.arg[j] % Modulus[i]) * Radix) % Modulus[i]])
    \/ DoesRow("galois", LAMBDA x, y, z, i : [j \in Coefs |-> (x[j] * call'.arg[i][j]) % Modulus[i]])

\* A comparison changes no polynomial.
Compare ==
    /\ call'.op = "equal"
    /\ call'.arg = (\A i \in 1..call'.lvl : val.a[i] = val.b[i])
    /\ UNCHANGED val

Next == Arithmetic \/ Structure \/ Compare
Spec == Init /\ [][Next]_<<val, call>>
==============================================================================
