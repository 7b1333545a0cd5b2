--------------------------------- MODULE Bits ---------------------------------
(* The operators &, | and ^ of Go on words of W bits.                         *)
EXTENDS Integers

CONSTANT W          \* bits in a word

\* Bit by bit from the lowest: the word so far, what is left of x and of y, and
\* the weight of the next bit.
BitByBit(x, y, Bit(_, _)) ==
    LET run[k \in 0..W] ==
            IF k = 0 THEN << 0, x, y, 1 >>
            ELSE LET s == run[k-1]
                 IN  << s[1] + s[4] * Bit(s[2] % 2, s[3] % 2), s[2] \div 2, s[3] \div 2, 2 * s[4] >>
    IN  run[W][1]

And(x, y) == BitByBit(x, y, LAMBDA a, b : a * b)
Or(x, y) == BitByBit(x, y, LAMBDA a, b : a + b - a * b)
Xor(x, y) == BitByBit(x, y, LAMBDA a, b : (a + b) % 2)
===============================================================================
