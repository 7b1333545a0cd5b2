------------------------------- MODULE MCShares -------------------------------
(* Three parties, two of which suffice.  The special modulus is so small that *)
(* errors survive the division by it, and a zero comes with either sign.      *)
EXTENDS Shares
MCQi == << 31, 37 >>
MCPi == << 5 >>
MCStreams == {<< 5, 12, 30 >>, << 9, 0, 4 >>}
MCErrors == {<< << 4, 1 >>, << 4, 0 >>, << 4, 1 >> >>, << << 4, 0 >>, << 3, 1 >>, << 0, 0 >> >>}
MCSmudges == {<< 4, 0 >>, << 4, 1 >>}
MCBallots ==
    {[ticket |-> 0, u |-> -1, e0 |-> << 4, 0 >>, e1 |-> << 3, 1 >>],
     [ticket |-> 1, u |-> 1, e0 |-> << 4, 1 >>, e1 |-> << 0, 0 >>]}
===============================================================================
