----------------------------- MODULE MCRecruit -----------------------------
(* What the symmetry of the phones is worth to the checked instances. *)
EXTENDS Recruit, TLC

\* Recruit treats all phones alike.
AnyPhone == Permutations(Phones)

\* A phone that has confirmed a vote gets to take part in it (server.go:130-140,
\* 362-405).  Nothing tells the phones apart, so that one stands for all.
ConfirmedTakesPart == TakesPart(CHOOSE n \in Phones : TRUE)
=============================================================================
