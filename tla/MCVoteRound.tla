---------------------------- MODULE MCVoteRound -----------------------------
(* Small instances of VoteRound for TLC. *)
EXTENDS VoteRound

CONSTANTS p1, p2, p3

\* In the fair run every user has decided beforehand, p3 to abstain and the
\* others to vote: no step of a round depends on the ticket a ballot carries.
Decided == \A b \in sent : b.type = "CipherText" => (b.ticket = Abstain <=> b.from = p3)
DecidedSpec == Init /\ [][Next /\ Decided']_vars /\ Fairness
=============================================================================
