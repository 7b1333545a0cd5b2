------------------------------- MODULE Ballot -------------------------------
(***************************************************************************)
(* What a vote promises its voters, without keys, shares or messages:      *)
(* every party casts one ballot, nobody is told anything before all have   *)
(* cast, and everyone is told the same thing, the count of the ballots.    *)
(***************************************************************************)
EXTENDS Naturals, FiniteSets

CONSTANTS Parties, Tickets, Abstain

VARIABLES
  cast,   \* the ballots each party has cast: none or one
  told    \* the counts each party has been told: none or one

Count == [t \in Tickets |-> Cardinality({p \in Parties : cast[p] = {t}})]

Init == /\ cast = [p \in Parties |-> {}]
        /\ told = [p \in Parties |-> {}]

Cast(p) == /\ cast[p] = {}
           /\ \E t \in Tickets \cup {Abstain} : cast' = [cast EXCEPT ![p] = {t}]
           /\ UNCHANGED told

Tell(p) == /\ \A q \in Parties : cast[q] # {}
           /\ told[p] = {}
           /\ told' = [told EXCEPT ![p] = {Count}]
           /\ UNCHANGED cast

Next == \E p \in Parties : Cast(p) \/ Tell(p)

Spec == Init /\ [][Next]_<<cast, told>>

FairSpec == Spec /\ \A p \in Parties : /\ WF_<<cast, told>>(Cast(p))
                                       /\ WF_<<cast, told>>(Tell(p))
=============================================================================
