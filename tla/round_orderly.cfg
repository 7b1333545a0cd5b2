\* Three parties, the sleeps and the users keep everything in order, every
\* message arrives and every user acts.
CONSTANTS
  p1 = p1
  p2 = p2
  p3 = p3
  Parties = {p1, p2, p3}
  Starter = p1
  Tickets = {yes}
  Abstain = abstain
  NoKey = nokey
  Veterans = {p3}
  Races = {}
  MaxCalls = 1
  MaxBegins = 1
SPECIFICATION DecidedSpec
INVARIANTS TypeOK BallotsUnderJointKey NothingLost Lockstep KeyInv OrderInv
PROPERTIES ImplementsBallot CompletesBallot
CHECK_DEADLOCK FALSE
