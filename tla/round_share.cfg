\* Two first-time parties, a secret share overtakes the parameters.
CONSTANTS
  p1 = p1
  p2 = p2
  p3 = p3
  Parties = {p1, p2}
  Starter = p1
  Tickets = {yes}
  Abstain = abstain
  NoKey = nokey
  Veterans = {}
  Races = {"share"}
  MaxCalls = 1
  MaxBegins = 1
SPECIFICATION Spec
INVARIANT NoShareBeforeParams
CHECK_DEADLOCK FALSE
