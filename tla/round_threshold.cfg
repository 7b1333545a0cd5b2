\* Three parties, threshold two: do two decryption shares decrypt?
CONSTANTS
  p1 = p1
  p2 = p2
  p3 = p3
  Parties = {p1, p2, p3}
  Starter = p1
  Tickets = {yes}
  Abstain = abstain
  NoKey = nokey
  Veterans = {p3}
  Races = {}
  MaxCalls = 1
  MaxBegins = 1
SPECIFICATION Spec
INVARIANT ThresholdDecrypts
CHECK_DEADLOCK FALSE
