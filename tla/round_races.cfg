\* Two parties, every window open.
CONSTANTS
  p1 = p1
  p2 = p2
  p3 = p3
  Parties = {p1, p2}
  Starter = p1
  Tickets = {yes, no}
  Abstain = abstain
  NoKey = nokey
  Veterans = {p2}
  Races = {"share", "detail", "ballot", "store"}
  MaxCalls = 1
  MaxBegins = 1
SPECIFICATION Spec
INVARIANTS FullSumOnly FullSumInv ResultInv ReportsAgree CorrectMeansCounted
CHECK_DEADLOCK FALSE
