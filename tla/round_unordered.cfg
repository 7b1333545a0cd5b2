\* Two parties, every window open but "store", "begin" pressed twice.
CONSTANTS
  p1 = p1
  p2 = p2
  p3 = p3
  Parties = {p1, p2}
  Starter = p1
  Tickets = {yes, no}
  Abstain = abstain
  NoKey = nokey
  Veterans = {p2}
  Races = {"share", "detail", "ballot"}
  MaxCalls = 1
  MaxBegins = 2
SPECIFICATION Spec
PROPERTY OnlyForward
CHECK_DEADLOCK FALSE
