CONSTANTS
  Phones = {p1, p2, p3}
  NoVote = NoVote
  Slips = {"refuse"}
  MaxBriefs = 2
  MaxForms = 2
  MaxBegins = 1
  MaxEarly = 0
SPECIFICATION FairSpec
CHECK_DEADLOCK FALSE
INVARIANTS NoMismatch SameViews OwnParams DealersInv
PROPERTY ConfirmedTakesPart
