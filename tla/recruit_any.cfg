CONSTANTS
  Phones = {p1, p2}
  NoVote = NoVote
  Slips = {"refuse", "cancel", "form", "early", "store", "brief"}
  MaxBriefs = 2
  MaxForms = 3
  MaxBegins = 1
  MaxEarly = 1
SPECIFICATION Spec
CHECK_DEADLOCK FALSE
SYMMETRY AnyPhone
INVARIANTS RefuserStaysOut RefusalInv TypeOK
