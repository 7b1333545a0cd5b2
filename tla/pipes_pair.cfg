CONSTANTS
  N = 3
  Cap = 2
SPECIFICATION Spec
CHECK_DEADLOCK FALSE
INVARIANTS TypeOK NeverStuck WithinBudget EveryoneGetsKey NothingLost
