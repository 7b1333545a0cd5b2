SPECIFICATION Spec
CONSTANTS
  W = 11
  LogN = 4
  Modulus <- MCModulus
  Start <- MCStart
  Scalars <- MCScalars
  PerRow <- MCPerRow
  Signed <- MCSigned
  MaxCalls = 2
INVARIANTS TypeOK WithinBounds
PROPERTY ImplementsRing
CHECK_DEADLOCK FALSE
