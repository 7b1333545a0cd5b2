CONSTANTS
  W = 8
  Q <- MCQ
  P <- MCP
  T <- MCT
  ExtendedLevels <- FullLevel
  Precision = 20
  Inputs <- MCInputs
SPECIFICATION Spec
INVARIANTS TypeOK RowsFit
 
CHECK_DEADLOCK FALSE
