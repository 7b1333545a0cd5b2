CONSTANTS
  W = 12
  LogN = 5
  Q <- MCQ
  QInv <- MCQInv
  BredQ <- MCBredQ
  Psi <- MCPsi
  PsiInv <- MCPsiInv
  NInv <- MCNInv
  Inputs <- MCInputs
  Transforms <- MCTransforms
SPECIFICATION Spec
INVARIANTS RoundsFit EndsReduced ComputesTransform
CHECK_DEADLOCK FALSE
