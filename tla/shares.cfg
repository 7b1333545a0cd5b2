CONSTANTS
  W = 9
  Qi <- MCQi
  Pi <- MCPi
  T = 13
  N = 3
  t = 2
  Streams <- MCStreams
  Errors <- MCErrors
  Ballots <- MCBallots
  Smudges <- MCSmudges
SPECIFICATION Spec
INVARIANTS KeyIsShared PublicKeyFits DecryptsSum
CHECK_DEADLOCK FALSE
