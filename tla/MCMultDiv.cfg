SPECIFICATION Spec
CONSTANTS
  H = 4
  Operands <- MCOperands
  Corners <- MCCorners
  Length = 2
  Builds <- MCBuilds
INVARIANTS
  ResultCorrect
  Latency
