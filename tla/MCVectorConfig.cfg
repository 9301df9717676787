SPECIFICATION Spec
CONSTANTS
  VLEN = 32
  a = a
  b = b
  x0 = x0
  Regs <- MCRegs
  Values <- MCValues
  Words <- StraightWords
  Reserved = FALSE
INVARIANTS
  GroupHoldsVl
PROPERTIES
  ConfigFollowsProgram
