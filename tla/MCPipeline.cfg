SPECIFICATION FairSpec
CONSTANTS
  Pcs <- MCPcs
  Succ <- MCSucc
  Boot = 0
  Entry <- MCEntry
  Triggers <- NoTriggers
  Tw = TRUE
  Lines <- AsyncLines
  Instrs <- TrapInstrs
INVARIANTS
  AtRest
  NoAccessAsleep
PROPERTIES
  NmiTransparent
  ImplementsHart
  NmiTaken
