SPECIFICATION FairSpec
CONSTANTS
  Pcs <- MCPcs
  Succ <- MCSucc
  Boot = 0
  Entry <- MCEntry
  Triggers <- OneTrigger
  Tw = FALSE
  Lines <- DebugLines
  Instrs <- DebugInstrs
PROPERTIES
  ImplementsHart
  DebugRequestTaken
  WakesUp
