SPECIFICATION FairSpec
CONSTANTS
  NUM_REQS = 2
  NWords = 3
  Targets <- MCTargets
  Programs <- MCPrograms
  NoInstr = NoInstr
INVARIANTS NoOverflow QueuesAgree
PROPERTIES RequestStable ImplementsStream FetchProgress Quiesces
