SPECIFICATION FairSpec
CONSTANTS
  NWords <- MCNWords
  Instrs <- MCInstrs
INVARIANTS
  NoOrphanResponse
  LoadCorrect
  StoreCorrect
  ErrorReported
  FaultAddress
PROPERTIES
  RequestStable
  AccessEnds
