SPECIFICATION FairSpec
CONSTANTS
  NWords <- MCNWords
  NRegs <- MCNRegs
  WordsPerReg <- MCWordsPerReg
  AguWords <- MCAguWords
  Byte <- MCByte
  ZeroByte <- MCZeroByte
  InitialMemory <- MCInitialMemory
  Scalar <- MCScalar
  Alu <- MCAlu
  Programs <- MCPrograms
  LateGrant <- MCLateGrant
  LateAnswer <- MCLateAnswer
  Bubbles = FALSE
INVARIANTS
  ResultCorrect
  AnswerRouted
  CleanStart
PROPERTIES
  RequestStable
  VectorEnds
