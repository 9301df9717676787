SPECIFICATION Spec
CONSTANTS
  NWords <- MCNWords
  NRegs <- MCNRegs
  WordsPerReg <- MCWordsPerReg
  AguWords <- MCAguWords
  Byte <- MCByte
  ZeroByte <- MCZeroByte
  InitialMemory <- MCInitialMemory
  Scalar <- MCScalar
  Alu <- MCAlu
  Programs <- OneAdd
  LateGrant <- NoneLate
  LateAnswer <- NoneLate
  Bubbles = TRUE
INVARIANTS
  NoMemResponseWithoutInstruction
