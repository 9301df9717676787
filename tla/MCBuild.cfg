SPECIFICATION Spec
CONSTANTS
  small = small
  otp = otp
  Fast = Fast
  Single = Single
  YOSYS = YOSYS
  SYNTHESIS = SYNTHESIS
  slow_mull = slow_mull
  fast_mull = fast_mull
  Unparsable = Unparsable
  NotMapping = NotMapping
  NoConfig = NoConfig
  Flag = Flag
  Malformed = Malformed
  Unavailable = Unavailable
  None = None
  Configs <- MCConfigs
  Declared <- MCDeclared
  Files <- MCFiles
  Tables <- MCTables
  Installations <- MCInstallations
  Targets = {slow_mull, fast_mull}
  BuildRoot <- MCBuildRoot
  paths <- MCPaths
  defines = {YOSYS}
  MaxBuilds = 2
INVARIANTS GreenMeansChecked CoreMarkOrIssue CheckExact ToolReadsConversion FailureLeavesSources
CHECK_DEADLOCK FALSE
