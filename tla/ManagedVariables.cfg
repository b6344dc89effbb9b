SPECIFICATION VarSpec
CONSTANTS
  VarNodes = {"W", "R"}
  VarWriters = {"W"}
  MaxVersion = 2
  MaxVarCalls = 3
PROPERTY ArrivedIsCached
CHECK_DEADLOCK FALSE
