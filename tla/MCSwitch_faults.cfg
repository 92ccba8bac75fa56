SPECIFICATION Spec
CONSTANTS
  Ids = {r1}
  Inbounds = {in1, in2}
  Nothing = Nothing
  Traffic <- EveryForm
  Capacity = 4
  WireSize = 1
  CoreSize = 3
  LogSize = 1
  DriverBuf = 2
  HasArea = TRUE
  MaxCrashes = 1
  MaxCuts = 1
INVARIANTS NeverDeaf NoOrphan OnlyPoison AnswerMatches NoFileUpdateOut
SYMMETRY Symmetry
CHECK_DEADLOCK FALSE
