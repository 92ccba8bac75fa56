SPECIFICATION Spec
CONSTANTS
  Ids = {r1}
  Inbounds = {in1, in2}
  Nothing = Nothing
  Traffic <- RejectedOnly
  Capacity = 12
  WireSize = 1
  CoreSize = 3
  LogSize = 13
  DriverBuf = 2
  HasArea = TRUE
  MaxCrashes = 0
  MaxCuts = 0
INVARIANTS RejectsIgnored
CHECK_DEADLOCK FALSE
