SPECIFICATION FairSpec
CONSTANTS
  Ids = {r1}
  Inbounds = {in1, in2}
  Nothing = Nothing
  Traffic <- FinancialOnly
  Capacity = 12
  WireSize = 1
  CoreSize = 3
  LogSize = 13
  DriverBuf = 2
  HasArea = TRUE
  MaxCrashes = 0
  MaxCuts = 0
PROPERTIES NoBitmapSkipped
CHECK_DEADLOCK FALSE
