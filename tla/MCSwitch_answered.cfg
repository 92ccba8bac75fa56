SPECIFICATION FairSpec
CONSTANTS
  Ids = {r1, r2}
  Inbounds = {in1}
  Nothing = Nothing
  Traffic <- LiveTraffic
  Capacity = 12
  WireSize = 1
  CoreSize = 3
  LogSize = 13
  DriverBuf = 2
  HasArea = TRUE
  MaxCrashes = 0
  MaxCuts = 1
INVARIANTS OrderKept Accounted LosslessInv
PROPERTIES EveryoneAnswered RejectReversed
CHECK_DEADLOCK FALSE
