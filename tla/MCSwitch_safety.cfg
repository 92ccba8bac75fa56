SPECIFICATION Spec
CONSTANTS
  Ids = {r1, r2}
  Inbounds = {in1, in2}
  Nothing = Nothing
  Traffic <- SafetyTraffic
  Capacity = 6
  WireSize = 1
  CoreSize = 3
  LogSize = 2
  DriverBuf = 2
  HasArea = TRUE
  MaxCrashes = 1
  MaxCuts = 0
INVARIANTS TypeOK AnsweredOnce ApprovalBacked IInv
PROPERTIES DecidedOnce ImplementsService
SYMMETRY Symmetry
CHECK_DEADLOCK FALSE
