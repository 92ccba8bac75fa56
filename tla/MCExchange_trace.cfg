SPECIFICATION Spec
CONSTANTS
  Ids = {m1}
  Nothing = Nothing
  Traffic <- PurchaseOnly
  AuthIni <- MCAuthIni
  PayIni <- MCPayIni
  Verdicts <- MCVerdicts
  Days <- MCDays
  Bodies <- MCBodies
  StartTraces <- MCStart
INVARIANTS TraceEchoed
CHECK_DEADLOCK FALSE
