SPECIFICATION Spec
CONSTANTS
  Ids = {m1, m2}
  Nothing = Nothing
  Traffic <- ExchangeTraffic
  AuthIni <- MCAuthIni
  PayIni <- MCPayIni
  Verdicts <- MCVerdicts
  Days <- MCDays
  Bodies <- MCBodies
  StartTraces <- MCStart
INVARIANTS TypeOK NothingForeign  AnswersReadable ResultTold ReversalFollows TracesDistinct 
SYMMETRY Symmetry
CHECK_DEADLOCK FALSE
