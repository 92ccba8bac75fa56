SPECIFICATION FairSpec
CONSTANT MaxDeaths = 1
PROPERTIES EarlyDeathRestarted
CHECK_DEADLOCK FALSE
