SPECIFICATION FairSpec
CONSTANT MaxDeaths = 2
INVARIANTS TypeOK OneOfEach
PROPERTIES RestartsWhatItNoted LoneDeathRestarted
CHECK_DEADLOCK FALSE
