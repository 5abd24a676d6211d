SPECIFICATION FairSpec
CONSTANTS
  MaxActivities = 2
  MaxTaps = 3
  MaxFlips = 2
  MaxQueue = 1
INVARIANTS
  SidesAgree
PROPERTIES
  StopAndShareShares
  SeenRadioLossEndsLog
CHECK_DEADLOCK FALSE
