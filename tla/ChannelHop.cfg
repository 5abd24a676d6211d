SPECIFICATION FairSpec
CONSTANTS
  Channels = {1, 6, 11}
  Cards = {k1}
  k1 = k1
  MaxActivities = 2
  MaxEdits = 2
  MaxIntents = 1
  MaxQueue = 1
INVARIANTS
  PlacesAgree
PROPERTIES
  AllComeRound
CHECK_DEADLOCK FALSE
