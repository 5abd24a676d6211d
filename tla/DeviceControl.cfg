SPECIFICATION FairSpec
CONSTANTS
  Devices = {d1}
  d1 = d1
  Outcomes = {"started", "notCalibrated", "notOpened"}
  MaxActivities = 2
  MaxSources = 3
  MaxQueue = 3
INVARIANTS
  ThreadsAreKnown
PROPERTIES
  PermittedIsAttached
  HeardUnplugEndsThread
CHECK_DEADLOCK FALSE
