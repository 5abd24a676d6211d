SPECIFICATION Spec
CONSTANTS
  c1 = c1
  c2 = c2
  a = a
  b = b
  Sources <- OneCard
  Paths <- TwoPaths
  Lengths <- TwoLengths
  NoState = NoState
  MaxFrames = 3
  MaxStarts = 2
INVARIANTS
  
  
  LogHandle
  ClosedIsSynced
PROPERTIES
  
  KeepsPromise
CHECK_DEADLOCK FALSE
