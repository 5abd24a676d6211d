SPECIFICATION Spec
CONSTANTS
  NibbleBits = 1
  MemWords = 3
  Snaplen = 200
  Expressions <- SomeExpressions
  Packets <- SomePackets
  Scratch <- SomeScratch
INVARIANTS
  TablesHold
  SameVerdict
  PathsAreRight
PROPERTIES
  Ends
CHECK_DEADLOCK FALSE
