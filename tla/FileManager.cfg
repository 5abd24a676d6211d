SPECIFICATION FairSpec
CONSTANTS
  Names = {a, b}
  a = a
  b = b
  NoName = NoName
  MaxStamps = 2
  MaxTouches = 2
INVARIANTS
  OneChain
PROPERTIES
  
  DeletesAsAsked
CHECK_DEADLOCK FALSE
