SPECIFICATION Spec
CONSTANTS
  NibbleBits = 1
  MemWords = 3
  Snaplen = 200
  Expressions <- MaskedTwice
  Packets <- SomePackets
  Scratch <- SomeScratch
INVARIANTS
  SameVerdict
CHECK_DEADLOCK FALSE
