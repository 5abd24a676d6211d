SPECIFICATION Spec
CONSTANTS
  NibbleBits = 1
  MemWords = 2
  Programs <- ShortPrograms
  Packets <- SomePackets
  Scratch <- AnyScratch

  
PROPERTIES
  Terminates
CHECK_DEADLOCK FALSE
