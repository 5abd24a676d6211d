SPECIFICATION SavefileSpec
CONSTANTS
  DefaultBuffer = 4
  MaxCaplen = 3
  MaxBlock = 200
  TicksPerSecond = 100
  WordSize = 1024
  Dumpable <- SomePackets
  Links <- SomeLinks
  MaxPackets = 2
  Others <- SomeOthers
  Counts <- SomeCounts
  Filters <- SomeFilters
  MaxBreaks = 1
INVARIANTS
  KeepsWithinBuffer
  ReadsBack
  OfItsInterface
PROPERTIES
  EndTells
CHECK_DEADLOCK FALSE
