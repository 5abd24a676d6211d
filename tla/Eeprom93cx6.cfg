SPECIFICATION EepromSpec
CONSTANTS
  Width = 6
  Memories <- PatternMemories
  Wanted <- AttachWords
  MaxLost = 1
INVARIANTS
  ReadsRight
