SPECIFICATION Spec
CONSTANTS
  Sessions <- SomeSessions
  Packets <- PacketsOf
INVARIANTS
  
  SameMeaning
  Judged
CHECK_DEADLOCK FALSE
