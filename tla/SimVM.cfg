SPECIFICATION Spec
CONSTANTS
  MaxPages = 4
  MaxWords = 2
  MaxClock = 7
  UintRange = 8
  TimeRange = 16
INVARIANTS TablesAgree NoLostWrite
PROPERTIES EvictsAsNamed
CHECK_DEADLOCK FALSE
