\* Two sessions, and one lost message or one reload.
SPECIFICATION Spec
CONSTANTS
  MaxLogins = 2
  MaxFaults = 1
INVARIANTS RegionsOfSession AccountShown
PROPERTY PillsSettle
CHECK_DEADLOCK FALSE
