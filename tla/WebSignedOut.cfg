\* One session and one lost message.
SPECIFICATION Spec
CONSTANTS
  MaxLogins = 1
  MaxFaults = 1
PROPERTY SignedOutIsGone
CHECK_DEADLOCK FALSE
