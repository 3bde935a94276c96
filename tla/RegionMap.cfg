\* Two tabs, two regions, three changes of theme.
SPECIFICATION Spec
CONSTANTS
  Tab = {"t1", "t2"}
  Here = "t1"
  blank = blank
  NoStyle = none
  StyleOf <- MCStyleOf
  Region = {"east", "west"}
  MaxChanges = 3
INVARIANT TabsAgree
PROPERTIES MapGetsPainted ClickTogglesOne
CHECK_DEADLOCK FALSE
