\* Three regions of two accounts, more than the server takes in one of them; two
\* regional types and a global one, also too many; two history records; inputs of
\* 0.4 and 9000 hours.
SPECIFICATION Spec
SYMMETRY Swap
CONSTANTS
  east = east
  west = west
  south = south
  MaxRegions = 1
  MaxTypes = 2
  Off = Off
  Region = {east, west, south}
  Enabled <- MCEnabled
  Regional = {"s3", "ec2"}
  GlobalType = {"iam"}
  DefaultType = {"s3"}
  Past <- MCPast
  Text = {4, 90000}
INVARIANT RefusedForReason
PROPERTY ScanAgainIsTheSame
CHECK_DEADLOCK FALSE
