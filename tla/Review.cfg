\* Two scans and a clean-up, a regional and a global resource, two sessions.
SPECIFICATION Spec
CONSTANTS
  bucket = bucket
  role = role
  east = east
  west = west
  Global = global
  Region = {east, west}
  Resource <- MCResource
  RegionOf <- MCRegionOf
  TypeOf <- MCTypeOf
  ScanSpec <- MCScanSpec
  Report <- MCReport
  MaxJobs = 3
  MaxSessions = 2
INVARIANT ScopeCoversSelection
PROPERTY ImplementsReview
CHECK_DEADLOCK FALSE
