\* Two regions and the global one, two types, batches of two; failing listers,
\* cancellation and every mixture of answers.
CONSTANTS
  ra = ra
  rb = rb
  i1 = i1
  i2 = i2
  i3 = i3
  Region = {ra, rb}
  GlobalRegion = GlobalRegion
  Types = 2
  Id = {i1, i2, i3}
  MaxBatch = 2
  Parallelism = 2
  ListersFail = TRUE
  MayCancel = TRUE
SPECIFICATION MCSpec
INVARIANTS OnlyConfirmed GlobalLast DependenciesFirst ReportedOnce CountsAgree
PROPERTIES CancelStops RunEnds
CHECK_DEADLOCK FALSE
