\* A request that starts a job against one that signs out.
CONSTANTS
  Job = {j1}
  Session = {s1}
  Request = {r1, r2}
  Reaper = Reaper
  Main = Main
  PerSession = 2
  Global = 2
  Timed = FALSE
  IdleTTL = 1
  MaxTTL = 2
  MaxTime = 3
  LastCreate = 0
  NoSession = NoSession
  NoJob = NoJob
SPECIFICATION Spec
PROPERTY NoWorkerAfterSession
CHECK_DEADLOCK FALSE
