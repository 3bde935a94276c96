\* One session that ends by a logout, on a stale idle verdict or with the server,
\* while a request is starting a job. The deadline of the job passes.
CONSTANTS
  Job = {j1}
  Session = {s1}
  Request = {r1}
  Reaper = Reaper
  Main = Main
  PerSession = 1
  Global = 2
  Timed = TRUE
  IdleTTL = 0
  MaxTTL = 1
  MaxTime = 1
  LastCreate = 0
  NoSession = NoSession
  NoJob = NoJob
SPECIFICATION FairSpec
INVARIANT OnlyLateJobsSurvive
PROPERTIES WorkersEndWithSession EveryJobEnds
CHECK_DEADLOCK FALSE
