\* Two jobs of one session, one at a time. A deadline may end a job, but nothing
\* counts on it: a worker that hangs has to be cancelled.
CONSTANTS
  Job = {j1, j2}
  Session = {s1}
  Caller = {c1}
  PerSession = 0
  Global = 1
  Timed = TRUE
  NoSession = NoSession
  NoJob = NoJob
SPECIFICATION FairSpec
INVARIANTS TypeOK GlobalCap SucceededIsEarned RunningIsCounted
PROPERTIES CancelIsNotSuccess ImplementsLifecycle CancelSessionWorks
CHECK_DEADLOCK FALSE
