\* One session; a request that keeps using it, the reaper and the shutdown.
CONSTANTS
  Session = {s1}
  Request = {r1}
  Reaper = Reaper
  Main = Main
  IdleTTL = 1
  MaxTTL = 2
  MaxTime = 4
  LastCreate = 1
  NoSession = NoSession
SPECIFICATION FairSpec
INVARIANTS OnCloseOnce ClosedBeforeNotified HardLimitHolds
PROPERTY CredentialsDropped
CHECK_DEADLOCK FALSE
