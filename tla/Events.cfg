\* Three events, a channel with room for one, two lost or refused connections,
\* snapshots that fail.
CONSTANTS
  Key = {k1}
  MaxEvents = 3
  Slack = 1
  MaxWire = 1
  MaxDrops = 2
  SyncMayFail = TRUE
  NoKey = NoKey
SPECIFICATION FairSpec
INVARIANTS PageIsPrefix NeverReplayed
PROPERTIES NeverGoesBack EventsArrive PageSettles
CHECK_DEADLOCK FALSE
