CONSTANTS
  Syncs = {s1}
  Grants = {g1}
  Concurrency = 2
  HeartbeatLimit = 3
  MaxLapses = 1
  MaxFaults = 2
SPECIFICATION FairSpec
INVARIANTS TypeOK SlotsAreCounted AtMostConcurrency OnlyShutdownPanics AtMostOneLateClaim ClaimedAreWorkedOn PatientHeart
PROPERTIES OfferedAreClaimed
CHECK_DEADLOCK FALSE
