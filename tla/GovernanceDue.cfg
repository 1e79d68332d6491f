SPECIFICATION FairSpec
CONSTANTS
  Requests = {}
  Scheduled = {s1, s2}
  Triggers = {}
  Patches = {p}
  Puts = {}
  Invalid = {s2}
  Handlers = {h}
  Schedulers = {k1, k2}
  Batch = 1
  MaxFires = 1
  MaxFaults = 1
PROPERTIES DueResolved ScheduledFinal
CHECK_DEADLOCK FALSE
