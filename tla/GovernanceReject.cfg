SPECIFICATION Spec
CONSTANTS
  Requests = {q}
  Scheduled = {}
  Triggers = {}
  Patches = {}
  Puts = {}
  Invalid = {}
  Handlers = {h1, h2}
  Schedulers = {}
  Batch = 1
  MaxFires = 0
  MaxFaults = 0
INVARIANT RejectedNotApplied
CHECK_DEADLOCK FALSE
