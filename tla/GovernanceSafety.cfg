SPECIFICATION Spec
CONSTANTS
  Requests = {q}
  Scheduled = {s}
  Triggers = {t}
  Patches = {}
  Puts = {u}
  Invalid = {}
  Handlers = {h1, h2}
  Schedulers = {k1}
  Batch = 1
  MaxFires = 2
  MaxFaults = 1
SYMMETRY Symmetry
INVARIANTS StatusHonest EditsKept EarlyCancelHolds RunsCounted
CHECK_DEADLOCK FALSE
