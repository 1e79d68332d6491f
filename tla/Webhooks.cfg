SPECIFICATION FairSpec
CONSTANTS
  Hooks = {w}
  Events = {e}
  Deliverers = {k1, k2}
  MaxAttempts = 3
  Batch = 1
  MaxFaults = 2
INVARIANTS TypeOK SuccessHonest SendsCounted GivenUpLate
PROPERTIES ResultFinal Drains
CHECK_DEADLOCK FALSE
