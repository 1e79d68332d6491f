SPECIFICATION FairSpec
CONSTANTS
  Users = {ann, ben}
  Nobody = Nobody
  Dev = TRUE
  StorageOk = TRUE
  MaxReloads = 1
  MaxFaults = 1
INVARIANTS NothingLeaks MeIsTokens
PROPERTY ScreenReached
CHECK_DEADLOCK FALSE
