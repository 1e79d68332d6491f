SPECIFICATION FairSpec
CONSTANTS
  Conns = {c1, c2}
  Envs = {e1}
  Reloaders = {t1, t2}
  WarmPending = FALSE
  MaxInstalls = 2
  MaxConnects = 3
PROPERTIES ViewSpec StreamsSettle
INVARIANT ClientsCurrent
CHECK_DEADLOCK FALSE
