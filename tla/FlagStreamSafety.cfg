SPECIFICATION Spec
CONSTANTS
  Conns = {c1, c2}
  Envs = {e1, e2}
  Reloaders = {t1, t2}
  WarmPending = TRUE
  MaxInstalls = 2
  MaxConnects = 3
SYMMETRY Symmetry
INVARIANT NoLostWakeup
CHECK_DEADLOCK FALSE
