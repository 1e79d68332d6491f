SPECIFICATION FairSpec
CONSTANTS
  Replicas = {r1, r2}
  Envs = {e1, e2}
  Requests = {w1, w2}
  WriteTo = {r1, r2}
  UpAtStart = {r1}
  EnvsAtStart = {e1}
  Ops = {"config", "flag", "delete", "segment", "createenv", "deleteproject"}
  MaxWrites = 2
  MaxFaults = 1
  MaxBoots = 1
  MaxCrashes = 1
INVARIANT StaleHasCause
CHECK_DEADLOCK FALSE
PROPERTY Settles
