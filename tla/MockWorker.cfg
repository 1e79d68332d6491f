SPECIFICATION Spec
CONSTANTS
  MaxClients = 3
  Frames = {3}
  Environment = "development"
  Flags = {"unset", "false"}
  MaxWorkers = 2
  MaxAsking = 1
INVARIANTS BannerTruthful OrphanHasCause SomebodyAnswers
CHECK_DEADLOCK FALSE
