SPECIFICATION FairSpec
CONSTANTS
  Contexts = {"anna", "bob"}
  FirstContext = "anna"
  Flags = {"f"}
  Variations = {0, 1}
  Eval <- MCEval
  Absent = Absent
  Value <- MCValue
  Fallback = Fallback
  Nobody = Nobody
  Calls = {k1, k2}
  Requests = {r1}
  TrackEvents = TRUE
  FlushTimer = TRUE
  MaxStreams = 2
  MaxVersion = 2
  MaxReads = 1
  MaxFailures = 2
INVARIANTS OneStream ReadsHonest CountsConserved
PROPERTIES WaitersResolve ClosedStreamsEnd
CHECK_DEADLOCK FALSE
