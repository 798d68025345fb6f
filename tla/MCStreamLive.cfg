SPECIFICATION FairPlanSpec
CONSTANTS
  c1 = c1
  c2 = c2
  s1 = s1
  s2 = s2
  None = None
  Streams = {s1}
  Callers = {c1, c2}
  May <- Anything
  Parts <- TextOnly
  Capacity = 6
  MaxDeltas = 1
  MaxCancels = 1
  MaxRevision = 1
  Used = {"watch"}
PROPERTIES
  CancelReleasesReaders
  TimedReadsReturn
CHECK_DEADLOCK FALSE
