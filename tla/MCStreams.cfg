SPECIFICATION PlanSpec
CONSTANTS
  c1 = c1
  c2 = c2
  s1 = s1
  s2 = s2
  None = None
  Streams = {s1, s2}
  Callers = {c1, c2}
  May <- Anything
  Parts <- AllParts
  Capacity = 3
  MaxDeltas = 2
  MaxCancels = 1
  MaxRevision = 2
  Used = {"read", "commit"}
SYMMETRY Handles
INVARIANTS
  TypeOK
  EventsGapless
  TerminalOnceAndLast
  AnswerIsStreamed
  NoSilentEnd
PROPERTIES
  ImplementsLedger
CHECK_DEADLOCK FALSE
