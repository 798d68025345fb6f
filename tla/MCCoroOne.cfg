SPECIFICATION FairSpec
CONSTANTS
  N = 1
  c1 = c1
  c2 = c2
  c3 = c3
  c4 = c4
  k = k
  l = l
  x = x
  y = y
  None = None
  Coros <- McCoros
  Channels <- McChannels
  Values <- McValues
  Cap <- McCap
  Programs <- McPrograms
INVARIANTS
  DeadlockIsReal
  StopsWhenDone
  SendersWaitWhenFull
PROPERTIES
  Finishes
