SPECIFICATION Spec
CONSTANTS
  N = 2
  c1 = c1
  c2 = c2
  c3 = c3
  c4 = c4
  c5 = c5
  k = k
  l = l
  x = x
  y = y
  None = None
  Coros <- McCoros
  Channels <- McChannels
  Values <- McValues
  Cap <- McCap
  Programs <- FanInOnly
INVARIANTS
  FrameHeldByOne
