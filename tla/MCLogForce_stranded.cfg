\* Two logwriters.
SPECIFICATION FairSpec
CONSTANTS
  s1 = s1
  s2 = s2
  w1 = w1
  w2 = w2
  b1 = b1
  b2 = b2
  b3 = b3
  None = None
  Gcmt = Gcmt
  Sessions = {s1, s2}
  LogWriters = {w1, w2}
  Buffers = {b1, b2, b3}
  Setups <- Pair
  Threshold = 1
  MaxLsn = 1
PROPERTY
  QueuedIsWritten
CHECK_DEADLOCK FALSE
