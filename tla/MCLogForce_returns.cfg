\* Two buffers, so that sessions run out of them, and at most one logwriter.
SPECIFICATION FairSpec
CONSTANTS
  s1 = s1
  s2 = s2
  w1 = w1
  w2 = w2
  b1 = b1
  b2 = b2
  b3 = b3
  None = None
  Gcmt = Gcmt
  Sessions = {s1, s2}
  LogWriters = {w1, w2}
  Buffers = {b1, b2}
  Setups <- Progress
  Threshold = 1
  MaxLsn = 2
PROPERTY
  CallsReturn
CHECK_DEADLOCK FALSE
