\* Three buffers, records of up to three pages, every configuration.
SPECIFICATION Spec
CONSTANTS
  s1 = s1
  s2 = s2
  w1 = w1
  w2 = w2
  b1 = b1
  b2 = b2
  b3 = b3
  None = None
  Gcmt = Gcmt
  Sessions = {s1, s2}
  LogWriters = {w1, w2}
  Buffers = {b1, b2, b3}
  Setups <- Orders
  Threshold = 1
  MaxLsn = 2
SYMMETRY Interchangeable
INVARIANTS
  TypeOK
  ForcedLsnDurable
  NoWaiterInLimbo
  BuffersAccounted
  WriteQueueOrder
  PagesWrittenWhole
PROPERTY
  KeepsPromises
CHECK_DEADLOCK FALSE
