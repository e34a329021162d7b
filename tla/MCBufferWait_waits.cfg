\* Three sessions in two servers and two buffers.
SPECIFICATION BufferFairSpec
CONSTANTS
  s1 = s1
  s2 = s2
  s3 = s3
  p1 = p1
  p2 = p2
  b1 = b1
  b2 = b2
  None = None
  Sessions = {s1, s2, s3}
  Procs = {p1, p2}
  Proc <- TwoAndOne
  Events = {b1, b2}
  Interruptible = {}
  Mortal = {}
  Rogue = {}
INVARIANTS
  BufferTypeOK
  SleepersKnown
PROPERTIES
  WaitsEnd
