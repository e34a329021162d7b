\* Two sessions in two servers, one of which is sent rogue resumes.
SPECIFICATION Spec
CONSTANTS
  s1 = s1
  s2 = s2
  s3 = s3
  p1 = p1
  p2 = p2
  e1 = e1
  e2 = e2
  None = None
  Sessions = {s1, s2}
  Procs = {p1, p2}
  Proc <- OneEach
  Events = {e1, e2}
  Interruptible = {}
  Mortal = {}
  Rogue = {s2}
INVARIANT
  WaitedToTheEnd
