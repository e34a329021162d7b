\* Two sessions in two servers, two events; one may be interrupted, the other is
\* sent rogue resumes.
SPECIFICATION FairSpec
CONSTANTS
  s1 = s1
  s2 = s2
  s3 = s3
  p1 = p1
  p2 = p2
  e1 = e1
  e2 = e2
  None = None
  Sessions = {s1, s2}
  Procs = {p1, p2}
  Proc <- OneEach
  Events = {e1, e2}
  Interruptible = {s1}
  Mortal = {p2}
  Rogue = {s2}
PROPERTIES
  SignalledGoesOn
