\* Two servers, one of which may die; s1 waits with LK_E_INTERRUPT, s2 is sent
\* rogue resumes.
SPECIFICATION FairSpec
CONSTANTS
  s1 = s1
  s2 = s2
  s3 = s3
  p1 = p1
  p2 = p2
  e1 = e1
  e2 = e2
  None = None
  Sessions = {s1, s2, s3}
  Procs = {p1, p2}
  Proc <- TwoAndOne
  Events = {e1}
  Interruptible = {s1}
  Mortal = {p2}
  Rogue = {s2}
INVARIANTS
  TypeOK
  FlagsTell
  NoLostEvent
PROPERTIES
  ImplementsEvents
  SignalledGoesOn
