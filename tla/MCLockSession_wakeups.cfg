\* Three lists: l1 and l2 are searched for deadlock, l3 is not, may time out and
\* is sent rogue resumes.
SPECIFICATION Spec
CONSTANTS
  l1 = l1
  l2 = l2
  l3 = l3
  NoList = NoList
  Wanted <- IntentRead
  Lists = {l1, l2, l3}
  Undetected = {l3}
  Impatient = {l3}
  Rogue = {l3}
SYMMETRY Interchangeable
INVARIANTS
  TypeOK
  OkMeansHeld
  DeadlockTakesNothing
  NoLostResume
PROPERTIES
  ImplementsService
