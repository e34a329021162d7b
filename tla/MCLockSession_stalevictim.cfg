\* Lists that are searched for deadlock and may time out.
SPECIFICATION Spec
CONSTANTS
  l1 = l1
  l2 = l2
  l3 = l3
  NoList = NoList
  Wanted <- SharedExclusive
  Lists = {l1, l2, l3}
  Undetected = {}
  Impatient = {l1, l2}
  Rogue = {}
INVARIANT
  OkMeansHeld
