\* Lists that are not searched for deadlock and may time out.
SPECIFICATION Spec
CONSTANTS
  l1 = l1
  l2 = l2
  l3 = l3
  NoList = NoList
  Wanted <- SharedExclusive
  Lists = {l1, l2, l3}
  Undetected = {l1, l2, l3}
  Impatient = {l1, l2}
  Rogue = {}
INVARIANT
  TimeoutTakesNothing
