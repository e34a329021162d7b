\* Three lists, all modes: LK_U beside LK_S.
SPECIFICATION Spec
CONSTANTS
  l1 = l1
  l2 = l2
  l3 = l3
  Lists = {l1, l2, l3}
  Wanted <- AllModes
  Undetected = {}
  Mortal = {}
  Handed = {}
INVARIANT
  SummaryGrantMode
