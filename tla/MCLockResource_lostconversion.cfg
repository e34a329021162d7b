\* Three lists, one of which converts a weak lock to LK_N.
SPECIFICATION Spec
CONSTANTS
  l1 = l1
  l2 = l2
  l3 = l3
  Lists = {l1, l2, l3}
  Wanted <- NullModes
  Undetected = {}
  Mortal = {}
  Handed = {}
INVARIANT
  NoMissedConversion
