\* A list that is handed to the recovery process while it works for l3's
\* transaction, whose process died.
SPECIFICATION Spec
CONSTANTS
  l1 = l1
  l2 = l2
  l3 = l3
  Lists = {l1, l2, l3}
  Wanted <- ClassicModes
  Undetected = {}
  Mortal = {l3}
  Handed = {l2}
PROPERTIES
  RecoveryAvoidsOrphans
