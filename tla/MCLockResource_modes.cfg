\* Three lists, all seven modes.
SPECIFICATION Spec
CONSTANTS
  l1 = l1
  l2 = l2
  l3 = l3
  Lists = {l1, l2, l3}
  Wanted <- AllModes
  Undetected = {}
  Mortal = {}
  Handed = {}
SYMMETRY Interchangeable
INVARIANTS
  TypeOK
  QueuesAgree
  HoldersCompatible
  GroupModeCovers
PROPERTIES
  NoOvertaking
  ConversionsFirst
