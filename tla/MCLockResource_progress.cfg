\* Three lists that use the modes IS, IX, S and X; l3's process may
\* die, the recovery process adopts its list then.
SPECIFICATION FairSpec
CONSTANTS
  l1 = l1
  l2 = l2
  l3 = l3
  Lists = {l1, l2, l3}
  Wanted <- ClassicModes
  Undetected = {}
  Mortal = {l3}
  Handed = {}
INVARIANTS
  TypeOK
  QueuesAgree
  HoldersCompatible
  GroupModeCovers
  SummaryGrantMode
  NoMissedGrant
  NoMissedConversion
PROPERTIES
  NoOvertaking
  ConversionsFirst
  EveryWaitEnds
