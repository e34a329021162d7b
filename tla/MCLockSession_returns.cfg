\* Two lists, both searched for deadlock.
SPECIFICATION FairSpec
CONSTANTS
  l1 = l1
  l2 = l2
  l3 = l3
  NoList = NoList
  Wanted <- IntentShared
  Lists = {l1, l2}
  Undetected = {}
  Impatient = {}
  Rogue = {}
PROPERTY
  RequestReturns
