\* Replaying a level against the promise of CampaignHandler.swift:128.
CONSTANTS
  l1 = l1
  l2 = l2
  l3 = l3
  l4 = l4
  Levels = {l1, l2, l3}
  UserLevels = {u1}
  number <- Consecutive
  Faults = {}
  NoLevel = NoLevel
  NoFile = NoFile
SPECIFICATION Spec
PROPERTIES
  OnlyReplaceIfBetter
