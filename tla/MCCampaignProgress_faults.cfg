\* Every kind of fault: what survives all of them.
CONSTANTS
  l1 = l1
  l2 = l2
  l3 = l3
  l4 = l4
  Levels = {l1, l2, l3}
  UserLevels = {u1}
  number <- Consecutive
  Faults = {"kill", "save", "read", "copy", "decode", "update"}
  NoLevel = NoLevel
  NoFile = NoFile
SPECIFICATION Spec
INVARIANTS
  UniqueUUIDs
  ContiguousUnlock
  DiskIsPrefix
  PlayedIsUnlocked
PROPERTIES
  CompletionRepairs
  UnlockedForever
  ImplementsLedger
