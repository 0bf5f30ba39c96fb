\* The process may end anywhere and a read fail; writes succeed. Two levels carry
\* the same number: directory order decides between them.
CONSTANTS
  l1 = l1
  l2 = l2
  l3 = l3
  l4 = l4
  Levels = {l1, l2, l3, l4}
  UserLevels = {}
  number <- WithTwins
  Faults = {"kill", "read"}
  NoLevel = NoLevel
  NoFile = NoFile
SPECIFICATION FairSpec
INVARIANTS
  SavedWhenIdle CompletedUnlocksNext
PROPERTIES
  CompletionIsSaved
