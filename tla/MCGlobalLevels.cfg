\* Two levels, two loads at once, every fault.
CONSTANTS
  Levels = {l1, l2}
  Loads = {a, b}
  MaxWrites = 1
  Faults = {"set", "upload", "kill", "query", "save", "download"}
  None = None
SPECIFICATION Spec
INVARIANTS WholeListShown DetailIsListed NoOrphanFile ListedGetsFile NoForgottenList
