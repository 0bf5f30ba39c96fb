\* No fault: a list queried while a level is being published.
CONSTANTS
  Levels = {l1, l2}
  Loads = {a}
  MaxWrites = 1
  Faults = {}
  None = None
SPECIFICATION FairSpec
PROPERTIES ListReturned
