\* Every fault, two calls on one device and one on another.
\* The calls end for good, and one that is stuck is what CallEnds is about.
CONSTANTS
  c1 = c1
  c2 = c2
  c3 = c3
  d1 = d1
  d2 = d2
  Calls = {c1, c2, c3}
  Devices = {d1, d2}
  device <- Together
  NumShards = 2
  Faults = {"get", "set", "transaction", "kill"}
  Missing = Missing
  Counter = Counter
SPECIFICATION FairSpec
INVARIANTS NeverOvercounts SoleCreatorLosesNothing CreatorFindsShards
PROPERTIES ImplementsTally CounterCompleted CallEnds
CHECK_DEADLOCK FALSE
