\* A well under the finger, the one being made, and another to tap.
CONSTANTS
  MaxWells = 3
  Shapes = {1, 2}
  Stage = Stage
SPECIFICATION Spec
INVARIANTS InvisibleOnlyInPress DrawnForTheWells TrapNeedsSecondFinger
PROPERTIES PressSparesTheWellUnder
CHECK_DEADLOCK FALSE
