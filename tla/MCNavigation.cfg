\* Two fingers put at most three views of a kind on the screen at once.
CONSTANTS
  MaxCopies = 3
  NoControl = NoControl
SPECIFICATION NavSpec
INVARIANTS CurrentStays NothingLingers HomeIsWhereItWasChosen
