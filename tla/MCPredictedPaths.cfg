\* Two boxes, two wells, five moves a prediction, any number of predictions.
CONSTANTS
  Colors = {"red", "green"}
  NumBoxes = 2
  sideColor <- RedAndGreen
  startColor = "red"
  startThickness = 2
  NumWells = 2
  MaxMoves = 5
SPECIFICATION Spec
INVARIANTS LayersAreThePath
PROPERTIES NoChangeWithoutCrossing FirstCrossingChanges
