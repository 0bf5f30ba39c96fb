\* A box and a line of the template and two items of the toolbox, of which two
\* may coincide: lines wherever they are dragged, boxes from the start.
CONSTANTS
  here = here
  there = there
  blank = blank
  new = new
  full = full
  beyond = beyond
  near = near
  Places <- LinesMove
  NewPlace = here
  Velocities <- VelocitySet
  BlankVelocity = blank
  NewVelocity = new
  Knobs <- KnobSet
  Reach = {near}
  KnobOf <- KnobsShown
  VelocityOf <- VelocitiesRead
  None = None
  MaxItems = 4
SPECIFICATION Spec
INVARIANTS NothingVanishes ShownIsListed
PROPERTIES ImplementsBoard
