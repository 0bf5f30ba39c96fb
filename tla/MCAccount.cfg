\* Two accounts, so that one can follow the other; two requests, so that
\* answers come in either order and one may find what the other did.
CONSTANTS
  Users = {u1, u2}
  MaxRequests = 2
  None = None
SPECIFICATION AccountSpec
INVARIANTS ShownIsSignedIn LabelsAreOfTheUser TrapNeedsLostDocument
