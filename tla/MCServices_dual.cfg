SPECIFICATION Spec
CONSTANTS
  Clients = {c1, c2, c3}
  Handlers = {h1, h2}
SYMMETRY Symmetry
INVARIANT
  EveryNameHeld
CHECK_DEADLOCK FALSE
