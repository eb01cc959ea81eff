SPECIFICATION Spec
CONSTANTS
  Clients = {c1, c2, c3}
  Handlers = {h1, h2}
SYMMETRY Symmetry
INVARIANTS
  RateHeld
  NamesExact
  EventsAccounted
  AnswersFresh
  QuietMeansCurrent
  ReadersToldTrue
  DashboardTrue
PROPERTIES
  NobodyTurnedAway
  HeldNamesKept
  WatchersUndisturbed
  PausedHolds
CHECK_DEADLOCK FALSE
