SPECIFICATION Spec
CONSTANTS
  Macs = {m1, m2}
  PoolSize = 2
  LeaseTime = 1
  DeclineProbation = 1
  DeclineMax = 1
  MaxLeases = 0
  QueueLen = 2
  Handlers = {h1, h2}
  Sweeper = sw
  TicksPerSec = 2
  MaxTick = 2
  WritesFail = TRUE
  Crashes = FALSE
  Closes = FALSE
  m1 = m1
  m2 = m2
  h1 = h1
  h2 = h2
  Gens <- EnoughGens
SYMMETRY Symmetry
PROPERTIES
  DropsOnlyUnrecorded
CHECK_DEADLOCK FALSE
