SPECIFICATION Spec
CONSTANTS
  Macs = {m1, m2}
  PoolSize = 2
  LeaseTime = 1
  DeclineProbation = 1
  DeclineMax = 1
  MaxLeases = 0
  QueueLen = 2
  Handlers = {h1, h2}
  Sweeper = sw
  TicksPerSec = 1
  MaxTick = 1
  WritesFail = TRUE
  Crashes = TRUE
  Closes = FALSE
  m1 = m1
  m2 = m2
  h1 = h1
  h2 = h2
  Gens <- EnoughGens
SYMMETRY Symmetry
VIEW ServerView
INVARIANTS
  PoolAccounted
  NoSharedAddress
  LeaseWritten
CHECK_DEADLOCK FALSE
