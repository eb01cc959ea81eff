SPECIFICATION LiveSpec
CONSTANTS
  Macs = {m1, m2, m3}
  PoolSize = 2
  LeaseTime = 1
  DeclineProbation = 1
  DeclineMax = 1
  MaxLeases = 2
  QueueLen = 2
  Handlers = {h1}
  Sweeper = sw
  TicksPerSec = 2
  MaxTick = 2
  WritesFail = FALSE
  Crashes = FALSE
  Closes = TRUE
  m1 = m1
  m2 = m2
  m3 = m3
  h1 = h1
  Gens <- EnoughGens
INVARIANTS
  TablesBounded
PROPERTIES
  HandlersFinish
  ExpiredReclaimed
CHECK_DEADLOCK FALSE
